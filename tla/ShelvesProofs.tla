--------------------------- MODULE ShelvesProofs ---------------------------
(***************************************************************************)
(* Proofs about Shelves, for any number of workers, shelves, resources,    *)
(* tests, calls and crashes.                                               *)
(***************************************************************************)
EXTENDS Shelves, TLAPS

\* A worker initialises the shelves alone: it owns the bare lock from the
\* time it takes it until it releases it.
InitOwner ==
  \A w \in Workers :
    /\ pc[w] \in {"init", "unlink"} => fn[w] = "init"
    /\ pc[w] = "start" => fn[w] # "init"
    /\ fn[w] = "init" => /\ pc[w] \in {"init", "unlink", "release"}
                         /\ holder[BaseLock] = w

\* A worker that sweeps does so for a test of its own.
SweepsTest ==
  \A w \in Workers :
    /\ fn[w] = "sweep" => test[w] \in Tests
    /\ pc[w] \in {"outer", "visit"} => fn[w] = "sweep"
    /\ pc[w] = "running" => test[w] \in Tests

\* Nobody goes beyond initialize_shelves before this run is recorded, and
\* the old shelves are deleted while every other worker waits to begin.
RunRecorded ==
  RunUid # NoUid =>
    \A w \in Workers : pc[w] \notin {"start", "init"} => uid = RunUid

UnlinksAlone ==
  \A v, w \in Workers : pc[v] = "unlink" /\ v # w => pc[w] = "start"

InitInv == TypeOK /\ InitOwner /\ SweepsTest /\ RunRecorded /\ UnlinksAlone
-----------------------------------------------------------------------------
\* A worker has the file of its shelf open exactly while it is in a
\* session, and no other worker has.
Handles ==
  \A w \in Workers, s \in Shelves :
    w \in opened[s] <=> pc[w] \in Session /\ shelf[w] = s

OneHandle ==
  \A s \in Shelves : \A v, w \in opened[s] : v = w

\* The set a worker is about to store is the one still in the file.
FreshCopy ==
  \A w \in Workers :
    pc[w] \in {"put", "write"} => aux[w] = db[shelf[w]][key[w]]

SessionInv == InitInv /\ Handles /\ OneHandle /\ FreshCopy

\* A test is run by one worker, which leaves it only by a sweep.
OwnTest ==
  \A w \in Workers :
    /\ pc[w] \in {"start", "init", "unlink", "idle"} => test[w] = NoTest
    /\ test[w] \notin pending
    /\ \A v \in Workers : test[v] = test[w] /\ test[w] \in Tests => v = w

\* The control points of a sweep, and of removeme's first store.
SweepControl ==
  \A w \in Workers :
    /\ fn[w] = "sweep" => pc[w] \in {"outer", "visit", "acquire", "open",
                                    "read", "write", "close", "release"}
    /\ pc[w] \in {"get", "put"} => fn[w] = "removeme"

\* A shelf without a file holds nothing, so the listing misses nothing.
FilesHold ==
  /\ \A s \in Shelves \ files, r \in Resources : db[s][r] = {}
  /\ \A w \in Workers : pc[w] \in Session => shelf[w] \in files

\* Where a sweep has still to go for the resource r of shelf s.
Ahead(w, s, r) ==
  \/ pc[w] = "outer"
  \/ s \in todo[w]
  \/ shelf[w] = s /\ pc[w] \in {"acquire", "open"}
  \/ shelf[w] = s /\ pc[w] \in {"read", "write"} /\ r \in cells[w]
  \/ shelf[w] = s /\ pc[w] = "write" /\ r = key[w]

SweepsAll ==
  \A w \in Workers, s \in Shelves, r \in Resources :
    fn[w] = "sweep" /\ test[w] \notin unswept /\ test[w] \in db[s][r] =>
      Ahead(w, s, r)

SweepInv == /\ SessionInv /\ OwnTest /\ SweepControl /\ FilesHold /\ SweepsAll
            /\ SweptTestsReleased
-----------------------------------------------------------------------------
\* TypeOK is inductive: every handler of Shelves keeps the state well formed.
LEMMA TypeStep == TypeOK /\ SweepsTest /\ [Next]_vars => TypeOK'
<1> SUFFICES ASSUME TypeOK, SweepsTest, [Next]_vars PROVE TypeOK'
  OBVIOUS
<1> USE NamesAssumption, BoundsAssumption
      DEF TypeOK, data, locks, call, history, Goto, Functions, Control,
          Session, Ids, Keys
<1>1. ASSUME NEW w \in Workers, StartInit(w) PROVE TypeOK'
  BY <1>1 DEF StartInit, Take
<1>2. ASSUME NEW w \in Workers, CheckUid(w) PROVE TypeOK'
  BY <1>2 DEF CheckUid
<1>3. ASSUME NEW w \in Workers, Unlink(w) PROVE TypeOK'
  BY <1>3 DEF Unlink, NoUsers
<1>4. ASSUME NEW w \in Workers, EndUnlink(w) PROVE TypeOK'
  BY <1>4 DEF EndUnlink
<1>5. ASSUME NEW w \in Workers, BeginTest(w) PROVE TypeOK'
  BY <1>5 DEF BeginTest
<1>6. ASSUME NEW w \in Workers, Call(w) PROVE TypeOK'
  BY <1>6 DEF Call
<1>7. ASSUME NEW w \in Workers, Acquire(w) PROVE TypeOK'
  BY <1>7 DEF Acquire, Take, LockName, SweepsTest
<1>8. ASSUME NEW w \in Workers, Open(w) PROVE TypeOK'
  BY <1>8 DEF Open
<1>9. ASSUME NEW w \in Workers, OpenFails(w) PROVE TypeOK'
  BY <1>9 DEF OpenFails, LastTry
<1>10. ASSUME NEW w \in Workers, GiveUp(w) PROVE TypeOK'
  BY <1>10 DEF GiveUp, SweepsTest
<1>11. ASSUME NEW w \in Workers, Get(w) PROVE TypeOK'
  BY <1>11 DEF Get
<1>12. ASSUME NEW w \in Workers, Put(w) PROVE TypeOK'
  BY <1>12 DEF Put, Kept
<1>13. ASSUME NEW w \in Workers, Read(w) PROVE TypeOK'
  BY <1>13 DEF Read
<1>14. ASSUME NEW w \in Workers, Write(w) PROVE TypeOK'
  BY <1>14 DEF Write, NewUsers, Id
<1>15. ASSUME NEW w \in Workers, Close(w) PROVE TypeOK'
  BY <1>15 DEF Close
<1>16. ASSUME NEW w \in Workers, Release(w) PROVE TypeOK'
  BY <1>16 DEF Release, Drop, LockName, SweepsTest
<1>17. ASSUME NEW w \in Workers, EndTest(w) PROVE TypeOK'
  BY <1>17 DEF EndTest
<1>18. ASSUME NEW w \in Workers, BeginSweep(w) PROVE TypeOK'
  BY <1>18 DEF BeginSweep, Take, Listing, SweepsTest
<1>19. ASSUME NEW w \in Workers, Visit(w) PROVE TypeOK'
  BY <1>19 DEF Visit, SweepRest
<1>20. ASSUME NEW w \in Workers, EndSweep(w) PROVE TypeOK'
  BY <1>20 DEF EndSweep, Drop, SweepsTest
<1>21. ASSUME NEW w \in Workers, Crash(w) PROVE TypeOK'
  BY <1>21 DEF Crash
<1>22. CASE Finished \/ UNCHANGED vars
  BY <1>22 DEF Finished, vars
<1> QED
  BY <1>1, <1>2, <1>3, <1>4, <1>5, <1>6, <1>7, <1>8, <1>9, <1>10, <1>11,
     <1>12, <1>13, <1>14, <1>15, <1>16, <1>17, <1>18, <1>19, <1>20, <1>21,
     <1>22 DEF Next, Step
-----------------------------------------------------------------------------
InitParts == InitOwner /\ SweepsTest /\ RunRecorded /\ UnlinksAlone

\* Who initialises the shelves, and when, is inductive: it rests on the
\* bare lock (initialize_shelves) and on the test that names a sweep's lock.
LEMMA InitStep == InitInv /\ [Next]_vars => InitInv'
<1> SUFFICES ASSUME InitInv, [Next]_vars PROVE InitParts'
  BY TypeStep DEF InitInv, InitParts
<1> USE NamesAssumption, SingleAssumption
      DEF InitInv, InitParts, InitOwner, SweepsTest, RunRecorded,
          UnlinksAlone, TypeOK, data, locks, call, history, Goto, Functions,
          Control, Session, Keys
<1>1. ASSUME NEW w \in Workers, StartInit(w) PROVE InitParts'
  BY <1>1 DEF StartInit, Take
<1>2. ASSUME NEW w \in Workers, CheckUid(w) PROVE InitParts'
  <2>1. pc[w] = "init" /\ holder[BaseLock] = w
    BY <1>2 DEF CheckUid
  <2>2. InitOwner' /\ SweepsTest' /\ RunRecorded'
    BY <1>2 DEF CheckUid
  <2>3. UnlinksAlone'
    <3>1. CASE RunUid = NoUid
      BY <3>1, <1>2 DEF CheckUid
    <3>2. CASE RunUid # NoUid /\ uid = RunUid
      BY <3>2, <1>2 DEF CheckUid
    <3>3. CASE RunUid # NoUid /\ uid # RunUid
      <4>1. \A v \in Workers : v # w => pc[v] = "start"
        BY <3>3, <2>1
      <4> QED
        BY <4>1, <1>2 DEF CheckUid
    <3> QED
      BY <3>1, <3>2, <3>3
  <2> QED
    BY <2>2, <2>3
<1>3. ASSUME NEW w \in Workers, Unlink(w) PROVE InitParts'
  BY <1>3 DEF Unlink
<1>4. ASSUME NEW w \in Workers, EndUnlink(w) PROVE InitParts'
  BY <1>4 DEF EndUnlink
<1>5. ASSUME NEW w \in Workers, BeginTest(w) PROVE InitParts'
  BY <1>5 DEF BeginTest
<1>6. ASSUME NEW w \in Workers, Call(w) PROVE InitParts'
  BY <1>6 DEF Call
<1>7. ASSUME NEW w \in Workers, Acquire(w) PROVE InitParts'
  BY <1>7 DEF Acquire, Take, LockName
<1>8. ASSUME NEW w \in Workers, Open(w) PROVE InitParts'
  BY <1>8 DEF Open
<1>9. ASSUME NEW w \in Workers, OpenFails(w) PROVE InitParts'
  BY <1>9 DEF OpenFails
<1>10. ASSUME NEW w \in Workers, GiveUp(w) PROVE InitParts'
  BY <1>10 DEF GiveUp
<1>11. ASSUME NEW w \in Workers, Get(w) PROVE InitParts'
  BY <1>11 DEF Get
<1>12. ASSUME NEW w \in Workers, Put(w) PROVE InitParts'
  BY <1>12 DEF Put, Kept
<1>13. ASSUME NEW w \in Workers, Read(w) PROVE InitParts'
  BY <1>13 DEF Read
<1>14. ASSUME NEW w \in Workers, Write(w) PROVE InitParts'
  BY <1>14 DEF Write
<1>15. ASSUME NEW w \in Workers, Close(w) PROVE InitParts'
  BY <1>15 DEF Close
<1>16. ASSUME NEW w \in Workers, Release(w) PROVE InitParts'
  BY <1>16 DEF Release, Drop, LockName
<1>17. ASSUME NEW w \in Workers, EndTest(w) PROVE InitParts'
  BY <1>17 DEF EndTest
<1>18. ASSUME NEW w \in Workers, BeginSweep(w) PROVE InitParts'
  BY <1>18 DEF BeginSweep, Take
<1>19. ASSUME NEW w \in Workers, Visit(w) PROVE InitParts'
  BY <1>19 DEF Visit
<1>20. ASSUME NEW w \in Workers, EndSweep(w) PROVE InitParts'
  BY <1>20 DEF EndSweep, Drop
<1>21. ASSUME NEW w \in Workers, Crash(w) PROVE InitParts'
  BY <1>21 DEF Crash
<1>22. CASE Finished \/ UNCHANGED vars
  BY <1>22 DEF Finished, vars
<1> QED
  BY <1>1, <1>2, <1>3, <1>4, <1>5, <1>6, <1>7, <1>8, <1>9, <1>10, <1>11, <1>12, <1>13, <1>14, <1>15, <1>16, <1>17, <1>18, <1>19, <1>20, <1>21, <1>22 DEF Next, Step
-----------------------------------------------------------------------------
SessionParts == Handles /\ OneHandle /\ FreshCopy

\* With a dbm that excludes other processes (gdbm) the session of a worker
\* on a file is alone: what it read is still there when it writes.
LEMMA SessionStep ==
  ASSUME ExclusiveOpen, SessionInv, [Next]_vars
  PROVE  SessionInv'
<1> SUFFICES SessionParts'
  BY InitStep DEF SessionInv, SessionParts
<1> USE DEF SessionInv, SessionParts, Handles, OneHandle, FreshCopy, InitInv,
            UnlinksAlone, TypeOK, data, locks, call, history, Goto, Session
<1>1. ASSUME NEW w \in Workers, StartInit(w) PROVE SessionParts'
  BY <1>1 DEF StartInit, Take
<1>2. ASSUME NEW w \in Workers, CheckUid(w) PROVE SessionParts'
  BY <1>2 DEF CheckUid
<1>3. ASSUME NEW w \in Workers, Unlink(w) PROVE SessionParts'
  BY <1>3 DEF Unlink
<1>4. ASSUME NEW w \in Workers, EndUnlink(w) PROVE SessionParts'
  BY <1>4 DEF EndUnlink
<1>5. ASSUME NEW w \in Workers, BeginTest(w) PROVE SessionParts'
  BY <1>5 DEF BeginTest
<1>6. ASSUME NEW w \in Workers, Call(w) PROVE SessionParts'
  BY <1>6 DEF Call
<1>7. ASSUME NEW w \in Workers, Acquire(w) PROVE SessionParts'
  BY <1>7 DEF Acquire, Take, LockName
<1>8. ASSUME NEW w \in Workers, Open(w) PROVE SessionParts'
  BY <1>8 DEF Open, CanOpen
<1>9. ASSUME NEW w \in Workers, OpenFails(w) PROVE SessionParts'
  BY <1>9 DEF OpenFails
<1>10. ASSUME NEW w \in Workers, GiveUp(w) PROVE SessionParts'
  BY <1>10 DEF GiveUp
<1>11. ASSUME NEW w \in Workers, Get(w) PROVE SessionParts'
  BY <1>11 DEF Get
<1>12. ASSUME NEW w \in Workers, Put(w) PROVE SessionParts'
  BY <1>12 DEF Put, Kept
<1>13. ASSUME NEW w \in Workers, Read(w) PROVE SessionParts'
  BY <1>13 DEF Read
<1>14. ASSUME NEW w \in Workers, Write(w) PROVE SessionParts'
  BY <1>14 DEF Write
<1>15. ASSUME NEW w \in Workers, Close(w) PROVE SessionParts'
  BY <1>15 DEF Close
<1>16. ASSUME NEW w \in Workers, Release(w) PROVE SessionParts'
  BY <1>16 DEF Release, Drop, LockName
<1>17. ASSUME NEW w \in Workers, EndTest(w) PROVE SessionParts'
  BY <1>17 DEF EndTest
<1>18. ASSUME NEW w \in Workers, BeginSweep(w) PROVE SessionParts'
  BY <1>18 DEF BeginSweep, Take
<1>19. ASSUME NEW w \in Workers, Visit(w) PROVE SessionParts'
  BY <1>19 DEF Visit
<1>20. ASSUME NEW w \in Workers, EndSweep(w) PROVE SessionParts'
  BY <1>20 DEF EndSweep, Drop
<1>21. ASSUME NEW w \in Workers, Crash(w) PROVE SessionParts'
  BY <1>21 DEF Crash
<1>22. CASE Finished \/ UNCHANGED vars
  BY <1>22 DEF Finished, vars
<1> QED
  BY <1>1, <1>2, <1>3, <1>4, <1>5, <1>6, <1>7, <1>8, <1>9, <1>10, <1>11,
     <1>12, <1>13, <1>14, <1>15, <1>16, <1>17, <1>18, <1>19, <1>20, <1>21,
     <1>22 DEF Next, Step
-----------------------------------------------------------------------------
SweepControls == OwnTest /\ SweepControl /\ FilesHold

LEMMA SweepControlStep ==
  ASSUME ExclusiveOpen, SessionInv, SweepControls, [Next]_vars
  PROVE  SweepControls'
<1> USE NamesAssumption
    DEF SessionInv, SweepControls, OwnTest, SweepControl, FilesHold, Handles,
        FreshCopy, InitInv, InitOwner, SweepsTest, UnlinksAlone, TypeOK, data,
        locks, call, history, Goto, Session
<1>1. ASSUME NEW w \in Workers, StartInit(w) PROVE SweepControls'
  BY <1>1 DEF StartInit, Take
<1>2. ASSUME NEW w \in Workers, CheckUid(w) PROVE SweepControls'
  <2>1. pc[w] = "init" /\ fn[w] = "init" /\ test[w] = NoTest
    BY <1>2 DEF CheckUid
  <2>2. \/ pc' = [pc EXCEPT ![w] = "release"]
        \/ pc' = [pc EXCEPT ![w] = "unlink"]
    BY <1>2 DEF CheckUid
  <2>3. UNCHANGED <<files, db, fn, shelf, test, pending>>
    BY <1>2 DEF CheckUid
  <2>4. \A v \in Workers : v # w => pc'[v] = pc[v]
    BY <2>2
  <2>5. pc'[w] \in {"release", "unlink"}
    BY <2>2
  <2>6. OwnTest' /\ SweepControl'
    BY <2>1, <2>3, <2>4, <2>5
  <2>7. FilesHold'
    BY <2>3, <2>4, <2>5
  <2> QED
    BY <2>6, <2>7
<1>3. ASSUME NEW w \in Workers, Unlink(w) PROVE SweepControls'
  <2>1. OwnTest' /\ SweepControl'
    BY <1>3 DEF Unlink
  <2>2. \A v \in Workers : pc[v] \notin Session
    BY <1>3 DEF Unlink
  <2>3. FilesHold'
    BY <1>3, <2>2 DEF Unlink, NoUsers
  <2> QED
    BY <2>1, <2>3
<1>4. ASSUME NEW w \in Workers, EndUnlink(w) PROVE SweepControls'
  BY <1>4 DEF EndUnlink
<1>5. ASSUME NEW w \in Workers, BeginTest(w) PROVE SweepControls'
  BY <1>5 DEF BeginTest
<1>6. ASSUME NEW w \in Workers, Call(w) PROVE SweepControls'
  BY <1>6 DEF Call
<1>7. ASSUME NEW w \in Workers, Acquire(w) PROVE SweepControls'
  BY <1>7 DEF Acquire, Take, LockName
<1>8. ASSUME NEW w \in Workers, Open(w) PROVE SweepControls'
  BY <1>8 DEF Open, CanOpen
<1>9. ASSUME NEW w \in Workers, OpenFails(w) PROVE SweepControls'
  BY <1>9 DEF OpenFails
<1>10. ASSUME NEW w \in Workers, GiveUp(w) PROVE SweepControls'
  BY <1>10 DEF GiveUp
<1>11. ASSUME NEW w \in Workers, Get(w) PROVE SweepControls'
  BY <1>11 DEF Get
<1>12. ASSUME NEW w \in Workers, Put(w) PROVE SweepControls'
  BY <1>12 DEF Put, Kept
<1>13. ASSUME NEW w \in Workers, Read(w) PROVE SweepControls'
  BY <1>13 DEF Read
<1>14. ASSUME NEW w \in Workers, Write(w) PROVE SweepControls'
  BY <1>14 DEF Write
<1>15. ASSUME NEW w \in Workers, Close(w) PROVE SweepControls'
  BY <1>15 DEF Close
<1>16. ASSUME NEW w \in Workers, Release(w) PROVE SweepControls'
  BY <1>16 DEF Release, Drop, LockName
<1>17. ASSUME NEW w \in Workers, EndTest(w) PROVE SweepControls'
  BY <1>17 DEF EndTest
<1>18. ASSUME NEW w \in Workers, BeginSweep(w) PROVE SweepControls'
  BY <1>18 DEF BeginSweep, Take
<1>19. ASSUME NEW w \in Workers, Visit(w) PROVE SweepControls'
  BY <1>19 DEF Visit
<1>20. ASSUME NEW w \in Workers, EndSweep(w) PROVE SweepControls'
  BY <1>20 DEF EndSweep, Drop
<1>21. ASSUME NEW w \in Workers, Crash(w) PROVE SweepControls'
  BY <1>21 DEF Crash
<1>22. CASE Finished \/ UNCHANGED vars
  BY <1>22 DEF Finished, vars
<1> QED
  BY <1>1, <1>2, <1>3, <1>4, <1>5, <1>6, <1>7, <1>8, <1>9, <1>10, <1>11,
     <1>12, <1>13, <1>14, <1>15, <1>16, <1>17, <1>18, <1>19, <1>20, <1>21,
     <1>22 DEF Next, Step
-----------------------------------------------------------------------------
\* A sweep misses no registration of its test.
LEMMA SweepsAllStep ==
  ASSUME ExclusiveOpen, SweepInv, [Next]_vars
  PROVE  SweepsAll'
<1> SUFFICES ASSUME NEW v \in Workers, NEW s \in Shelves, NEW r \in Resources,
                    fn'[v] = "sweep", test'[v] \notin unswept',
                    test'[v] \in db'[s][r]
             PROVE  Ahead(v, s, r)'
  BY DEF SweepsAll
<1>a. /\ TypeOK /\ InitOwner /\ SweepsTest /\ UnlinksAlone
      /\ FreshCopy /\ OwnTest /\ SweepControl /\ FilesHold
  BY DEF SweepInv, SessionInv, InitInv
<1>b. fn[v] = "sweep" /\ test[v] \notin unswept /\ test[v] \in db[s][r] =>
        Ahead(v, s, r)
  BY DEF SweepInv, SweepsAll
<1> HIDE DEF SweepInv
<1> USE <1>a, <1>b, NamesAssumption
    DEF Ahead, OwnTest, SweepControl, FilesHold, FreshCopy, InitOwner,
        SweepsTest, UnlinksAlone, TypeOK, data, locks, call, history, Goto
<1>1. ASSUME NEW w \in Workers, StartInit(w) PROVE Ahead(v, s, r)'
  BY <1>1 DEF StartInit, Take
<1>2. ASSUME NEW w \in Workers, CheckUid(w) PROVE Ahead(v, s, r)'
  BY <1>2 DEF CheckUid
<1>3. ASSUME NEW w \in Workers, Unlink(w) PROVE Ahead(v, s, r)'
  BY <1>3 DEF Unlink, NoUsers
<1>4. ASSUME NEW w \in Workers, EndUnlink(w) PROVE Ahead(v, s, r)'
  BY <1>4 DEF EndUnlink
<1>5. ASSUME NEW w \in Workers, BeginTest(w) PROVE Ahead(v, s, r)'
  <2>1. pc[w] = "idle" /\ fn[w] # "sweep" /\ v # w
    BY <1>5 DEF BeginTest
  <2>2. test'[v] = test[v] /\ pc'[v] = pc[v]
    BY <1>5, <2>1 DEF BeginTest
  <2> QED
    BY <1>5, <2>2 DEF BeginTest
<1>6. ASSUME NEW w \in Workers, Call(w) PROVE Ahead(v, s, r)'
  BY <1>6 DEF Call
<1>7. ASSUME NEW w \in Workers, Acquire(w) PROVE Ahead(v, s, r)'
  BY <1>7 DEF Acquire, Take, LockName
<1>8. ASSUME NEW w \in Workers, Open(w) PROVE Ahead(v, s, r)'
  BY <1>8 DEF Open, CanOpen
<1>9. ASSUME NEW w \in Workers, OpenFails(w) PROVE Ahead(v, s, r)'
  BY <1>9 DEF OpenFails
<1>10. ASSUME NEW w \in Workers, GiveUp(w) PROVE Ahead(v, s, r)'
  BY <1>10 DEF GiveUp
<1>11. ASSUME NEW w \in Workers, Get(w) PROVE Ahead(v, s, r)'
  BY <1>11 DEF Get
<1>12. ASSUME NEW w \in Workers, Put(w) PROVE Ahead(v, s, r)'
  BY <1>12 DEF Put, Kept
<1>13. ASSUME NEW w \in Workers, Read(w) PROVE Ahead(v, s, r)'
  BY <1>13 DEF Read
<1>14. ASSUME NEW w \in Workers, Write(w) PROVE Ahead(v, s, r)'
  BY <1>14 DEF Write, NewUsers, Id
<1>15. ASSUME NEW w \in Workers, Close(w) PROVE Ahead(v, s, r)'
  BY <1>15 DEF Close
<1>16. ASSUME NEW w \in Workers, Release(w) PROVE Ahead(v, s, r)'
  BY <1>16 DEF Release, Drop, LockName
<1>17. ASSUME NEW w \in Workers, EndTest(w) PROVE Ahead(v, s, r)'
  BY <1>17 DEF EndTest
<1>18. ASSUME NEW w \in Workers, BeginSweep(w) PROVE Ahead(v, s, r)'
  BY <1>18 DEF BeginSweep, Take, Listing
<1>19. ASSUME NEW w \in Workers, Visit(w) PROVE Ahead(v, s, r)'
  BY <1>19 DEF Visit, SweepRest
<1>20. ASSUME NEW w \in Workers, EndSweep(w) PROVE Ahead(v, s, r)'
  BY <1>20 DEF EndSweep, Drop
<1>21. ASSUME NEW w \in Workers, Crash(w) PROVE Ahead(v, s, r)'
  BY <1>21 DEF Crash
<1>22. CASE Finished \/ UNCHANGED vars
  BY <1>22 DEF Finished, vars
<1> QED
  BY <1>1, <1>2, <1>3, <1>4, <1>5, <1>6, <1>7, <1>8, <1>9, <1>10, <1>11,
     <1>12, <1>13, <1>14, <1>15, <1>16, <1>17, <1>18, <1>19, <1>20, <1>21,
     <1>22 DEF Next, Step

\* No registration of a test that was swept comes back.
LEMMA ReleasedStep ==
  ASSUME ExclusiveOpen, SweepInv, [Next]_vars
  PROVE  SweptTestsReleased'
<1> SUFFICES ASSUME NEW t \in Tests, t \notin pending', t \notin unswept',
                    \A w \in Workers : test'[w] # t,
                    NEW s \in Shelves, NEW r \in Resources
             PROVE  t \notin db'[s][r]
  BY DEF SweptTestsReleased
<1>a. /\ TypeOK /\ SweepsTest /\ FreshCopy /\ OwnTest /\ SweepControl
      /\ SweepsAll
  BY DEF SweepInv, SessionInv, InitInv
<1>b. t \notin pending /\ t \notin unswept /\ (\A w \in Workers : test[w] # t)
        => t \notin db[s][r]
  BY DEF SweepInv, SweptTestsReleased
<1> HIDE DEF SweepInv
<1> USE <1>a, <1>b, NamesAssumption
    DEF OwnTest, SweepControl, FreshCopy, SweepsTest, TypeOK, data, locks,
        call, history, Goto
<1>1. ASSUME NEW w \in Workers, StartInit(w) PROVE t \notin db'[s][r]
  BY <1>1 DEF StartInit, Take
<1>2. ASSUME NEW w \in Workers, CheckUid(w) PROVE t \notin db'[s][r]
  BY <1>2 DEF CheckUid
<1>3. ASSUME NEW w \in Workers, Unlink(w) PROVE t \notin db'[s][r]
  BY <1>3 DEF Unlink, NoUsers
<1>4. ASSUME NEW w \in Workers, EndUnlink(w) PROVE t \notin db'[s][r]
  BY <1>4 DEF EndUnlink
<1>5. ASSUME NEW w \in Workers, BeginTest(w) PROVE t \notin db'[s][r]
  <2>1. test[w] = NoTest /\ UNCHANGED <<db, unswept>>
    BY <1>5 DEF BeginTest
  <2>2. PICK u \in pending : /\ test' = [test EXCEPT ![w] = u]
                             /\ pending' = pending \ {u}
    BY <1>5 DEF BeginTest
  <2>3. t # u
    BY <2>2
  <2> QED
    BY <2>1, <2>2, <2>3
<1>6. ASSUME NEW w \in Workers, Call(w) PROVE t \notin db'[s][r]
  BY <1>6 DEF Call
<1>7. ASSUME NEW w \in Workers, Acquire(w) PROVE t \notin db'[s][r]
  BY <1>7 DEF Acquire, Take, LockName
<1>8. ASSUME NEW w \in Workers, Open(w) PROVE t \notin db'[s][r]
  BY <1>8 DEF Open, CanOpen
<1>9. ASSUME NEW w \in Workers, OpenFails(w) PROVE t \notin db'[s][r]
  BY <1>9 DEF OpenFails
<1>10. ASSUME NEW w \in Workers, GiveUp(w) PROVE t \notin db'[s][r]
  BY <1>10 DEF GiveUp
<1>11. ASSUME NEW w \in Workers, Get(w) PROVE t \notin db'[s][r]
  BY <1>11 DEF Get
<1>12. ASSUME NEW w \in Workers, Put(w) PROVE t \notin db'[s][r]
  BY <1>12 DEF Put, Kept
<1>13. ASSUME NEW w \in Workers, Read(w) PROVE t \notin db'[s][r]
  BY <1>13 DEF Read
<1>14. ASSUME NEW w \in Workers, Write(w) PROVE t \notin db'[s][r]
  BY <1>14 DEF Write, NewUsers, Id
<1>15. ASSUME NEW w \in Workers, Close(w) PROVE t \notin db'[s][r]
  BY <1>15 DEF Close
<1>16. ASSUME NEW w \in Workers, Release(w) PROVE t \notin db'[s][r]
  BY <1>16 DEF Release, Drop, LockName
<1>17. ASSUME NEW w \in Workers, EndTest(w) PROVE t \notin db'[s][r]
  BY <1>17 DEF EndTest
<1>18. ASSUME NEW w \in Workers, BeginSweep(w) PROVE t \notin db'[s][r]
  BY <1>18 DEF BeginSweep, Take, Listing
<1>19. ASSUME NEW w \in Workers, Visit(w) PROVE t \notin db'[s][r]
  BY <1>19 DEF Visit, SweepRest
<1>20. ASSUME NEW w \in Workers, EndSweep(w) PROVE t \notin db'[s][r]
  <2>1. UNCHANGED <<db, pending, unswept>>
    BY <1>20 DEF EndSweep
  <2>2. CASE t = test[w]
    <3>1. pc[w] = "visit" /\ todo[w] = {} /\ fn[w] = "sweep"
      BY <1>20 DEF EndSweep
    <3>2. ~Ahead(w, s, r)
      BY <3>1 DEF Ahead
    <3> QED
      BY <2>1, <2>2, <3>1, <3>2 DEF SweepsAll
  <2>3. CASE t # test[w]
    BY <1>20, <2>1, <2>3 DEF EndSweep
  <2> QED
    BY <2>2, <2>3
<1>21. ASSUME NEW w \in Workers, Crash(w) PROVE t \notin db'[s][r]
  BY <1>21 DEF Crash
<1>22. CASE Finished \/ UNCHANGED vars
  BY <1>22 DEF Finished, vars
<1> QED
  BY <1>1, <1>2, <1>3, <1>4, <1>5, <1>6, <1>7, <1>8, <1>9, <1>10, <1>11,
     <1>12, <1>13, <1>14, <1>15, <1>16, <1>17, <1>18, <1>19, <1>20, <1>21,
     <1>22 DEF Next, Step

LEMMA SweepStep ==
  ASSUME ExclusiveOpen, SweepInv, [Next]_vars
  PROVE  SweepInv'
BY SessionStep, SweepControlStep, SweepsAllStep, ReleasedStep
   DEF SweepInv, SweepControls
-----------------------------------------------------------------------------
\* Initially every worker is outside the functions of the module, and what
\* an earlier run left is in files.
LEMMA Initially == Init => SweepInv
<1> SUFFICES ASSUME Init PROVE SweepInv
  OBVIOUS
<1>1. TypeOK
  <2>1. (CHOOSE s \in Shelves : TRUE) \in Shelves
    BY NamesAssumption
  <2>2. (CHOOSE r \in Resources : TRUE) \in Resources
    BY NamesAssumption
  <2>3. shelf \in [Workers -> Shelves] /\ key \in [Workers -> Resources]
    BY <2>1, <2>2 DEF Init
  <2>4. /\ uid \in {RunUid, OldUid, NoUid}
        /\ files \in SUBSET Shelves
        /\ db \in [Shelves -> [Resources -> SUBSET Ids]]
        /\ opened \in [Shelves -> SUBSET Workers]
        /\ holder \in [Keys -> Workers \cup {NoWorker}]
    BY DEF Init
  <2>5. pc \in [Workers -> Control] /\ fn \in [Workers -> Functions]
    BY DEF Init, Control, Functions
  <2>6. /\ cells \in [Workers -> SUBSET Resources]
        /\ aux \in [Workers -> SUBSET Ids]
        /\ todo \in [Workers -> SUBSET Shelves]
        /\ test \in [Workers -> Tests \cup {NoTest}]
        /\ pending \in SUBSET Tests
        /\ unswept \in SUBSET Tests
    BY DEF Init
  <2>7. /\ tries \in [Workers -> 0 .. MaxTries]
        /\ calls \in [Workers -> 0 .. MaxCalls]
        /\ crashes \in 0 .. MaxCrashes
        /\ torn \in BOOLEAN
    <3>1. /\ tries = [w \in Workers |-> 0] /\ calls = [w \in Workers |-> 0]
          /\ crashes = 0 /\ torn = FALSE
      BY DEF Init
    <3>2. 0 \in 0 .. MaxTries
      BY BoundsAssumption
    <3>3. 0 \in 0 .. MaxCalls
      BY BoundsAssumption
    <3>4. 0 \in 0 .. MaxCrashes
      BY BoundsAssumption
    <3> QED
      BY <3>1, <3>2, <3>3, <3>4
  <2> QED
    BY <2>3, <2>4, <2>5, <2>6, <2>7 DEF TypeOK
<1>2. InitInv
  BY <1>1, NamesAssumption
     DEF Init, InitInv, InitOwner, SweepsTest, RunRecorded, UnlinksAlone
<1>3. Handles /\ OneHandle /\ FreshCopy
  BY DEF Init, Handles, OneHandle, FreshCopy, Session
<1>4. OwnTest /\ SweepControl /\ FilesHold
  BY NamesAssumption
     DEF Init, OwnTest, SweepControl, FilesHold, NoUsers, Session
<1>5. SweepsAll /\ SweptTestsReleased
  <2>1. SweptTestsReleased
    BY DEF Init, SweptTestsReleased
  <2>2. \A w \in Workers : fn[w] # "sweep"
    BY DEF Init
  <2> QED
    BY <2>1, <2>2 DEF SweepsAll
<1> QED
  BY <1>2, <1>3, <1>4, <1>5 DEF SweepInv, SessionInv

\* The state of the workers is well formed, and one worker at a time
\* initialises the shelves, whatever the dbm and whoever crashes.
THEOREM InitialisesAlone == Spec => [](TypeOK /\ UnlinksAlone)
<1>1. Init => InitInv
  BY Initially DEF SweepInv, SessionInv
<1>2. InitInv /\ [Next]_vars => InitInv'
  BY InitStep
<1>3. InitInv => TypeOK /\ UnlinksAlone
  BY DEF InitInv
<1> QED
  BY <1>1, <1>2, <1>3, PTL DEF Spec

LEMMA SweepInvariant ==
  ASSUME ExclusiveOpen
  PROVE  Spec => []SweepInv
<1>1. SweepInv /\ [Next]_vars => SweepInv'
  BY SweepStep
<1> QED
  BY <1>1, Initially, PTL DEF Spec

\* A test that was left and swept is registered nowhere, for any number of
\* workers, when opening a dbm file excludes the other processes (gdbm).
THEOREM SweptTestsAreReleased ==
  ASSUME ExclusiveOpen
  PROVE  Spec => []SweptTestsReleased
<1>1. SweepInv => SweptTestsReleased
  BY DEF SweepInv
<1> QED
  BY <1>1, SweepInvariant, PTL
-----------------------------------------------------------------------------
\* What a step may change: one identifier of one cell, the worker's own.
LEMMA OwnChangeStep ==
  ASSUME SweepInv, [Next]_vars
  PROVE  OwnChange
<1> SUFFICES ASSUME NEW s \in Shelves, NEW r \in Resources, NEW t \in Ids,
                    (t \in db[s][r]) # (t \in db'[s][r])
             PROVE  \E w \in Workers :
                      \/ pc[w] = "unlink"
                      \/ /\ pc[w] = "write" /\ Id(w) = t
                         /\ fn[w] = "addme" <=> t \in db'[s][r]
  BY DEF OwnChange
<1>1. db' # db
  OBVIOUS
<1>2. PICK w \in Workers : Unlink(w) \/ Put(w) \/ Write(w)
  BY <1>1 DEF Next, Step, Finished, vars, data, StartInit, CheckUid,
     EndUnlink, BeginTest, Call, Acquire, Open, OpenFails, GiveUp, Get, Read,
     Close, Release, EndTest, BeginSweep, Visit, EndSweep, Crash
<1>3. TypeOK /\ FreshCopy
  BY DEF SweepInv, SessionInv, InitInv
<1>4. CASE Unlink(w)
  BY <1>4 DEF Unlink
<1>5. CASE Put(w)
  BY <1>1, <1>3, <1>5 DEF Put, Kept, TypeOK, FreshCopy
<1>6. CASE Write(w)
  BY <1>3, <1>6 DEF Write, NewUsers, TypeOK, FreshCopy
<1> QED
  BY <1>2, <1>4, <1>5, <1>6

\* No worker overwrites or resurrects the registration of another's test.
THEOREM OnlyOwnersChange ==
  ASSUME ExclusiveOpen
  PROVE  Spec => OnlyOwnerChanges
<1>1. SweepInv /\ [Next]_vars => [OwnChange]_vars
  BY OwnChangeStep
<1> QED
  BY <1>1, SweepInvariant, PTL DEF Spec, OnlyOwnerChanges
-----------------------------------------------------------------------------
\* The run starts when the worker that deletes the old shelves is done with
\* them or dies, and stays started.
LEMMA StartedStep ==
  ASSUME InitInv, [Next]_vars
  PROVE  \/ Started' = Started
         \/ /\ ~Started /\ Started' /\ db' = db
            /\ ~torn' => files = {} /\ pending' = pending
<1> DEFINE Moves == \/ Started' = Started
                    \/ /\ ~Started /\ Started' /\ db' = db
                       /\ ~torn' => files = {} /\ pending' = pending
<1> SUFFICES Moves
  OBVIOUS
<1> USE NamesAssumption, SingleAssumption
    DEF InitInv, RunRecorded, UnlinksAlone, InitOwner, TypeOK, Started, Past,
        data, locks, call, history, Goto
<1>1. ASSUME NEW w \in Workers, StartInit(w) PROVE Moves
  BY <1>1 DEF StartInit, Take
<1>2. ASSUME NEW w \in Workers, CheckUid(w) PROVE Moves
  <2>1. pc[w] = "init" /\ \A v \in Workers : v # w => pc'[v] = pc[v]
    BY <1>2 DEF CheckUid
  <2>2. CASE RunUid # NoUid /\ uid = RunUid
    <3>1. uid' = uid /\ pc'[w] = "release"
      BY <1>2, <2>2 DEF CheckUid
    <3> QED
      BY <2>1, <2>2, <3>1
  <2>3. CASE RunUid = NoUid \/ uid # RunUid
    <3>1. pc'[w] = "unlink"
      BY <1>2, <2>3 DEF CheckUid
    <3> QED
      BY <2>1, <2>3, <3>1
  <2> QED
    BY <2>2, <2>3
<1>3. ASSUME NEW w \in Workers, Unlink(w) PROVE Moves
  BY <1>3 DEF Unlink
<1>4. ASSUME NEW w \in Workers, EndUnlink(w) PROVE Moves
  <2>1. UNCHANGED <<db, torn, uid, pending>> /\ files = {} /\ ~Started
    BY <1>4 DEF EndUnlink
  <2>2. Started'
    BY <1>4 DEF EndUnlink
  <2> QED
    BY <2>1, <2>2
<1>5. ASSUME NEW w \in Workers, BeginTest(w) PROVE Moves
  BY <1>5 DEF BeginTest
<1>6. ASSUME NEW w \in Workers, Call(w) PROVE Moves
  BY <1>6 DEF Call
<1>7. ASSUME NEW w \in Workers, Acquire(w) PROVE Moves
  BY <1>7 DEF Acquire, Take, LockName
<1>8. ASSUME NEW w \in Workers, Open(w) PROVE Moves
  BY <1>8 DEF Open, CanOpen
<1>9. ASSUME NEW w \in Workers, OpenFails(w) PROVE Moves
  BY <1>9 DEF OpenFails
<1>10. ASSUME NEW w \in Workers, GiveUp(w) PROVE Moves
  BY <1>10 DEF GiveUp
<1>11. ASSUME NEW w \in Workers, Get(w) PROVE Moves
  BY <1>11 DEF Get
<1>12. ASSUME NEW w \in Workers, Put(w) PROVE Moves
  BY <1>12 DEF Put, Kept
<1>13. ASSUME NEW w \in Workers, Read(w) PROVE Moves
  BY <1>13 DEF Read
<1>14. ASSUME NEW w \in Workers, Write(w) PROVE Moves
  BY <1>14 DEF Write
<1>15. ASSUME NEW w \in Workers, Close(w) PROVE Moves
  BY <1>15 DEF Close
<1>16. ASSUME NEW w \in Workers, Release(w) PROVE Moves
  BY <1>16 DEF Release, Drop, LockName
<1>17. ASSUME NEW w \in Workers, EndTest(w) PROVE Moves
  BY <1>17 DEF EndTest
<1>18. ASSUME NEW w \in Workers, BeginSweep(w) PROVE Moves
  BY <1>18 DEF BeginSweep, Take
<1>19. ASSUME NEW w \in Workers, Visit(w) PROVE Moves
  BY <1>19 DEF Visit
<1>20. ASSUME NEW w \in Workers, EndSweep(w) PROVE Moves
  BY <1>20 DEF EndSweep, Drop
<1>21. ASSUME NEW w \in Workers, Crash(w) PROVE Moves
  <2>1. UNCHANGED <<db, uid>> /\ RunUid # NoUid /\ pc'[w] = "start"
    BY <1>21 DEF Crash
  <2>2. \A v \in Workers : v # w => pc'[v] = pc[v]
    BY <1>21 DEF Crash
  <2>3. CASE pc[w] = "unlink"
    <3>1. torn'
      BY <1>21, <2>3 DEF Crash
    <3> QED
      BY <2>1, <2>2, <2>3, <3>1
  <2>4. CASE pc[w] # "unlink"
    BY <2>1, <2>2, <2>4
  <2> QED
    BY <2>3, <2>4
<1>22. CASE Finished \/ UNCHANGED vars
  BY <1>22 DEF Finished, vars
<1> QED
  BY <1>1, <1>2, <1>3, <1>4, <1>5, <1>6, <1>7, <1>8, <1>9, <1>10, <1>11,
     <1>12, <1>13, <1>14, <1>15, <1>16, <1>17, <1>18, <1>19, <1>20, <1>21,
     <1>22 DEF Next, Step
-----------------------------------------------------------------------------
\* Strengthens NoStaleUsers: the old shelves stay forgotten even when every
\* worker of the run has died and none is past initialize_shelves.
Fresh ==
  ~torn /\ Started =>
    \A s \in Shelves, r \in Resources : db[s][r] \cap pending = {}

LEMMA FreshStep ==
  ASSUME SweepInv, Fresh, [Next]_vars
  PROVE  Fresh'
<1> SUFFICES ASSUME ~torn', Started', NEW s \in Shelves, NEW r \in Resources,
                    NEW t \in Ids, t \in db'[s][r], t \in pending'
             PROVE  FALSE
  <2>1. TypeOK'
    BY TypeStep DEF SweepInv, SessionInv, InitInv
  <2> QED
    BY <2>1 DEF Fresh, TypeOK, Ids
<1>1. pending' \subseteq pending /\ (torn => torn')
  <2>1. \/ UNCHANGED <<pending, torn>>
        \/ \E w \in Workers : BeginTest(w) \/ Crash(w)
    BY DEF Next, Step, Finished, vars, history, StartInit, CheckUid, Unlink,
       EndUnlink, Call, Acquire, Open, OpenFails, GiveUp, Get, Put, Read,
       Write, Close, Release, EndTest, BeginSweep, Visit, EndSweep
  <2>2. ASSUME NEW w \in Workers, BeginTest(w)
        PROVE  pending' \subseteq pending /\ torn' = torn
    BY <2>2 DEF BeginTest
  <2>3. ASSUME NEW w \in Workers, Crash(w)
        PROVE  pending' = pending /\ (torn => torn')
    BY <2>3 DEF Crash
  <2> QED
    BY <2>1, <2>2, <2>3
<1>2. t \in pending /\ ~torn
  BY <1>1
<1>3. InitInv /\ FilesHold /\ OwnTest
  BY DEF SweepInv, SessionInv
<1>4. CASE ~Started
  BY <1>2, <1>3, <1>4, StartedStep DEF FilesHold
<1>5. CASE Started
  <2>1. t \notin db[s][r]
    BY <1>2, <1>5 DEF Fresh
  <2>2. PICK w \in Workers : \/ pc[w] = "unlink"
                             \/ pc[w] = "write" /\ Id(w) = t
    BY <2>1, OwnChangeStep DEF OwnChange
  <2>3. ~(pc[w] = "unlink")
    BY <1>3, <1>5, SingleAssumption DEF Started, Past, InitInv
  <2>4. Id(w) # t
    BY <1>2, <1>3, NamesAssumption
       DEF Id, OwnTest, InitInv, TypeOK
  <2> QED
    BY <2>2, <2>3, <2>4
<1> QED
  BY <1>4, <1>5

\* Whatever an earlier run registered, and whoever dies outside the loop
\* that deletes the old shelves, no test is registered before it begins.
THEOREM NoStaleUsersRemain ==
  ASSUME ExclusiveOpen
  PROVE  Spec => []NoStaleUsers
<1>1. Init => Fresh
  <2>1. Init => ~Started
    BY NamesAssumption DEF Init, Started, Past
  <2> QED
    BY <2>1 DEF Fresh
<1>2. SweepInv /\ SweepInv' /\ Fresh /\ [Next]_vars => Fresh'
  BY FreshStep
<1>3. SweepInv /\ Fresh => NoStaleUsers
  BY DEF SweepInv, SessionInv, InitInv, RunRecorded, UnlinksAlone, Fresh,
         NoStaleUsers, Started, Past
<1> QED
  BY <1>1, <1>2, <1>3, SweepInvariant, PTL DEF Spec
-----------------------------------------------------------------------------
\* Every step is a step of SharedResources or leaves its state alone.
LEMMA AbsStep ==
  ASSUME SweepInv, [Next]_vars
  PROVE  [Abs!AbsNext]_(Abs!absVars)
<1> DEFINE AbsMove == Abs!AbsNext \/ (db' = db /\ Started' = Started)
<1> SUFFICES AbsMove
  BY DEF Abs!absVars
<1>1. TypeOK /\ InitInv /\ FreshCopy
  BY DEF SweepInv, SessionInv, InitInv
<1>2. CASE db' = db
  <2>1. \/ Started' = Started
        \/ ~Started /\ Started'
    BY <1>1, StartedStep
  <2>2. CASE ~Started /\ Started'
    BY <1>2, <2>2 DEF Abs!AbsNext, Abs!Start
  <2> QED
    BY <1>2, <2>1, <2>2
<1>3. CASE db' # db
  <2>1. Started' = Started
    BY <1>1, <1>3, StartedStep
  <2>2. PICK w \in Workers : Unlink(w) \/ Put(w) \/ Write(w)
    BY <1>3 DEF Next, Step, Finished, vars, data, StartInit, CheckUid,
       EndUnlink, BeginTest, Call, Acquire, Open, OpenFails, GiveUp, Get,
       Read, Close, Release, EndTest, BeginSweep, Visit, EndSweep, Crash
  <2>3. CASE Unlink(w)
    <3>1. ~Started
      BY <1>1, <2>3, SingleAssumption
         DEF Unlink, Started, Past
    <3>2. PICK s \in files : db' = [db EXCEPT ![s] = NoUsers]
      BY <2>3 DEF Unlink
    <3>3. s \in Shelves
      BY <1>1, <3>2 DEF TypeOK
    <3>4. Abs!Forget(s)
      BY <2>1, <3>1, <3>2 DEF Abs!Forget, NoUsers
    <3> QED
      BY <3>3, <3>4 DEF Abs!AbsNext
  <2>4. CASE Put(w)
    <3>1. db' = db
      BY <1>1, <2>4 DEF Put, Kept, TypeOK, FreshCopy
    <3> QED
      BY <1>3, <3>1
  <2>5. CASE Write(w)
    <3>1. Started
      BY <1>1, <2>5
         DEF Write, Started, Past, InitInv, RunRecorded, UnlinksAlone
    <3>2. pc[w] = "write" /\ shelf[w] \in Shelves /\ key[w] \in Resources
      BY <1>1, <2>5 DEF Write, TypeOK
    <3>3. aux[w] = db[shelf[w]][key[w]]
      BY <1>1, <3>2 DEF FreshCopy
    <3>4. Id(w) \in Ids
      BY <1>1 DEF Id, Ids, TypeOK
    <3>5. db' = [db EXCEPT ![shelf[w]][key[w]] = NewUsers(w)]
      BY <1>3, <2>5 DEF Write
    <3>6. \/ Abs!Register(Id(w), shelf[w], key[w])
          \/ Abs!Unregister(Id(w), shelf[w], key[w])
      <4>1. CASE fn[w] = "addme"
        BY <2>1, <3>1, <3>3, <3>5, <4>1 DEF NewUsers, Abs!Register
      <4>2. CASE fn[w] # "addme"
        BY <2>1, <3>1, <3>3, <3>5, <4>2 DEF NewUsers, Abs!Unregister
      <4> QED
        BY <4>1, <4>2
    <3> QED
      BY <3>2, <3>4, <3>6 DEF Abs!AbsNext
  <2> QED
    BY <2>2, <2>3, <2>4, <2>5
<1> QED
  BY <1>2, <1>3

\* The dbm files and locks implement the atomic registrations that
\* SharedResources promises to the fixtures.
THEOREM ShelvesImplementSharedResources ==
  ASSUME ExclusiveOpen
  PROVE  Spec => ImplementsAbs
<1>1. Init => Abs!AbsInit
  BY NamesAssumption DEF Init, Started, Past, Abs!AbsInit
<1>2. SweepInv /\ [Next]_vars => [Abs!AbsNext]_(Abs!absVars)
  BY AbsStep
<1> QED
  BY <1>1, <1>2, SweepInvariant, PTL DEF Spec, ImplementsAbs, Abs!AbsSpec
=============================================================================
