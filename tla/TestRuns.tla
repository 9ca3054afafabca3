------------------------------ MODULE TestRuns ------------------------------
(***************************************************************************)
(* Test cases and the fixtures they use within one worker: the stack of    *)
(* running test cases (common/_case.py), SharedFixture with the fixtures   *)
(* it requires, use_fixture and its alternative (common/_fixture.py), and  *)
(* operations that tests run before or after (common/_operation.py).       *)
(***************************************************************************)
EXTENDS Integers, SequencesExt

CONSTANTS Fixtures,   \* shared fixtures
          NoFixture,
          Requires,   \* the fixtures a fixture requires
          Operation,  \* the one that is an operation
          MaxDepth,   \* bound: tests that run inside one another
          MaxAsked    \* bound: calls made by tests

ASSUME TestRunsAssumption ==
  /\ NoFixture \notin Fixtures
  /\ Requires \in [Fixtures -> SUBSET Fixtures]
  /\ Operation \in Fixtures /\ Requires[Operation] = {}
  /\ MaxDepth \in Nat /\ MaxAsked \in Nat

Decorations == {"none", "before", "after"}

VARIABLES
  cases,         \* the stack of test cases that run
  frames,        \* the set-ups in progress, each asked for by the one below
  raising,       \* does the one above fail the set-up at the top?
  setUpDone,     \* fixtures whose _setup_executed is set
  cleanUpDone,   \* fixtures whose _cleanup_executed is set
  extent,        \* how much of what a fixture stands for is there
  isAfter,       \* _is_after of the operation
  runOperations, \* TOBIKO_RUN_OPERATIONS
  preventCreate, \* TOBIKO_PREVENT_CREATE
  operated,      \* history: how often the operation has run
  broken,        \* history: fixtures whose clean-up has failed
  skipped,       \* history: fixtures that failed again and were not cleaned up
  asked          \* calls so far

fixtureFlags == <<setUpDone, cleanUpDone, extent>>
environment == <<runOperations, preventCreate>>
history == <<operated, broken, skipped>>
testRunVars ==
  <<cases, frames, raising, fixtureFlags, isAfter, environment, history, asked>>

Frame == [fixture : Fixtures \cup {NoFixture}, use : BOOLEAN, alternative : Fixtures \cup {NoFixture}]

TestRunsTypeOK ==
  /\ Len(cases) \in 0 .. MaxDepth
  /\ \A i \in DOMAIN cases :
       /\ cases[i].decoration \in Decorations
       /\ cases[i].point \in {"setup", "start", "body", "end"}
       /\ cases[i].cleanups \in Seq(Fixtures)
       /\ cases[i].used \in SUBSET Fixtures
       /\ i < Len(cases) => cases[i].point = "body"
  /\ \A i \in DOMAIN frames : frames[i] \in Frame
  /\ setUpDone \in SUBSET Fixtures /\ cleanUpDone \in SUBSET Fixtures
  /\ extent \in [Fixtures -> {"none", "part", "whole"}]
  /\ isAfter \in BOOLEAN /\ runOperations \in BOOLEAN /\ preventCreate \in BOOLEAN
  /\ raising \in BOOLEAN /\ (raising => frames # <<>>)
  /\ operated \in Nat /\ asked \in 0 .. MaxAsked
  /\ broken \in SUBSET Fixtures /\ skipped \in SUBSET Fixtures

TestRunsInit ==
  /\ cases = <<>> /\ frames = <<>> /\ raising = FALSE
  /\ setUpDone = {} /\ cleanUpDone = {}
  /\ extent = [f \in Fixtures |-> "none"]
  /\ isAfter \in BOOLEAN /\ runOperations \in BOOLEAN /\ preventCreate \in BOOLEAN
  /\ operated = 0 /\ broken = {} /\ skipped = {} /\ asked = 0

Top == cases[Len(cases)]
Doing == frames[Len(frames)]

\* The innermost test runs its own code.
At(p) == frames = <<>> /\ cases # <<>> /\ Top.point = p

GoTo(p) == [cases EXCEPT ![Len(cases)].point = p]
-----------------------------------------------------------------------------
(***************************************************************************)
(* A test case is entered, its set-up runs the operations of its class,    *)
(* and the decoration of its method decides whether the method is run.     *)
(***************************************************************************)
EnterTestCase(d) ==
  /\ frames = <<>> /\ Len(cases) < MaxDepth
  /\ cases # <<>> => Top.point = "body"
  /\ asked < MaxAsked /\ asked' = asked + 1
  /\ cases' = Append(cases, [decoration |-> d, point |-> "setup", cleanups |-> <<>>, used |-> {}])
  /\ UNCHANGED <<frames, raising, fixtureFlags, isAfter, environment, history>>

\* RunsOperations.setUp, get_operation
RunOperations ==
  /\ At("setup")
  /\ cases' = GoTo("start")
  /\ frames' = IF Top.decoration # "none" /\ ~isAfter /\ runOperations /\ Operation \notin setUpDone
               THEN <<[fixture |-> Operation, use |-> FALSE, alternative |-> NoFixture]>>
               ELSE frames
  /\ UNCHANGED <<raising, fixtureFlags, isAfter, environment, history, asked>>

IsSkipped(d) == (d = "before" /\ isAfter) \/ (d = "after" /\ ~isAfter)

Start ==
  /\ At("start")
  /\ cases' = GoTo(IF IsSkipped(Top.decoration) THEN "end" ELSE "body")
  /\ UNCHANGED <<frames, raising, fixtureFlags, isAfter, environment, history, asked>>

Finish ==
  /\ At("body")
  /\ cases' = GoTo("end")
  /\ UNCHANGED <<frames, raising, fixtureFlags, isAfter, environment, history, asked>>
-----------------------------------------------------------------------------
(***************************************************************************)
(* setup_fixture, use_fixture and cleanup_fixture.  Outside a test,        *)
(* add_cleanup adds to a test case that is thrown away.                    *)
(***************************************************************************)
\* Variant: what is set up already is not cleaned up by the test.
OnlyIfNew(f, use) ==
  IF use /\ f \notin setUpDone /\ cases # <<>>
  THEN [cases EXCEPT ![Len(cases)].cleanups = Append(@, f), ![Len(cases)].used = @ \cup {f}]
  ELSE IF use /\ cases # <<>> THEN [cases EXCEPT ![Len(cases)].used = @ \cup {f}] ELSE cases

AddCleanup(f, use) ==
  IF use /\ cases # <<>>
  THEN [cases EXCEPT ![Len(cases)].cleanups = Append(@, f), ![Len(cases)].used = @ \cup {f}]
  ELSE cases

Push(below, f, use, alternative) ==
  /\ frames' = Append(below, [fixture |-> f, use |-> use, alternative |-> alternative])
  /\ extent' = [extent EXCEPT ![f] = IF @ = "none" THEN "part" ELSE @]
  /\ broken' = broken \ {f} /\ skipped' = skipped \ {f}

\* A test, or the code that loads it, sets a fixture up or uses it.
Ask(f, use, alternative) ==
  /\ frames = <<>> /\ (cases # <<>> => Top.point = "body")
  /\ asked < MaxAsked /\ asked' = asked + 1
  /\ IF f \in setUpDone
     THEN cases' = AddCleanup(f, use) /\ UNCHANGED <<frames, extent, broken, skipped>>
     ELSE Push(<<>>, f, use, alternative) /\ UNCHANGED cases
  /\ UNCHANGED <<setUpDone, cleanUpDone, isAfter, raising, environment, operated>>

\* The set-up of a fixture sets up one it requires.
Require(r) ==
  /\ frames # <<>> /\ ~raising /\ Doing.fixture # NoFixture
  /\ r \in Requires[Doing.fixture] \ setUpDone
  /\ Push(frames, r, FALSE, NoFixture)
  /\ UNCHANGED <<cases, raising, setUpDone, cleanUpDone, isAfter, environment, operated, asked>>
-----------------------------------------------------------------------------
(***************************************************************************)
(* Operation.setup_fixture                                                 *)
(***************************************************************************)
Runs(f) == f = Operation /\ ~isAfter

\* Variant: an operation that fails is not taken for done.
IfItWorked(worked) == worked

DoneAfter(worked) == TRUE

Operate(f, worked) ==
  /\ operated' = IF Runs(f) THEN operated + 1 ELSE operated
  /\ isAfter' = (isAfter \/ (Runs(f) /\ DoneAfter(worked)))
-----------------------------------------------------------------------------
Succeed ==
  /\ frames # <<>> /\ ~raising
  /\ Doing.fixture # NoFixture
  /\ Requires[Doing.fixture] \subseteq setUpDone
  /\ Operate(Doing.fixture, TRUE)
  /\ setUpDone' = setUpDone \cup {Doing.fixture}
  /\ cleanUpDone' = cleanUpDone \ {Doing.fixture}
  /\ extent' = [extent EXCEPT ![Doing.fixture] = "whole"]
  /\ cases' = AddCleanup(Doing.fixture, Doing.use)
  /\ frames' = Front(frames)
  /\ UNCHANGED <<raising, environment, broken, skipped, asked>>

\* cleanup_fixture was executed since the last set-up that worked.
Executed(f) == f \in cleanUpDone

\* fixtures.Fixture.setUp cleans up what has failed, by SharedFixture.cleanUp.
CleanUpAfterError(f) ==
  /\ setUpDone' = setUpDone \ {f}
  /\ cleanUpDone' = cleanUpDone \cup {f}
  /\ IF preventCreate \/ Executed(f)
     THEN /\ skipped' = IF f \in cleanUpDone THEN skipped \cup {f} ELSE skipped
          /\ UNCHANGED <<extent, broken>>
     ELSE /\ \/ extent' = [extent EXCEPT ![f] = "none"] /\ UNCHANGED broken
             \/ broken' = broken \cup {f} /\ UNCHANGED extent
          /\ UNCHANGED skipped

Raised(below) == below # <<>>

\* The set-up of a fixture fails, and with it that of the one that required it.
\* The test ends if there is neither one nor an alternative.
Fail ==
  /\ frames # <<>>
  /\ Doing.fixture # NoFixture
  /\ Operate(Doing.fixture, FALSE)
  /\ CleanUpAfterError(Doing.fixture)
  /\ IF Doing.alternative = NoFixture
     THEN /\ frames' = Front(frames)
          /\ raising' = Raised(frames')
          /\ cases' = IF frames' = <<>> /\ cases # <<>> THEN GoTo("end") ELSE cases
     ELSE /\ frames' = <<[Doing EXCEPT !.fixture = NoFixture]>>
          /\ raising' = FALSE
          /\ UNCHANGED cases
  /\ UNCHANGED <<environment, asked>>

TryAlternative ==
  /\ frames # <<>>
  /\ Doing.fixture = NoFixture
  /\ LET a == Doing.alternative
     IN IF a \in setUpDone
        THEN cases' = AddCleanup(a, Doing.use) /\ frames' = <<>> /\ UNCHANGED <<extent, broken, skipped>>
        ELSE Push(<<>>, a, Doing.use, NoFixture) /\ UNCHANGED cases
  /\ UNCHANGED <<setUpDone, cleanUpDone, isAfter, raising, environment, operated, asked>>
-----------------------------------------------------------------------------
(***************************************************************************)
(* SharedFixture.cleanUp: when cleanup_fixture fails the flags stay.       *)
(***************************************************************************)
\* Variant: the fixture still passes for set up.
FlagKept(f) == setUpDone

FlagReset(f) == setUpDone \ {f}

CleanUpWorks(f) ==
  /\ setUpDone' = FlagReset(f)
  /\ cleanUpDone' = cleanUpDone \cup {f}
  /\ IF preventCreate \/ f \in cleanUpDone
     THEN UNCHANGED <<extent, broken>>
     ELSE extent' = [extent EXCEPT ![f] = "none"] /\ broken' = broken \ {f}

CleanUpFails(f) ==
  /\ ~preventCreate /\ f \notin cleanUpDone
  /\ extent' = [extent EXCEPT ![f] = "part"]
  /\ broken' = broken \cup {f}
  /\ UNCHANGED <<setUpDone, cleanUpDone>>

CleanUpNow(f) ==
  /\ At("body")
  /\ asked < MaxAsked /\ asked' = asked + 1
  /\ \/ CleanUpWorks(f) /\ UNCHANGED cases
     \/ CleanUpFails(f) /\ cases' = GoTo("end")
  /\ UNCHANGED <<frames, raising, isAfter, environment, operated, skipped>>

\* doCleanups: the last one added comes first, and a failure stops none.
DoCleanup ==
  /\ At("end") /\ Top.cleanups # <<>>
  /\ LET f == Last(Top.cleanups)
     IN CleanUpWorks(f) \/ CleanUpFails(f)
  /\ cases' = [cases EXCEPT ![Len(cases)].cleanups = Front(@)]
  /\ UNCHANGED <<frames, raising, isAfter, environment, operated, skipped, asked>>

ExitTestCase ==
  /\ At("end") /\ Top.cleanups = <<>>
  /\ cases' = Front(cases)
  /\ UNCHANGED <<frames, raising, fixtureFlags, isAfter, environment, history, asked>>
-----------------------------------------------------------------------------
TestRunsNext ==
  \/ \E d \in Decorations : EnterTestCase(d)
  \/ RunOperations \/ Start \/ Finish
  \/ \E f \in Fixtures, use \in BOOLEAN, a \in Fixtures \cup {NoFixture} : Ask(f, use, a)
  \/ \E r \in Fixtures : Require(r)
  \/ Succeed \/ Fail \/ TryAlternative
  \/ \E f \in Fixtures : CleanUpNow(f)
  \/ DoCleanup \/ ExitTestCase

TestRunsSpec == TestRunsInit /\ [][TestRunsNext]_testRunVars
-----------------------------------------------------------------------------
\* An operation runs once, whether or not it fails, and however often the tests
\* set it up, clean it up or fail around it (Operation.setup_fixture).
OperationRunsOnce == operated <= 1

\* Unless the clean-up of it has failed or is switched off, a fixture that passes
\* for set up is there as a whole, and what a set-up that failed has made is not
\* left behind; but one that had failed before, and had been cleaned up then, is
\* not cleaned up again (SharedFixture.setUp, cleanUp).
FlagsTellTheTruth ==
  \A f \in Fixtures \ broken :
    /\ f \in setUpDone => extent[f] = "whole"
    /\ extent[f] = "part" => \/ f \in skipped \/ preventCreate
                             \/ \E i \in DOMAIN frames : frames[i].fixture = f

\* When a test case is left nothing that it used is set up any more, unless the
\* clean-up has failed (use_fixture, add_cleanup).
EndedTestsCleanUp ==
  [][Len(cases') < Len(cases) => Top.used \cap setUpDone \subseteq broken]_testRunVars
=============================================================================
