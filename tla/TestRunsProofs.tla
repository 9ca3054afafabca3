--------------------------- MODULE TestRunsProofs ---------------------------
(***************************************************************************)
(* Proofs about TestRuns, for any fixtures and requirements, any depth of  *)
(* tests within tests and any number of calls.                             *)
(***************************************************************************)
EXTENDS TestRuns, SequenceTheorems, TLAPS

\* What is left of a sequence without its last element.
LEMMA Popped ==
  ASSUME NEW S, NEW s \in Seq(S), s # <<>>
  PROVE  /\ Front(s) \in Seq(S)
         /\ Len(s) \in Nat \ {0} /\ Len(Front(s)) = Len(s) - 1
         /\ \A i \in 1 .. Len(s) - 1 : Front(s)[i] = s[i]
<1>1. Len(s) \in Nat \ {0}
  BY EmptySeq
<1>2. \A i \in 1 .. Len(s) - 1 : s[i] \in S
  BY <1>1, ElementOfSeq
<1>3. SubSeq(s, 1, Len(s) - 1) \in Seq(S)
  BY <1>1, <1>2, SubSeqProperties
<1>4. Len(SubSeq(s, 1, Len(s) - 1)) = IF 1 <= Len(s) - 1 THEN Len(s) - 1 - 1 + 1 ELSE 0
  BY <1>1, <1>2, SubSeqProperties
<1>5. \A i \in 1 .. Len(s) - 1 - 1 + 1 : SubSeq(s, 1, Len(s) - 1)[i] = s[1 + i - 1]
  BY <1>1, <1>2, SubSeqProperties
<1>6. ASSUME NEW i \in 1 .. Len(s) - 1 PROVE SubSeq(s, 1, Len(s) - 1)[i] = s[i]
  <2>1. i \in 1 .. Len(s) - 1 - 1 + 1 /\ 1 + i - 1 = i
    BY <1>1
  <2> QED
    BY <1>5, <2>1
<1>7. Len(SubSeq(s, 1, Len(s) - 1)) = Len(s) - 1
  <2>1. \A n \in Nat \ {0} : (IF 1 <= n - 1 THEN n - 1 - 1 + 1 ELSE 0) = n - 1
    OBVIOUS
  <2> QED
    BY <1>1, <1>4, <2>1, Zenon
<1>8. Front(s) = SubSeq(s, 1, Len(s) - 1)
  BY DEF Front
<1> QED
  BY <1>1, <1>3, <1>6, <1>7, <1>8, Zenon

\* A sequence of one element.
LEMMA Single ==
  ASSUME NEW S, NEW e \in S
  PROVE  <<e>> \in Seq(S) /\ Len(<<e>>) = 1 /\ <<e>>[1] = e
  OBVIOUS
-----------------------------------------------------------------------------
(***************************************************************************)
(* The operation runs only before it is taken for done.                    *)
(***************************************************************************)
Once == operated \in Nat /\ operated <= 1 /\ (operated = 1 => isAfter)

LEMMA OnceStep == Once /\ [TestRunsNext]_testRunVars => Once'
<1> SUFFICES ASSUME Once, [TestRunsNext]_testRunVars PROVE Once'
  OBVIOUS
<1> USE DEF fixtureFlags, environment, history
<1>1. ASSUME NEW f, NEW worked, Operate(f, worked) PROVE Once'
  <2>1. CASE Runs(f)
    <3>1. ~isAfter /\ operated' = operated + 1
      BY <1>1, <2>1 DEF Operate, Runs
    <3>2. isAfter'
      BY <1>1, <2>1, Zenon DEF Operate, DoneAfter
    <3> QED
      BY <3>1, <3>2 DEF Once
  <2>2. CASE ~Runs(f)
    <3>1. isAfter => isAfter'
      BY <1>1, Zenon DEF Operate
    <3> QED
      BY <1>1, <2>2, <3>1 DEF Operate, Once
  <2> QED
    BY <2>1, <2>2
<1>2. CASE UNCHANGED <<operated, isAfter>>
  BY <1>2 DEF Once
<1> QED
  BY <1>1, <1>2 DEF TestRunsNext, testRunVars, EnterTestCase, RunOperations, Start, Finish,
     Ask, Require,
     Succeed, Fail, TryAlternative, CleanUpNow, DoCleanup, ExitTestCase

\* However the tests ask for it, and whether or not it fails, the operation runs
\* at most once (Operation.setup_fixture).
THEOREM OperationRuns == TestRunsSpec => []OperationRunsOnce
<1>1. TestRunsInit => Once
  BY DEF TestRunsInit, Once
<1>2. Once => OperationRunsOnce
  BY DEF Once, OperationRunsOnce
<1> QED
  BY <1>1, <1>2, OnceStep, PTL DEF TestRunsSpec
-----------------------------------------------------------------------------
(***************************************************************************)
(* The flags of a fixture, and the set-ups in progress.                    *)
(***************************************************************************)
\* An alternative is only that of the outermost set-up, and waits alone.
Nested ==
  \A i \in 1 .. Len(frames) :
    /\ i > 1 => frames[i].alternative = NoFixture
    /\ frames[i].fixture = NoFixture => Len(frames) = 1 /\ frames[i].alternative # NoFixture

InProgress(f) == \E i \in 1 .. Len(frames) : frames[i].fixture = f

Truthful ==
  \A f \in Fixtures \ broken :
    /\ f \in setUpDone => extent[f] = "whole"
    /\ extent[f] = "part" => f \in skipped \/ preventCreate \/ InProgress(f)

FlagsInv ==
  /\ frames \in Seq(Frame)
  /\ extent \in [Fixtures -> {"none", "part", "whole"}]
  /\ Nested
  /\ Truthful

\* A fixture is set up that was not, by a set-up that is added to those below.
LEMMA PushStep ==
  ASSUME FlagsInv, NEW below, NEW f \in Fixtures \ setUpDone, NEW use \in BOOLEAN,
         NEW a \in Fixtures \cup {NoFixture}, Push(below, f, use, a),
         \/ below = frames /\ a = NoFixture /\ \A i \in 1 .. Len(frames) : frames[i].fixture # NoFixture
         \/ below = <<>> /\ \A i \in 1 .. Len(frames) : frames[i].fixture = NoFixture,
         UNCHANGED <<setUpDone, preventCreate>>
  PROVE  FlagsInv'
<1> DEFINE e == [fixture |-> f, use |-> use, alternative |-> a]
<1>1. e \in Frame /\ below \in Seq(Frame) /\ Len(below) \in Nat
  BY EmptySeq, LenProperties DEF Frame, FlagsInv
<1>2. frames' = Append(below, e)
  BY DEF Push
<1>3. /\ frames' \in Seq(Frame) /\ Len(frames') = Len(below) + 1
      /\ \A i \in 1 .. Len(below) : frames'[i] = below[i]
      /\ frames'[Len(below) + 1] = e
  BY <1>1, <1>2, AppendProperties
<1>4. e.fixture = f /\ e.alternative = a /\ f # NoFixture
  BY TestRunsAssumption
<1> HIDE DEF e
<1>5. Nested'
  <2>1. CASE below = <<>> /\ Len(below) = 0
    BY <1>3, <1>4, <2>1 DEF Nested
  <2>2. CASE below = frames /\ a = NoFixture /\ \A i \in 1 .. Len(frames) : frames[i].fixture # NoFixture
    BY <1>1, <1>3, <1>4, <2>2 DEF Nested, FlagsInv
  <2> QED
    BY <2>1, <2>2, EmptySeq
<1>6. InProgress(f)'
  BY <1>1, <1>3, <1>4 DEF InProgress
<1>7. ASSUME NEW g \in Fixtures, InProgress(g) PROVE InProgress(g)'
  <2>1. below = frames
    BY <1>7, TestRunsAssumption DEF InProgress
  <2> QED
    BY <1>1, <1>3, <1>7, <2>1 DEF InProgress
<1>8. /\ extent' = [extent EXCEPT ![f] = IF @ = "none" THEN "part" ELSE @]
      /\ broken' = broken \ {f} /\ skipped' = skipped \ {f}
  BY DEF Push
<1>9. Truthful'
  BY <1>6, <1>7, <1>8 DEF Truthful, FlagsInv
<1> QED
  BY <1>3, <1>5, <1>8, <1>9 DEF FlagsInv

\* The set-up at the top.
LEMMA Topmost ==
  ASSUME FlagsInv, frames # <<>>, Doing.fixture # NoFixture
  PROVE  /\ Len(frames) \in Nat \ {0}
         /\ Doing = frames[Len(frames)] /\ Doing \in Frame
         /\ Doing.fixture \in Fixtures
         /\ Doing.alternative # NoFixture => Len(frames) = 1 /\ Doing.alternative \in Fixtures
<1>1. Len(frames) \in Nat \ {0}
  BY EmptySeq DEF FlagsInv
<1>2. Doing \in Frame
  BY <1>1, ElementOfSeq DEF Doing, FlagsInv
<1>3. Doing.fixture \in Fixtures /\ Doing.alternative \in Fixtures \cup {NoFixture}
  BY <1>2 DEF Frame
<1>4. Doing.alternative # NoFixture => Len(frames) = 1
  <2>1. Doing.alternative # NoFixture => ~(Len(frames) > 1)
    BY <1>1 DEF Doing, FlagsInv, Nested
  <2>2. \A n \in Nat \ {0} : ~(n > 1) => n = 1
    OBVIOUS
  <2> QED
    BY <1>1, <2>1, <2>2, Zenon
<1>5. Doing = frames[Len(frames)]
  BY DEF Doing
<1> QED
  BY <1>1, <1>2, <1>3, <1>4, <1>5

\* Without the set-up at the top those below are still in progress.
LEMMA FrontStep ==
  ASSUME FlagsInv, frames # <<>>, Doing.fixture # NoFixture, frames' = Front(frames)
  PROVE  /\ frames' \in Seq(Frame)
         /\ Nested'
         /\ \A g \in Fixtures : g # Doing.fixture /\ InProgress(g) => InProgress(g)'
<1>1. /\ frames' \in Seq(Frame)
      /\ Len(frames) \in Nat \ {0} /\ Len(frames') = Len(frames) - 1
      /\ \A i \in 1 .. Len(frames) - 1 : frames'[i] = frames[i]
  BY Popped DEF FlagsInv
<1>2. Nested'
  BY <1>1 DEF Nested, FlagsInv
<1>3. ASSUME NEW g \in Fixtures, g # Doing.fixture, InProgress(g) PROVE InProgress(g)'
  <2>1. PICK i \in 1 .. Len(frames) : frames[i].fixture = g
    BY <1>3 DEF InProgress
  <2>2. i \in 1 .. Len(frames) - 1
    BY <1>1, <1>3, <2>1 DEF Doing
  <2> QED
    BY <1>1, <2>1, <2>2 DEF InProgress
<1> QED
  BY <1>1, <1>2, <1>3

\* A failed set-up that is cleaned up leaves nothing, or is known to do so.
LEMMA ErrorStep ==
  ASSUME FlagsInv, NEW f \in Fixtures, CleanUpAfterError(f), UNCHANGED preventCreate,
         \A g \in Fixtures : g # f /\ InProgress(g) => InProgress(g)'
  PROVE  /\ extent' \in [Fixtures -> {"none", "part", "whole"}]
         /\ Truthful'
<1>1. setUpDone' = setUpDone \ {f} /\ cleanUpDone' = cleanUpDone \cup {f}
  BY DEF CleanUpAfterError
<1>2. CASE preventCreate \/ Executed(f)
  <2>1. /\ skipped' = IF f \in cleanUpDone THEN skipped \cup {f} ELSE skipped
        /\ UNCHANGED <<extent, broken>>
    BY <1>2 DEF CleanUpAfterError
  <2>2. preventCreate \/ f \in skipped'
    BY <1>2, <2>1 DEF Executed
  <2> QED
    BY <1>1, <2>1, <2>2 DEF FlagsInv, Truthful
<1>3. CASE ~(preventCreate \/ Executed(f))
  <2>1. /\ skipped' = skipped
        /\ \/ extent' = [extent EXCEPT ![f] = "none"] /\ UNCHANGED broken
           \/ broken' = broken \cup {f} /\ UNCHANGED extent
    BY <1>3 DEF CleanUpAfterError
  <2> QED
    BY <1>1, <2>1 DEF FlagsInv, Truthful
<1> QED
  BY <1>2, <1>3

LEMMA CleanUpStep ==
  ASSUME FlagsInv, NEW f \in Fixtures, CleanUpWorks(f) \/ CleanUpFails(f),
         UNCHANGED <<frames, preventCreate, skipped>>
  PROVE  FlagsInv'
<1>1. \A g \in Fixtures : InProgress(g)' <=> InProgress(g)
  BY DEF InProgress
<1>2. CASE CleanUpWorks(f)
  <2>1. setUpDone' = setUpDone \ {f}
    BY <1>2 DEF CleanUpWorks, FlagReset
  <2>2. \/ UNCHANGED <<extent, broken>>
        \/ extent' = [extent EXCEPT ![f] = "none"] /\ broken' = broken \ {f}
    BY <1>2 DEF CleanUpWorks
  <2> QED
    BY <1>1, <2>1, <2>2 DEF FlagsInv, Nested, Truthful
<1>3. CASE CleanUpFails(f)
  BY <1>1, <1>3 DEF CleanUpFails, FlagsInv, Nested, Truthful
<1> QED
  BY <1>2, <1>3
-----------------------------------------------------------------------------
(***************************************************************************)
(* The test cases, what they have used and what they will clean up.        *)
(***************************************************************************)
Case == [decoration : Decorations, point : {"setup", "start", "body", "end"},
         cleanups : Seq(Fixtures), used : SUBSET Fixtures]

Listed(c) == {c.cleanups[j] : j \in 1 .. Len(c.cleanups)}

\* What a test has used it will clean up; once it ends, what it will not clean up
\* any more is not set up, or could not be cleaned up.
CasesInv ==
  /\ cases \in Seq(Case)
  /\ \A i \in 1 .. Len(cases) :
       /\ i < Len(cases) => cases[i].point = "body"
       /\ cases[i].point # "end" => cases[i].used \subseteq Listed(cases[i])
       /\ cases[i].point = "end" =>
            cases[i].used \cap setUpDone \subseteq Listed(cases[i]) \cup broken
  /\ frames # <<>> /\ cases # <<>> => Top.point \in {"start", "body"}

LEMMA TopCase ==
  ASSUME CasesInv, cases # <<>>
  PROVE  Len(cases) \in Nat \ {0} /\ Top = cases[Len(cases)] /\ Top \in Case
<1>1. Len(cases) \in Nat \ {0}
  BY EmptySeq DEF CasesInv
<1> QED
  BY <1>1, ElementOfSeq DEF Top, CasesInv

\* Only the test case at the top changes.
LEMMA TopChanges ==
  ASSUME CasesInv, cases # <<>>, NEW c \in Case, cases' = [cases EXCEPT ![Len(cases)] = c],
         c.point # "end" => c.used \subseteq Listed(c),
         c.point = "end" => c.used \cap setUpDone' \subseteq Listed(c) \cup broken',
         frames' # <<>> => c.point \in {"start", "body"}
  PROVE  CasesInv'
<1>1. Len(cases) \in Nat \ {0}
  BY TopCase
<1>2. cases' \in Seq(Case) /\ Len(cases') = Len(cases)
  BY <1>1, ExceptSeq DEF CasesInv
<1>3. cases'[Len(cases)] = c /\ \A i \in 1 .. Len(cases) - 1 : cases'[i] = cases[i]
  BY <1>1, LenProperties DEF CasesInv
<1>4. \A i \in 1 .. Len(cases) - 1 : cases[i].point = "body"
  BY <1>1 DEF CasesInv
<1>5. \A i \in 1 .. Len(cases) : i # Len(cases) => i \in 1 .. Len(cases) - 1
  BY <1>1
<1>6. Top' = c
  BY <1>2, <1>3 DEF Top
<1>7. ASSUME NEW i \in 1 .. Len(cases) - 1
      PROVE  /\ cases'[i].point = "body"
             /\ cases'[i].used \subseteq Listed(cases'[i])
  <2>1. i \in 1 .. Len(cases)
    BY <1>1
  <2> QED
    BY <1>3, <1>4, <2>1 DEF CasesInv
<1>8. ASSUME NEW i \in 1 .. Len(cases')
      PROVE  /\ i < Len(cases') => cases'[i].point = "body"
             /\ cases'[i].point # "end" => cases'[i].used \subseteq Listed(cases'[i])
             /\ cases'[i].point = "end" =>
                  cases'[i].used \cap setUpDone' \subseteq Listed(cases'[i]) \cup broken'
  <2> DEFINE n == Len(cases)
  <2>1. n \in Nat /\ i \in 1 .. n /\ Len(cases') = n
    BY <1>1, <1>2
  <2>2. n \in 1 .. n /\ (i # n => i \in 1 .. n - 1) /\ cases'[n] = c
    <3>1. \A m \in Nat \ {0} : m \in 1 .. m /\ \A j \in 1 .. m : j # m => j \in 1 .. m - 1
      OBVIOUS
    <3> QED
      BY <1>1, <1>3, <2>1, <3>1, Zenon
  <2>3. ASSUME NEW j \in 1 .. n - 1
        PROVE  cases'[j].point = "body" /\ cases'[j].used \subseteq Listed(cases'[j])
    BY <1>7
  <2> HIDE DEF n
  <2> QED
    BY <2>1, <2>2, <2>3
<1> QED
  BY <1>2, <1>6, <1>8 DEF CasesInv, Listed

\* GoTo(p) changes the point of the test case at the top.
LEMMA GoToStep ==
  ASSUME CasesInv, cases # <<>>, Top.point # "end",
         NEW p \in {"start", "body", "end"}, cases' = GoTo(p), frames' # <<>> => p \in {"start", "body"}
  PROVE  CasesInv'
<1> DEFINE c == [Top EXCEPT !.point = p]
<1>1. c \in Case /\ c.point = p /\ c.used = Top.used /\ c.cleanups = Top.cleanups
  BY TopCase DEF Case
<1>2. c.used \subseteq Listed(c)
  BY <1>1, TopCase DEF CasesInv, Listed
<1>3. cases' = [cases EXCEPT ![Len(cases)] = c]
  BY DEF GoTo, Top
<1> HIDE DEF c
<1> QED
  BY <1>1, <1>2, <1>3, TopChanges

LEMMA SameCases ==
  ASSUME CasesInv, cases' = cases,
         cases # <<>> => Top.point # "end",
         frames' # <<>> /\ cases # <<>> => Top.point \in {"start", "body"}
  PROVE  CasesInv'
<1>1. Top' = Top
  BY DEF Top
<1>2. ASSUME NEW i \in 1 .. Len(cases) PROVE cases[i].point # "end"
  <2>1. i < Len(cases) \/ i = Len(cases)
    BY <1>2, LenProperties DEF CasesInv
  <2>2. cases # <<>>
    BY <1>2, EmptySeq
  <2> QED
    BY <1>2, <2>1, <2>2 DEF CasesInv, Top
<1> QED
  BY <1>1, <1>2 DEF CasesInv

LEMMA AddCleanupStep ==
  ASSUME CasesInv, NEW f \in Fixtures, NEW use \in BOOLEAN, cases' = AddCleanup(f, use),
         cases # <<>> => Top.point \in {"start", "body"}
  PROVE  CasesInv'
<1>1. CASE ~(use /\ cases # <<>>)
  <2>1. cases' = cases
    BY <1>1 DEF AddCleanup
  <2> QED
    BY <2>1, SameCases
<1>2. CASE use /\ cases # <<>>
  <2> DEFINE c == [Top EXCEPT !.cleanups = Append(@, f), !.used = @ \cup {f}]
  <2>1. Top \in Case /\ Top.cleanups \in Seq(Fixtures)
    BY <1>2, TopCase DEF Case
  <2>2. c.point = Top.point /\ c.used = Top.used \cup {f} /\ c.cleanups = Append(Top.cleanups, f)
    BY <2>1 DEF Case
  <2>3. /\ c.cleanups \in Seq(Fixtures) /\ Len(c.cleanups) = Len(Top.cleanups) + 1
        /\ Len(Top.cleanups) \in Nat
        /\ \A j \in 1 .. Len(Top.cleanups) : c.cleanups[j] = Top.cleanups[j]
        /\ c.cleanups[Len(Top.cleanups) + 1] = f
    BY <2>1, <2>2, AppendProperties, LenProperties
  <2>4. c \in Case
    BY <2>1, <2>3 DEF Case
  <2>5. Top.used \subseteq Listed(Top)
    BY <1>2, TopCase DEF CasesInv
  <2>6. cases' = [cases EXCEPT ![Len(cases)] = c]
    BY <1>2 DEF AddCleanup, Top
  <2> HIDE DEF c
  <2>7. Listed(Top) \subseteq Listed(c) /\ f \in Listed(c)
    BY <2>3 DEF Listed
  <2> QED
    BY <1>2, <2>2, <2>4, <2>5, <2>6, <2>7, TopChanges
<1> QED
  BY <1>1, <1>2

LEMMA DoCleanupStep ==
  ASSUME CasesInv, DoCleanup
  PROVE  CasesInv' /\ Last(Top.cleanups) \in Fixtures
<1> DEFINE f == Last(Top.cleanups)
           c == [Top EXCEPT !.cleanups = Front(@)]
<1>1. /\ frames = <<>> /\ cases # <<>> /\ Top.point = "end" /\ Top.cleanups # <<>>
      /\ CleanUpWorks(f) \/ CleanUpFails(f)
      /\ cases' = [cases EXCEPT ![Len(cases)] = c] /\ frames' = frames
  BY DEF DoCleanup, At, Top
<1>2. Top \in Case /\ Top.cleanups \in Seq(Fixtures) /\ Len(cases) \in Nat \ {0}
  BY <1>1, TopCase DEF Case
<1>3. c.point = Top.point /\ c.used = Top.used /\ c.cleanups = Front(Top.cleanups)
  BY <1>2 DEF Case
<1>4. /\ c.cleanups \in Seq(Fixtures)
      /\ Len(Top.cleanups) \in Nat \ {0} /\ Len(c.cleanups) = Len(Top.cleanups) - 1
      /\ \A i \in 1 .. Len(Top.cleanups) - 1 : c.cleanups[i] = Top.cleanups[i]
  BY <1>1, <1>2, <1>3, Popped
<1>5. c \in Case
  BY <1>2, <1>4 DEF Case
<1>6. f = Top.cleanups[Len(Top.cleanups)] /\ f \in Fixtures
  <2>1. f = Top.cleanups[Len(Top.cleanups)]
    BY DEF Last
  <2>2. Len(Top.cleanups) \in 1 .. Len(Top.cleanups)
    BY <1>4
  <2> QED
    BY <1>2, <2>1, <2>2, ElementOfSeq
<1>7. Top.used \cap setUpDone \subseteq Listed(Top) \cup broken
  BY <1>1, <1>2 DEF CasesInv, Top
<1>8. \/ setUpDone' = setUpDone \ {f} /\ (broken' = broken \/ broken' = broken \ {f})
      \/ setUpDone' = setUpDone /\ broken' = broken \cup {f}
  BY <1>1 DEF CleanUpWorks, CleanUpFails, FlagReset
<1> HIDE DEF c, f
<1>9. Listed(Top) \subseteq Listed(c) \cup {f}
  BY <1>4, <1>6 DEF Listed
<1>10. c.used \cap setUpDone' \subseteq Listed(c) \cup broken'
  BY <1>3, <1>7, <1>8, <1>9
<1>11. CasesInv'
  BY <1>1, <1>3, <1>5, <1>10, TopChanges
<1> QED
  BY <1>6, <1>11 DEF f
-----------------------------------------------------------------------------
Inv == FlagsInv /\ CasesInv

LEMMA InitInv == TestRunsInit => Inv
  BY EmptySeq DEF TestRunsInit, Inv, FlagsInv, CasesInv, Nested, Truthful

LEMMA EnterStep ==
  ASSUME CasesInv, NEW d \in Decorations, EnterTestCase(d)
  PROVE  CasesInv'
<1> DEFINE c == [decoration |-> d, point |-> "setup", cleanups |-> <<>>, used |-> {}]
<1>1. c \in Case /\ c.used = {} /\ c.point = "setup"
  BY EmptySeq DEF Case
<1>2. /\ cases' = Append(cases, c) /\ frames = <<>> /\ frames' = frames
      /\ cases # <<>> => Top.point = "body"
  BY DEF EnterTestCase
<1> HIDE DEF c
<1>3. /\ cases' \in Seq(Case) /\ Len(cases') = Len(cases) + 1 /\ Len(cases) \in Nat
      /\ \A i \in 1 .. Len(cases) : cases'[i] = cases[i]
      /\ cases'[Len(cases) + 1] = c
  BY <1>1, <1>2, AppendProperties, LenProperties DEF CasesInv
<1>4. ASSUME NEW i \in 1 .. Len(cases)
      PROVE  cases[i].point = "body" /\ cases[i].used \subseteq Listed(cases[i])
  <2>1. i < Len(cases) \/ i = Len(cases)
    BY <1>3
  <2>2. cases # <<>>
    BY <1>4, EmptySeq
  <2>3. cases[i].point = "body"
    BY <1>2, <2>1, <2>2 DEF CasesInv, Top
  <2> QED
    BY <2>3 DEF CasesInv
<1>5. ASSUME NEW i \in 1 .. Len(cases')
      PROVE  /\ i < Len(cases') => cases'[i].point = "body"
             /\ cases'[i].point # "end" /\ cases'[i].used \subseteq Listed(cases'[i])
  <2>1. CASE i \in 1 .. Len(cases)
    BY <1>3, <1>4, <2>1
  <2>2. CASE i = Len(cases')
    BY <1>1, <1>3, <2>2
  <2> QED
    BY <1>3, <2>1, <2>2
<1> QED
  BY <1>2, <1>3, <1>5 DEF CasesInv, Listed

LEMMA ExitStep ==
  ASSUME CasesInv, ExitTestCase
  PROVE  CasesInv'
<1>1. cases' = Front(cases) /\ cases # <<>> /\ frames' = <<>>
  BY DEF ExitTestCase, At
<1>2. /\ cases' \in Seq(Case) /\ Len(cases) \in Nat \ {0} /\ Len(cases') = Len(cases) - 1
      /\ \A i \in 1 .. Len(cases) - 1 : cases'[i] = cases[i]
  BY <1>1, Popped DEF CasesInv
<1>3. ASSUME NEW i \in 1 .. Len(cases) - 1
      PROVE  cases[i].point = "body" /\ cases[i].used \subseteq Listed(cases[i])
  BY <1>2 DEF CasesInv
<1> QED
  BY <1>1, <1>2, <1>3 DEF CasesInv, Listed

\* What the flags are about does not change.
LEMMA SameFlags ==
  ASSUME FlagsInv, UNCHANGED <<frames, setUpDone, extent, broken, skipped, preventCreate>>
  PROVE  FlagsInv'
<1>1. frames' = frames /\ setUpDone' = setUpDone /\ extent' = extent
  OBVIOUS
<1>2. broken' = broken /\ skipped' = skipped /\ (preventCreate => preventCreate')
  OBVIOUS
<1>3. Nested'
  BY <1>1 DEF FlagsInv, Nested
<1>4. \A g : InProgress(g) => InProgress(g)'
  BY <1>1 DEF InProgress
<1>5. Truthful'
  BY <1>1, <1>2, <1>4 DEF FlagsInv, Truthful
<1> QED
  BY <1>1, <1>3, <1>5 DEF FlagsInv

LEMMA RunOperationsFlags ==
  ASSUME FlagsInv, RunOperations
  PROVE  FlagsInv'
<1> DEFINE e == [fixture |-> Operation, use |-> FALSE, alternative |-> NoFixture]
<1>1. /\ frames = <<>> /\ (frames' = <<e>> \/ frames' = frames)
      /\ setUpDone' = setUpDone /\ extent' = extent /\ broken' = broken /\ skipped' = skipped
      /\ UNCHANGED preventCreate
  BY DEF RunOperations, At, fixtureFlags, environment, history
<1>2. CASE frames' = frames
  BY <1>1, <1>2, SameFlags
<1>3. CASE frames' = <<e>>
  <2>1. e \in Frame /\ e.fixture # NoFixture
    BY TestRunsAssumption DEF Frame
  <2> HIDE DEF e
  <2>2. frames' \in Seq(Frame) /\ Len(frames') = 1 /\ frames'[1] = e
    BY <1>3, <2>1, Single
  <2>3. Nested'
    BY <2>1, <2>2 DEF Nested
  <2>4. \A g : ~InProgress(g)
    BY <1>1, EmptySeq DEF InProgress
  <2>5. preventCreate => preventCreate'
    BY <1>1
  <2> QED
    BY <1>1, <2>2, <2>3, <2>4, <2>5 DEF FlagsInv, Truthful
<1> QED
  BY <1>1, <1>2, <1>3

LEMMA AskFlags ==
  ASSUME FlagsInv, NEW f \in Fixtures, NEW use \in BOOLEAN, NEW a \in Fixtures \cup {NoFixture},
         Ask(f, use, a)
  PROVE  FlagsInv'
<1>1. frames = <<>> /\ UNCHANGED <<setUpDone, preventCreate>>
  BY DEF Ask, environment
<1>2. CASE f \in setUpDone
  <2>1. UNCHANGED <<frames, extent, broken, skipped>>
    BY <1>2 DEF Ask
  <2> QED
    BY <1>1, <2>1, SameFlags
<1>3. CASE f \notin setUpDone
  <2>1. Push(<<>>, f, use, a)
    BY <1>3 DEF Ask
  <2>2. \A i \in 1 .. Len(frames) : frames[i].fixture = NoFixture
    BY <1>1, EmptySeq
  <2> QED
    BY <1>1, <1>3, <2>1, <2>2, PushStep
<1> QED
  BY <1>2, <1>3

LEMMA RequireFlags ==
  ASSUME FlagsInv, NEW r \in Fixtures, Require(r)
  PROVE  FlagsInv'
<1>1. /\ frames # <<>> /\ Doing.fixture # NoFixture /\ r \in Fixtures \ setUpDone
      /\ Push(frames, r, FALSE, NoFixture) /\ UNCHANGED <<setUpDone, preventCreate>>
  BY DEF Require, environment
<1>2. Len(frames) \in Nat \ {0} /\ Doing = frames[Len(frames)]
  BY <1>1, Topmost
<1>3. ASSUME NEW i \in 1 .. Len(frames) PROVE frames[i].fixture # NoFixture
  <2>1. SUFFICES ASSUME frames[i].fixture = NoFixture PROVE FALSE
    OBVIOUS
  <2>2. Len(frames) = 1
    BY <2>1 DEF FlagsInv, Nested
  <2>3. i = 1
    BY <2>2
  <2> QED
    BY <1>1, <1>2, <2>1, <2>2, <2>3
<1>4. FALSE \in BOOLEAN /\ NoFixture \in Fixtures \cup {NoFixture}
  OBVIOUS
<1> QED
  BY <1>1, <1>3, <1>4, PushStep

\* The set-up that waits for its alternative.
LEMMA Waiting ==
  ASSUME FlagsInv, frames # <<>>, Doing.fixture = NoFixture
  PROVE  /\ Doing.alternative \in Fixtures /\ Doing.use \in BOOLEAN
         /\ \A i \in 1 .. Len(frames) : frames[i].fixture = NoFixture
<1>1. Len(frames) \in Nat \ {0}
  BY EmptySeq DEF FlagsInv
<1>2. Doing \in Frame /\ Doing = frames[Len(frames)]
  BY <1>1, ElementOfSeq DEF Doing, FlagsInv
<1>3. Len(frames) \in 1 .. Len(frames)
  BY <1>1
<1>4. Len(frames) = 1 /\ Doing.alternative # NoFixture
  BY <1>2, <1>3 DEF FlagsInv, Nested
<1>5. Doing.alternative \in Fixtures /\ Doing.use \in BOOLEAN
  BY <1>2, <1>4 DEF Frame
<1>6. \A i \in 1 .. Len(frames) : i = 1
  BY <1>4
<1> QED
  BY <1>2, <1>4, <1>5, <1>6

LEMMA AlternativeFlags ==
  ASSUME FlagsInv, TryAlternative
  PROVE  FlagsInv'
<1> DEFINE a == Doing.alternative
<1>1. frames # <<>> /\ Doing.fixture = NoFixture /\ UNCHANGED <<setUpDone, preventCreate>>
  BY DEF TryAlternative, environment
<1>2. /\ a \in Fixtures /\ Doing.use \in BOOLEAN
      /\ \A i \in 1 .. Len(frames) : frames[i].fixture = NoFixture
  BY <1>1, Waiting
<1>3. CASE a \in setUpDone
  <2>1. frames' = <<>> /\ extent' = extent /\ broken' = broken /\ skipped' = skipped
    BY <1>3 DEF TryAlternative
  <2>2. \A g \in Fixtures : ~InProgress(g)
    BY <1>2, TestRunsAssumption DEF InProgress
  <2>3. setUpDone' = setUpDone /\ (preventCreate => preventCreate')
    BY <1>1
  <2>4. Nested' /\ frames' \in Seq(Frame)
    BY <2>1, EmptySeq DEF Nested
  <2> QED
    BY <2>1, <2>2, <2>3, <2>4 DEF FlagsInv, Truthful
<1>4. CASE a \notin setUpDone
  <2>1. Push(<<>>, a, Doing.use, NoFixture)
    BY <1>4 DEF TryAlternative
  <2>2. NoFixture \in Fixtures \cup {NoFixture}
    OBVIOUS
  <2> HIDE DEF a
  <2> QED
    BY <1>1, <1>2, <1>4, <2>1, <2>2, PushStep
<1> QED
  BY <1>3, <1>4

LEMMA SucceedFlags ==
  ASSUME FlagsInv, Succeed
  PROVE  FlagsInv'
<1> DEFINE f == Doing.fixture
<1>1. /\ frames # <<>> /\ f # NoFixture /\ frames' = Front(frames)
      /\ setUpDone' = setUpDone \cup {f} /\ extent' = [extent EXCEPT ![f] = "whole"]
      /\ broken' = broken /\ skipped' = skipped /\ UNCHANGED preventCreate
  BY DEF Succeed, environment
<1>2. f \in Fixtures
  BY <1>1, Topmost
<1>3. /\ frames' \in Seq(Frame) /\ Nested'
      /\ \A g \in Fixtures : g # f /\ InProgress(g) => InProgress(g)'
  BY <1>1, FrontStep
<1>4. preventCreate => preventCreate'
  BY <1>1
<1> HIDE DEF f
<1> QED
  BY <1>1, <1>2, <1>3, <1>4 DEF FlagsInv, Truthful

LEMMA FailFlags ==
  ASSUME FlagsInv, Fail
  PROVE  FlagsInv'
<1> DEFINE f == Doing.fixture
<1>1. frames # <<>> /\ f # NoFixture /\ CleanUpAfterError(f) /\ UNCHANGED preventCreate
  BY DEF Fail, environment
<1>2. /\ Len(frames) \in Nat \ {0} /\ Doing = frames[Len(frames)] /\ Doing \in Frame /\ f \in Fixtures
      /\ Doing.alternative # NoFixture => Len(frames) = 1 /\ Doing.alternative \in Fixtures
  BY <1>1, Topmost
<1>3. /\ frames' \in Seq(Frame) /\ Nested'
      /\ \A g \in Fixtures : g # f /\ InProgress(g) => InProgress(g)'
  <2>1. CASE Doing.alternative = NoFixture
    <3>1. frames' = Front(frames)
      BY <2>1 DEF Fail
    <3> QED
      BY <1>1, <3>1, FrontStep
  <2>2. CASE Doing.alternative # NoFixture
    <3> DEFINE e == [Doing EXCEPT !.fixture = NoFixture]
    <3>1. frames' = <<e>>
      BY <2>2 DEF Fail
    <3>2. e \in Frame /\ e.alternative # NoFixture
      BY <1>2, <2>2 DEF Frame
    <3>3. \A g \in Fixtures : g # f => ~InProgress(g)
      BY <1>2, <2>2 DEF InProgress
    <3> HIDE DEF e, f
    <3>4. frames' \in Seq(Frame) /\ Len(frames') = 1 /\ frames'[1] = e
      BY <3>1, <3>2, Single
    <3>5. Nested'
      BY <3>2, <3>4 DEF Nested
    <3> QED
      BY <3>3, <3>4, <3>5
  <2> QED
    BY <2>1, <2>2
<1> HIDE DEF f
<1>4. extent' \in [Fixtures -> {"none", "part", "whole"}] /\ Truthful'
  BY <1>1, <1>2, <1>3, ErrorStep
<1> QED
  BY <1>3, <1>4 DEF FlagsInv

LEMMA FlagsStep ==
  ASSUME Inv, [TestRunsNext]_testRunVars
  PROVE  FlagsInv'
<1> USE DEF fixtureFlags, environment, history
<1>1. FlagsInv /\ CasesInv
  BY DEF Inv
<1>2. CASE UNCHANGED <<frames, setUpDone, extent, broken, skipped, preventCreate>>
  BY <1>1, <1>2, SameFlags
<1>3. ASSUME NEW f \in Fixtures, CleanUpNow(f) PROVE FlagsInv'
  <2>1. (CleanUpWorks(f) \/ CleanUpFails(f)) /\ UNCHANGED <<frames, preventCreate, skipped>>
    BY <1>3 DEF CleanUpNow
  <2> QED
    BY <1>1, <2>1, CleanUpStep
<1>4. CASE DoCleanup
  <2> DEFINE f == Last(Top.cleanups)
  <2>1. (CleanUpWorks(f) \/ CleanUpFails(f)) /\ UNCHANGED <<frames, preventCreate, skipped>>
    BY <1>4 DEF DoCleanup
  <2>2. f \in Fixtures
    BY <1>1, <1>4, DoCleanupStep
  <2> HIDE DEF f
  <2> QED
    BY <1>1, <2>1, <2>2, CleanUpStep
<1>5. ASSUME NEW d, EnterTestCase(d) PROVE FlagsInv'
  <2>1. UNCHANGED <<frames, setUpDone, extent, broken, skipped, preventCreate>>
    BY <1>5 DEF EnterTestCase
  <2> QED
    BY <1>2, <2>1
<1>6. CASE Start \/ Finish \/ ExitTestCase
  <2>1. UNCHANGED <<frames, setUpDone, extent, broken, skipped, preventCreate>>
    BY <1>6 DEF Start, Finish, ExitTestCase
  <2> QED
    BY <1>2, <2>1
<1>7. CASE UNCHANGED testRunVars
  <2>1. UNCHANGED <<frames, setUpDone, extent, broken, skipped, preventCreate>>
    BY <1>7 DEF testRunVars
  <2> QED
    BY <1>2, <2>1
<1> QED
  BY <1>1, <1>3, <1>4, <1>5, <1>6, <1>7, RunOperationsFlags, AskFlags, RequireFlags,
     SucceedFlags,
     FailFlags, AlternativeFlags DEF TestRunsNext

LEMMA CasesStep ==
  ASSUME Inv, [TestRunsNext]_testRunVars
  PROVE  CasesInv'
<1> USE DEF fixtureFlags, environment, history
<1>1. FlagsInv /\ CasesInv
  BY DEF Inv
<1>2. frames # <<>> /\ cases # <<>> => Top.point \in {"start", "body"}
  BY <1>1 DEF CasesInv
<1>3. ASSUME NEW d \in Decorations, EnterTestCase(d) PROVE CasesInv'
  BY <1>1, <1>3, EnterStep
<1>4. CASE RunOperations
  <2>1. cases # <<>> /\ Top.point = "setup" /\ cases' = GoTo("start")
    BY <1>4 DEF RunOperations, At
  <2> QED
    BY <1>1, <2>1, GoToStep
<1>5. CASE Start \/ Finish
  <2>1. /\ cases # <<>> /\ Top.point # "end" /\ frames' = <<>>
        /\ cases' = GoTo("end") \/ cases' = GoTo("body")
    BY <1>5 DEF Start, Finish, At
  <2> QED
    BY <1>1, <2>1, GoToStep
<1>6. ASSUME NEW f \in Fixtures, NEW use \in BOOLEAN, NEW a, Ask(f, use, a) PROVE CasesInv'
  <2>1. (cases # <<>> => Top.point = "body") /\ (cases' = AddCleanup(f, use) \/ cases' = cases)
    BY <1>6 DEF Ask
  <2> QED
    BY <1>1, <2>1, AddCleanupStep, SameCases
<1>7. ASSUME NEW r, Require(r) PROVE CasesInv'
  <2>1. frames # <<>> /\ cases' = cases
    BY <1>7 DEF Require
  <2> QED
    BY <1>1, <1>2, <2>1, SameCases
<1>8. CASE Succeed
  <2>1. frames # <<>> /\ Doing.fixture # NoFixture /\ cases' = AddCleanup(Doing.fixture, Doing.use)
    BY <1>8 DEF Succeed
  <2>2. Doing.fixture \in Fixtures /\ Doing.use \in BOOLEAN
    BY <1>1, <2>1, Topmost DEF Frame
  <2> QED
    BY <1>1, <1>2, <2>1, <2>2, AddCleanupStep
<1>9. CASE Fail
  <2>1. /\ frames # <<>>
        /\ \/ frames' = <<>> /\ cases # <<>> /\ cases' = GoTo("end")
           \/ cases' = cases
    BY <1>9 DEF Fail
  <2>2. cases # <<>> => Top.point \in {"start", "body"}
    BY <1>2, <2>1
  <2> QED
    BY <1>1, <2>1, <2>2, GoToStep, SameCases
<1>10. CASE TryAlternative
  <2>1. /\ frames # <<>> /\ Doing.fixture = NoFixture
        /\ cases' = AddCleanup(Doing.alternative, Doing.use) \/ cases' = cases
    BY <1>10 DEF TryAlternative
  <2>2. Doing.alternative \in Fixtures /\ Doing.use \in BOOLEAN
    BY <1>1, <2>1, Waiting
  <2> QED
    BY <1>1, <1>2, <2>1, <2>2, AddCleanupStep, SameCases
<1>11. ASSUME NEW f, CleanUpNow(f) PROVE CasesInv'
  <2>1. /\ cases # <<>> /\ Top.point = "body" /\ frames' = <<>>
        /\ cases' = cases \/ cases' = GoTo("end")
    BY <1>11 DEF CleanUpNow, At
  <2> QED
    BY <1>1, <2>1, GoToStep, SameCases
<1>12. CASE DoCleanup
  BY <1>1, <1>12, DoCleanupStep
<1>13. CASE ExitTestCase
  BY <1>1, <1>13, ExitStep
<1>14. CASE UNCHANGED testRunVars
  <2>1. cases' = cases /\ frames' = frames /\ setUpDone' = setUpDone /\ broken' = broken
    BY <1>14 DEF testRunVars
  <2>2. Top' = Top
    BY <2>1 DEF Top
  <2> QED
    BY <1>1, <2>1, <2>2 DEF CasesInv
<1> QED
  BY <1>3, <1>4, <1>5, <1>6, <1>7, <1>8, <1>9, <1>10, <1>11, <1>12, <1>13, <1>14 DEF
     TestRunsNext

LEMMA InvStep == Inv /\ [TestRunsNext]_testRunVars => Inv'
  BY FlagsStep, CasesStep DEF Inv

\* Whatever the tests ask for and whatever fails, the flags of a fixture are true:
\* what passes for set up is whole, what failed is not left behind, but for the
\* exceptions that FlagsTellTheTruth names (SharedFixture.setUp, cleanUp).
THEOREM FlagsAreTrue == TestRunsSpec => []FlagsTellTheTruth
<1>1. ASSUME Inv PROVE FlagsTellTheTruth
  <2>1. FlagsInv /\ DOMAIN frames = 1 .. Len(frames)
    BY <1>1, LenProperties DEF Inv, FlagsInv
  <2> QED
    BY <2>1 DEF FlagsInv, Truthful, InProgress, FlagsTellTheTruth
<1> QED
  BY <1>1, InitInv, InvStep, PTL DEF TestRunsSpec
-----------------------------------------------------------------------------
LeftClean == Len(cases') < Len(cases) => Top.used \cap setUpDone \subseteq broken

\* Only the end of a test makes the stack of tests shorter, and only a test that
\* may be entered makes it longer.
LEMMA OthersKeep ==
  ASSUME Inv, [TestRunsNext]_testRunVars, ~ExitTestCase
  PROVE  \/ Len(cases') = Len(cases)
         \/ Len(cases') = Len(cases) + 1 /\ Len(cases) < MaxDepth
<1> USE DEF fixtureFlags, environment, history
<1>1. cases \in Seq(Case) /\ Len(cases) \in Nat
  BY LenProperties DEF Inv, CasesInv
<1>2. cases' \in Seq(Case)
  BY CasesStep DEF CasesInv
<1>3. ASSUME NEW d \in Decorations, EnterTestCase(d)
      PROVE  Len(cases') = Len(cases) + 1 /\ Len(cases) < MaxDepth
  <2> DEFINE c == [decoration |-> d, point |-> "setup", cleanups |-> <<>>, used |-> {}]
  <2>1. cases' = Append(cases, c) /\ c \in Case /\ Len(cases) < MaxDepth
    BY <1>3, EmptySeq DEF EnterTestCase, Case
  <2> HIDE DEF c
  <2> QED
    BY <1>1, <2>1, AppendProperties
<1>4. ASSUME DOMAIN cases' = DOMAIN cases PROVE Len(cases') = Len(cases)
  <2>1. DOMAIN cases = 1 .. Len(cases) /\ DOMAIN cases' = 1 .. Len(cases') /\ Len(cases') \in Nat
    BY <1>1, <1>2, LenProperties
  <2>2. \A m, n \in Nat : 1 .. m = 1 .. n => m = n
    <3>1. ASSUME NEW m \in Nat, NEW n \in Nat, 1 .. m = 1 .. n, m < n PROVE FALSE
      BY <3>1
    <3>2. ASSUME NEW m \in Nat, NEW n \in Nat, 1 .. m = 1 .. n, n < m PROVE FALSE
      BY <3>2
    <3> QED
      BY <3>1, <3>2
  <2> QED
    BY <1>1, <1>4, <2>1, <2>2
<1>5. ASSUME NEW p, cases' = GoTo(p) PROVE DOMAIN cases' = DOMAIN cases
  BY <1>5 DEF GoTo
<1>6. ASSUME NEW f, NEW use, cases' = AddCleanup(f, use) PROVE DOMAIN cases' = DOMAIN cases
  BY <1>6 DEF AddCleanup
<1>7. CASE cases' = cases
  BY <1>7
<1>8. CASE DoCleanup
  BY <1>4, <1>8 DEF DoCleanup
<1> QED
  BY <1>3, <1>4, <1>5, <1>6, <1>7, <1>8
     DEF TestRunsNext, testRunVars, RunOperations, Start, Finish, Ask, Require, Succeed, Fail,
         TryAlternative, CleanUpNow

LEMMA ExitIsClean ==
  ASSUME Inv, ExitTestCase
  PROVE  Top.used \cap setUpDone \subseteq broken
<1>1. CasesInv /\ cases # <<>> /\ Top.point = "end" /\ Top.cleanups = <<>>
  BY DEF Inv, ExitTestCase, At
<1>2. Len(cases) \in Nat \ {0}
  BY <1>1, TopCase
<1>3. Top.used \cap setUpDone \subseteq Listed(Top) \cup broken
  BY <1>1, <1>2 DEF CasesInv, Top
<1>4. Listed(Top) = {}
  BY <1>1, EmptySeq DEF Listed
<1> QED
  BY <1>3, <1>4

LEMMA LeaveStep == Inv /\ [TestRunsNext]_testRunVars => LeftClean
<1> SUFFICES ASSUME Inv, [TestRunsNext]_testRunVars PROVE LeftClean
  OBVIOUS
<1>1. CASE ExitTestCase
  BY <1>1, ExitIsClean DEF LeftClean
<1>2. CASE ~ExitTestCase
  <2>1. Len(cases) \in Nat
    BY LenProperties DEF Inv, CasesInv
  <2>2. \A n \in Nat : ~(n < n) /\ ~(n + 1 < n)
    OBVIOUS
  <2>3. Len(cases') = Len(cases) \/ Len(cases') = Len(cases) + 1
    BY <1>2, OthersKeep
  <2> QED
    BY <2>1, <2>2, <2>3, Zenon DEF LeftClean
<1> QED
  BY <1>1, <1>2

\* A test is left with nothing it used set up, but for what could not be cleaned
\* up, whatever it or its fixtures did (use_fixture, add_cleanup, doCleanups).
THEOREM TestsCleanUp == TestRunsSpec => EndedTestsCleanUp
<1>1. LeftClean => (Len(cases') < Len(cases) => Top.used \cap setUpDone \subseteq broken)
  BY DEF LeftClean
<1> QED
  BY <1>1, InitInv, InvStep, LeaveStep, PTL DEF TestRunsSpec, EndedTestsCleanUp
-----------------------------------------------------------------------------
(***************************************************************************)
(* The type invariant.                                                     *)
(***************************************************************************)
\* Who waits for its alternative has failed before.
Raises == raising => frames # <<>> /\ Doing.fixture # NoFixture

Marked ==
  /\ setUpDone \in SUBSET Fixtures /\ cleanUpDone \in SUBSET Fixtures
  /\ broken \in SUBSET Fixtures /\ skipped \in SUBSET Fixtures

Chosen ==
  /\ isAfter \in BOOLEAN /\ runOperations \in BOOLEAN /\ preventCreate \in BOOLEAN
  /\ raising \in BOOLEAN
  /\ asked \in 0 .. MaxAsked

TypedInv == Inv /\ Once /\ Len(cases) <= MaxDepth /\ Raises /\ Marked /\ Chosen

\* No test is entered that would be too deep.
LEMMA DepthStep == TypedInv /\ [TestRunsNext]_testRunVars => Len(cases') <= MaxDepth
<1> SUFFICES ASSUME TypedInv, [TestRunsNext]_testRunVars PROVE Len(cases') <= MaxDepth
  OBVIOUS
<1>1. cases \in Seq(Case) /\ Len(cases) \in Nat /\ Len(cases) <= MaxDepth /\ MaxDepth \in Nat
  BY LenProperties, TestRunsAssumption DEF TypedInv, Inv, CasesInv
<1>2. CASE ExitTestCase
  <2>1. Len(cases') = Len(cases) - 1
    BY <1>1, <1>2, Popped DEF ExitTestCase, At
  <2> QED
    BY <1>1, <2>1
<1>3. CASE ~ExitTestCase
  <2>1. Len(cases') = Len(cases) \/ (Len(cases') = Len(cases) + 1 /\ Len(cases) < MaxDepth)
    BY <1>3, OthersKeep DEF TypedInv
  <2> QED
    BY <1>1, <2>1
<1> QED
  BY <1>2, <1>3

LEMMA RaisesStep == TypedInv /\ [TestRunsNext]_testRunVars => Raises'
<1> SUFFICES ASSUME TypedInv, [TestRunsNext]_testRunVars PROVE Raises'
  OBVIOUS
<1> USE DEF fixtureFlags, environment, history
<1>1. FlagsInv /\ Raises
  BY DEF TypedInv, Inv
<1>2. frames = <<>> \/ (frames # <<>> /\ Doing.fixture = NoFixture) => ~raising
  BY <1>1 DEF Raises
<1>3. ASSUME ~raising, UNCHANGED raising PROVE Raises'
  BY <1>3 DEF Raises
<1>4. CASE UNCHANGED <<frames, raising>>
  <2>1. Doing' = Doing
    BY <1>4 DEF Doing
  <2> QED
    BY <1>1, <1>4, <2>1 DEF Raises
<1>5. CASE RunOperations \/ \E f, use, a : Ask(f, use, a)
  BY <1>2, <1>3, <1>5 DEF RunOperations, At, Ask
<1>6. CASE Succeed \/ \E r : Require(r)
  BY <1>3, <1>6 DEF Succeed, Require
<1>7. CASE TryAlternative
  BY <1>2, <1>3, <1>7 DEF TryAlternative
<1>8. CASE Fail
  <2>1. CASE Doing.alternative # NoFixture
    BY <1>8, <2>1 DEF Fail, Raises
  <2>2. CASE Doing.alternative = NoFixture
    <3>1. frames # <<>> /\ frames' = Front(frames) /\ (raising' <=> frames' # <<>>)
      BY <1>8, <2>2 DEF Fail, Raised
    <3>2. /\ Len(frames) \in Nat \ {0} /\ Len(frames') = Len(frames) - 1
          /\ \A i \in 1 .. Len(frames) - 1 : frames'[i] = frames[i]
          /\ frames' \in Seq(Frame)
      BY <1>1, <3>1, Popped DEF FlagsInv
    <3>3. ASSUME frames' # <<>> PROVE Doing'.fixture # NoFixture
      <4>1. Len(frames') \in Nat \ {0}
        BY <3>2, <3>3, EmptySeq
      <4>2. Len(frames') \in 1 .. Len(frames) - 1 /\ Len(frames') \in 1 .. Len(frames) /\ Len(frames) # 1
        BY <3>2, <4>1
      <4>3. frames[Len(frames')].fixture # NoFixture
        BY <1>1, <4>2 DEF FlagsInv, Nested
      <4> QED
        BY <3>2, <4>2, <4>3 DEF Doing
    <3> QED
      BY <3>1, <3>3 DEF Raises
  <2> QED
    BY <2>1, <2>2
<1> QED
  BY <1>4, <1>5, <1>6, <1>7, <1>8 DEF TestRunsNext, testRunVars, EnterTestCase, Start,
     Finish,
     CleanUpNow, DoCleanup, ExitTestCase

\* The flags are those of fixtures.
LEMMA MarkedStep == TypedInv /\ [TestRunsNext]_testRunVars => Marked'
<1> SUFFICES ASSUME TypedInv, [TestRunsNext]_testRunVars PROVE Marked'
  OBVIOUS
<1> USE DEF fixtureFlags, environment, history
<1>1. FlagsInv /\ CasesInv /\ Marked
  BY DEF TypedInv, Inv
<1>2. CASE UNCHANGED <<setUpDone, cleanUpDone, broken, skipped>>
  BY <1>1, <1>2 DEF Marked
<1>3. CASE UNCHANGED <<setUpDone,
                       cleanUpDone>> /\ broken' \subseteq broken /\ skipped' \subseteq skipped
  BY <1>1, <1>3 DEF Marked
<1>4. CASE \E f, use, a : Ask(f, use, a)
  BY <1>2, <1>3, <1>4 DEF Ask, Push
<1>5. CASE (\E r : Require(r)) \/ TryAlternative
  BY <1>2, <1>3, <1>5 DEF Require, TryAlternative, Push
<1>6. ASSUME frames # <<>>, Doing.fixture # NoFixture PROVE Doing.fixture \in Fixtures
  BY <1>1, <1>6, Topmost
<1>7. CASE Succeed
  BY <1>1, <1>6, <1>7 DEF Succeed, Marked
<1>8. CASE Fail
  BY <1>1, <1>6, <1>8 DEF Fail, CleanUpAfterError, Marked
<1>9. ASSUME NEW f \in Fixtures, CleanUpWorks(f) \/ CleanUpFails(f), UNCHANGED skipped
      PROVE  Marked'
  BY <1>1, <1>9 DEF CleanUpWorks, CleanUpFails, FlagReset, Marked
<1>10. CASE \E f \in Fixtures : CleanUpNow(f)
  BY <1>9, <1>10 DEF CleanUpNow
<1>11. CASE DoCleanup
  <2>1. Last(Top.cleanups) \in Fixtures
    <3>1. cases # <<>> /\ Top.cleanups # <<>>
      BY <1>11 DEF DoCleanup, At
    <3>2. Top.cleanups \in Seq(Fixtures)
      BY <1>1, <3>1, TopCase DEF Case
    <3>3. Len(Top.cleanups) \in Nat \ {0}
      BY <3>1, <3>2, EmptySeq
    <3> QED
      BY <3>2, <3>3, ElementOfSeq DEF Last
  <2> QED
    BY <1>9, <1>11, <2>1 DEF DoCleanup
<1> QED
  BY <1>2, <1>4, <1>5, <1>7, <1>8, <1>10, <1>11 DEF TestRunsNext, testRunVars,
     EnterTestCase,
     RunOperations, Start, Finish, ExitTestCase

LEMMA ChosenStep == TypedInv /\ [TestRunsNext]_testRunVars => Chosen'
<1> SUFFICES ASSUME TypedInv, [TestRunsNext]_testRunVars PROVE Chosen'
  OBVIOUS
<1> USE DEF fixtureFlags, environment, history
<1>1. Chosen /\ MaxAsked \in Nat
  BY TestRunsAssumption DEF TypedInv
<1>2. UNCHANGED <<runOperations, preventCreate>>
  BY DEF TestRunsNext, testRunVars, EnterTestCase, RunOperations, Start, Finish, Ask,
     Require,
     Succeed, Fail, TryAlternative, CleanUpNow, DoCleanup, ExitTestCase
<1>3. isAfter' \in BOOLEAN
  <2>1. ASSUME NEW f, NEW worked, Operate(f, worked) PROVE isAfter' \in BOOLEAN
    BY <2>1, Zenon DEF Operate
  <2>2. CASE UNCHANGED isAfter
    BY <1>1, <2>2 DEF Chosen
  <2> QED
    BY <2>1, <2>2 DEF TestRunsNext, testRunVars, EnterTestCase, RunOperations, Start,
       Finish, Ask,
       Require, Succeed, Fail, TryAlternative, CleanUpNow, DoCleanup, ExitTestCase
<1>4. raising' \in BOOLEAN
  <2>1. CASE Fail
    BY <2>1, Zenon DEF Fail, Raised
  <2>2. CASE UNCHANGED raising
    BY <1>1, <2>2 DEF Chosen
  <2> QED
    BY <2>1, <2>2 DEF TestRunsNext, testRunVars, EnterTestCase, RunOperations, Start,
       Finish, Ask,
       Require, Succeed, TryAlternative, CleanUpNow, DoCleanup, ExitTestCase
<1>5. asked' \in 0 .. MaxAsked
  <2>1. asked' = asked \/ (asked < MaxAsked /\ asked' = asked + 1)
    BY DEF TestRunsNext, testRunVars, EnterTestCase, RunOperations, Start, Finish, Ask,
       Require,
       Succeed, Fail, TryAlternative, CleanUpNow, DoCleanup, ExitTestCase
  <2> QED
    BY <1>1, <2>1 DEF Chosen
<1> QED
  BY <1>1, <1>2, <1>3, <1>4, <1>5 DEF Chosen

LEMMA TypedStep == TypedInv /\ [TestRunsNext]_testRunVars => TypedInv'
  BY InvStep, OnceStep, DepthStep, RaisesStep, MarkedStep, ChosenStep DEF TypedInv

\* The invariant has the types.
LEMMA TypedMeansTypeOK == TypedInv => TestRunsTypeOK
<1> SUFFICES ASSUME TypedInv PROVE TestRunsTypeOK
  OBVIOUS
<1>1. /\ cases \in Seq(Case) /\ Len(cases) \in 0 .. MaxDepth /\ DOMAIN cases = 1 .. Len(cases)
      /\ frames \in Seq(Frame) /\ DOMAIN frames = 1 .. Len(frames)
      /\ extent \in [Fixtures -> {"none", "part", "whole"}]
  BY LenProperties, TestRunsAssumption DEF TypedInv, Inv, CasesInv, FlagsInv
<1>2. /\ \A i \in DOMAIN cases : cases[i] \in Case /\ (i < Len(cases) => cases[i].point = "body")
      /\ \A i \in DOMAIN frames : frames[i] \in Frame
  BY <1>1, ElementOfSeq DEF TypedInv, Inv, CasesInv
<1> QED
  BY <1>1, <1>2 DEF TypedInv, Once, Raises, Marked, Chosen, Case, TestRunsTypeOK

LEMMA InitTyped == TestRunsInit => TypedInv
<1> SUFFICES ASSUME TestRunsInit PROVE TypedInv
  OBVIOUS
<1>1. Len(cases) = 0 /\ MaxDepth \in Nat /\ 0 \in 0 .. MaxAsked
  BY EmptySeq, TestRunsAssumption DEF TestRunsInit
<1>2. Once /\ Raises /\ Marked
  BY DEF TestRunsInit, Once, Raises, Marked
<1>3. Chosen
  BY <1>1 DEF TestRunsInit, Chosen
<1> QED
  BY <1>1, <1>2, <1>3, InitInv DEF TypedInv

\* The state is well formed: the tests that another one waits for are in their body,
\* and an error is raised only by a set-up in progress.
THEOREM TestRunsTyped == TestRunsSpec => []TestRunsTypeOK
  BY InitTyped, TypedStep, TypedMeansTypeOK, PTL DEF TestRunsSpec
=============================================================================
