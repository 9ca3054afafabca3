----------------------- MODULE ResourceFixtureProofs -----------------------
(***************************************************************************)
(* Proofs about ResourceFixture, for any number of workers and tests.      *)
(*                                                                         *)
(* TypeOK is inductive: its conjunct on the lock holds because only the    *)
(* owner is in try_create_resource.  That there is one resource of the     *)
(* name follows with Alone: a worker about to create has seen none, and    *)
(* until it releases the lock nobody else creates one.  A group has its    *)
(* rules, if no call fails, because the only one without them is that of   *)
(* the worker that fills it (Filling), and no other worker looks it up     *)
(* meanwhile: a worker out of the lock knows its group already (Knows).    *)
(***************************************************************************)
EXTENDS ResourceFixture, TLAPS

USE DEF Goto, Set, neutron, fixture, flags

LEMMA TypeInit == Init => TypeOK
BY ResourceAssumption DEF Init, TypeOK, Control, Synched

LEMMA TypeStep == TypeOK /\ [Next]_vars => TypeOK'
<1> SUFFICES ASSUME TypeOK, [Next]_vars PROVE TypeOK'
  OBVIOUS
<1>0. UNCHANGED <<kind, canFail>>
  BY DEF Next, Step, Finished, setting, vars
<1> USE ResourceAssumption, <1>0 DEF TypeOK, Control, Synched
<1>1. ASSUME NEW w \in Workers, BeginTest(w) PROVE TypeOK'
  BY <1>1 DEF BeginTest
<1>2. ASSUME NEW w \in Workers, SkipSetUp(w) PROVE TypeOK'
  BY <1>2 DEF SkipSetUp
<1>3. ASSUME NEW w \in Workers, SetUp(w) PROVE TypeOK'
  BY <1>3 DEF SetUp, LockFree
<1>4. ASSUME NEW w \in Workers, EnsureQuota(w) PROVE TypeOK'
  BY <1>4 DEF EnsureQuota
<1>5. ASSUME NEW w \in Workers, LookUp(w) PROVE TypeOK'
  BY <1>5 DEF LookUp, Known, Found
<1>6. ASSUME NEW w \in Workers, Create(w) PROVE TypeOK'
  <2>1. lastId' \in Nat /\ 1 .. lastId \subseteq 1 .. lastId'
        /\ 0 .. lastId \subseteq 0 .. lastId'
    BY <1>6 DEF Create
  <2>4. live' \subseteq 1 .. lastId' /\ whole' \subseteq 1 .. lastId'
    <3>1. lastId + 1 \in 1 .. lastId + 1
      OBVIOUS
    <3>2. CASE lastId' = lastId + 1 /\ live' = live \cup {lastId + 1}
               /\ whole' \subseteq whole \cup {lastId + 1}
      BY <2>1, <3>1, <3>2
    <3>3. CASE UNCHANGED <<live, whole, lastId>>
      BY <3>3
    <3> QED
      BY <1>6, <3>2, <3>3 DEF Create
  <2>2. made' \in [Workers -> 0 .. lastId'] /\ mine' \in [Workers -> 0 .. lastId']
    BY <1>6, <2>1 DEF Create
  <2>3. /\ \A v \in Workers : pc'[v] \in Synched => holder' = v
        /\ pc' \in [Workers -> Control]
    BY <1>6 DEF Create
  <2> QED
    BY <1>6, <2>1, <2>2, <2>3, <2>4 DEF Create
<1>7. ASSUME NEW w \in Workers, Fill(w) PROVE TypeOK'
  BY <1>7 DEF Fill
<1>8. ASSUME NEW w \in Workers, Reread(w) PROVE TypeOK'
  BY <1>8 DEF Reread, Found
<1>9. ASSUME NEW w \in Workers, Unlock(w) PROVE TypeOK'
  BY <1>9 DEF Unlock
<1>10. ASSUME NEW w \in Workers, Verify(w) PROVE TypeOK'
  BY <1>10 DEF Verify, Known, Found
<1>11. ASSUME NEW w \in Workers, Addme(w) PROVE TypeOK'
  BY <1>11 DEF Addme
<1>12. ASSUME NEW w \in Workers, SetUpFails(w) PROVE TypeOK'
  BY <1>12 DEF SetUpFails
<1>13. ASSUME NEW w \in Workers, CleanUp(w) PROVE TypeOK'
  BY <1>13 DEF CleanUp
<1>14. ASSUME NEW w \in Workers, Removeme(w) PROVE TypeOK'
  BY <1>14 DEF Removeme
<1>15. ASSUME NEW w \in Workers, SkipCleanUp(w) PROVE TypeOK'
  BY <1>15 DEF SkipCleanUp
<1>16. ASSUME NEW w \in Workers, GetId(w) PROVE TypeOK'
  BY <1>16 DEF GetId, Known, Found
<1>17. ASSUME NEW w \in Workers, Delete(w) PROVE TypeOK'
  <2>1. mine' \in [Workers -> 0 .. lastId]
    BY <1>17 DEF Delete
  <2>2. live' \subseteq 1 .. lastId
    BY <1>17 DEF Delete
  <2>3. /\ \A v \in Workers : pc'[v] \in Synched => holder' = v
        /\ pc' \in [Workers -> Control]
    BY <1>17 DEF Delete
  <2> QED
    BY <1>17, <2>1, <2>2, <2>3 DEF Delete
<1>18. ASSUME NEW w \in Workers, EndCleanUp(w) PROVE TypeOK'
  BY <1>18 DEF EndCleanUp
<1>19. ASSUME NEW w \in Workers, DeleteFails(w) PROVE TypeOK'
  BY <1>19 DEF DeleteFails, Known
<1>20. ASSUME NEW w \in Workers, EndTest(w) PROVE TypeOK'
  BY <1>20 DEF EndTest
<1>21. ASSUME UNCHANGED vars PROVE TypeOK'
  BY <1>21 DEF vars
<1> QED
  BY <1>1, <1>2, <1>3, <1>4, <1>5, <1>6, <1>7, <1>8, <1>9, <1>10, <1>11, <1>12, <1>13, <1>14, <1>15, <1>16, <1>17, <1>18, <1>19, <1>20, <1>21 DEF Next, Step, Finished

\* The state is well formed and whoever is in try_create_resource owns the
\* inter-worker lock, for any constants.
THEOREM TypeCorrect == Spec => []TypeOK
BY TypeInit, TypeStep, PTL DEF Spec
-----------------------------------------------------------------------------
\* A worker that is about to create the resource still sees none.
Alone == \A w \in Workers : pc[w] = "create" => live = {}

OneInv == TypeOK /\ Alone /\ OneOfTheName

LEMMA NewIdIsNew == TypeOK => lastId + 1 \notin live /\ lastId + 1 # 0
BY DEF TypeOK

\* What a look-up returns: no id but those of the resources there are.
LEMMA FoundIsLive ==
  ASSUME TypeOK, NEW i \in Found
  PROVE  (i = 0 /\ live = {}) \/ (i # 0 /\ i \in live)
BY DEF TypeOK, Found

LEMMA OneInit == Init => OneInv
<1> SUFFICES ASSUME Init PROVE OneInv
  OBVIOUS
<1>1. Alone
  BY DEF Init, Alone
<1>2. OneOfTheName
  BY DEF Init, OneOfTheName
<1> QED
  BY <1>1, <1>2, TypeInit DEF OneInv

LEMMA OneStep == OneInv /\ [Next]_vars => OneInv'
<1> SUFFICES ASSUME OneInv, [Next]_vars PROVE (Alone /\ OneOfTheName)'
  BY TypeStep DEF OneInv
<1> USE DEF OneInv, Alone, OneOfTheName, TypeOK, Control, Synched
<1>1. ASSUME NEW w \in Workers, BeginTest(w) PROVE (Alone /\ OneOfTheName)'
  BY <1>1 DEF BeginTest
<1>2. ASSUME NEW w \in Workers, SkipSetUp(w) PROVE (Alone /\ OneOfTheName)'
  BY <1>2 DEF SkipSetUp
<1>3. ASSUME NEW w \in Workers, SetUp(w) PROVE (Alone /\ OneOfTheName)'
  BY <1>3 DEF SetUp, LockFree
<1>4. ASSUME NEW w \in Workers, EnsureQuota(w) PROVE (Alone /\ OneOfTheName)'
  BY <1>4 DEF EnsureQuota
<1>5. ASSUME NEW w \in Workers, LookUp(w) PROVE (Alone /\ OneOfTheName)'
  BY <1>5 DEF LookUp, Known, Found, FindFails
<1>6. ASSUME NEW w \in Workers, Create(w) PROVE (Alone /\ OneOfTheName)'
  BY <1>6 DEF Create
<1>7. ASSUME NEW w \in Workers, Fill(w) PROVE (Alone /\ OneOfTheName)'
  BY <1>7 DEF Fill
<1>8. ASSUME NEW w \in Workers, Reread(w) PROVE (Alone /\ OneOfTheName)'
  BY <1>8 DEF Reread, Found, FindFails
<1>9. ASSUME NEW w \in Workers, Unlock(w) PROVE (Alone /\ OneOfTheName)'
  BY <1>9 DEF Unlock
<1>10. ASSUME NEW w \in Workers, Verify(w) PROVE (Alone /\ OneOfTheName)'
  BY <1>10 DEF Verify, Known, Found, FindFails
<1>11. ASSUME NEW w \in Workers, Addme(w) PROVE (Alone /\ OneOfTheName)'
  BY <1>11 DEF Addme
<1>12. ASSUME NEW w \in Workers, SetUpFails(w) PROVE (Alone /\ OneOfTheName)'
  BY <1>12 DEF SetUpFails
<1>13. ASSUME NEW w \in Workers, CleanUp(w) PROVE (Alone /\ OneOfTheName)'
  BY <1>13 DEF CleanUp
<1>14. ASSUME NEW w \in Workers, Removeme(w) PROVE (Alone /\ OneOfTheName)'
  BY <1>14 DEF Removeme
<1>15. ASSUME NEW w \in Workers, SkipCleanUp(w) PROVE (Alone /\ OneOfTheName)'
  BY <1>15 DEF SkipCleanUp
<1>16. ASSUME NEW w \in Workers, GetId(w) PROVE (Alone /\ OneOfTheName)'
  BY <1>16 DEF GetId, Known, Found, FindFails
<1>17. ASSUME NEW w \in Workers, Delete(w) PROVE (Alone /\ OneOfTheName)'
  BY <1>17 DEF Delete
<1>18. ASSUME NEW w \in Workers, EndCleanUp(w) PROVE (Alone /\ OneOfTheName)'
  BY <1>18 DEF EndCleanUp
<1>19. ASSUME NEW w \in Workers, DeleteFails(w) PROVE (Alone /\ OneOfTheName)'
  BY <1>19 DEF DeleteFails, Known, FindFails, Found
<1>20. ASSUME NEW w \in Workers, EndTest(w) PROVE (Alone /\ OneOfTheName)'
  BY <1>20 DEF EndTest
<1>21. ASSUME UNCHANGED vars PROVE (Alone /\ OneOfTheName)'
  BY <1>21 DEF vars
<1> QED
  BY <1>1, <1>2, <1>3, <1>4, <1>5, <1>6, <1>7, <1>8, <1>9, <1>10, <1>11, <1>12, <1>13, <1>14, <1>15, <1>16, <1>17, <1>18, <1>19, <1>20, <1>21 DEF Next, Step, Finished

\* try_create_resource, under its lock, never makes a second resource of the
\* name, for any constants: failing calls and late deletions included.
THEOREM OnlyOneOfTheName == Spec => []OneOfTheName
<1>1. OneInv => OneOfTheName
  BY DEF OneInv
<1> QED
  BY <1>1, OneInit, OneStep, PTL DEF Spec
-----------------------------------------------------------------------------
(***************************************************************************)
(* The rules of a group, when no call fails.                               *)
(***************************************************************************)
Outside == {"unlock", "verify", "addme", "using", "clean", "id", "delete"}

Knows ==
  \A w \in Workers :
    /\ pc[w] \notin {"broken", "failed"} /\ ~failing[w]
    /\ pc[w] \in Outside => mine[w] # 0
    /\ pc[w] \in Synched => ~setupDone[w]
    /\ setupDone[w] /\ pc[w] # "end" => mine[w] # 0

Filling ==
  /\ \A i \in live :
       i \in whole \/ \E w \in Workers : pc[w] = "fill" /\ made[w] = i
  /\ \A w \in Workers : pc[w] \in {"fill", "reread"} =>
       made[w] \in live /\ \A v \in Workers : mine[v] # made[w]
  /\ \A w \in Workers : mine[w] \in live => mine[w] \in whole

RulesInv == OneInv /\ Knows /\ Filling

LEMMA RulesInit == Init => RulesInv
<1> SUFFICES ASSUME Init PROVE RulesInv
  OBVIOUS
<1>1. Knows
  BY DEF Init, Knows, Outside, Synched
<1>2. Filling
  BY DEF Init, Filling
<1> QED
  BY <1>1, <1>2, OneInit DEF RulesInv

\* One resource of the name: the look-up does not raise.
LEMMA FoundIsSomething == TypeOK /\ OneOfTheName => Found # {}
<1> SUFFICES ASSUME TypeOK, OneOfTheName, live # {} PROVE Found # {}
  BY DEF Found
<1> PICK i \in live : TRUE
  OBVIOUS
<1>1. live = {i}
  BY DEF OneOfTheName
<1>2. i \in Found
  BY <1>1 DEF Found
<1> QED
  BY <1>2

LEMMA KnowsStep == ~canFail /\ RulesInv /\ [Next]_vars => Knows'
<1> SUFFICES ASSUME ~canFail, RulesInv, [Next]_vars PROVE Knows'
  OBVIOUS
<1> USE DEF RulesInv, OneInv, OneOfTheName, Knows, Outside, TypeOK, Control, Synched
<1>1. ASSUME NEW w \in Workers, BeginTest(w) PROVE Knows'
  BY <1>1 DEF BeginTest
<1>2. ASSUME NEW w \in Workers, SkipSetUp(w) PROVE Knows'
  BY <1>2 DEF SkipSetUp
<1>3. ASSUME NEW w \in Workers, SetUp(w) PROVE Knows'
  BY <1>3 DEF SetUp, LockFree
<1>4. ASSUME NEW w \in Workers, EnsureQuota(w) PROVE Knows'
  BY <1>4 DEF EnsureQuota
<1>5. ASSUME NEW w \in Workers, LookUp(w) PROVE Knows'
  <2>1. Found # {} /\ ~FindFails
    BY FoundIsSomething DEF FindFails
  <2>2. setupDone'[w] = setupDone[w] /\ failing' = failing /\ setupDone' = setupDone
    BY <1>5 DEF LookUp
  <2>3. pc[w] = "look"
    BY <1>5 DEF LookUp
  <2>4. pc'[w] \in {"unlock", "create"} /\ (pc'[w] = "unlock" => mine'[w] # 0)
    BY <1>5, <2>1, FoundIsLive DEF LookUp, Known
  <2>5. \A v \in Workers \ {w} : pc'[v] = pc[v] /\ mine'[v] = mine[v]
    BY <1>5 DEF LookUp
  <2> QED
    BY <2>2, <2>3, <2>4, <2>5
<1>6. ASSUME NEW w \in Workers, Create(w) PROVE Knows'
  BY <1>6 DEF Create
<1>7. ASSUME NEW w \in Workers, Fill(w) PROVE Knows'
  BY <1>7 DEF Fill, Filling
<1>8. ASSUME NEW w \in Workers, Reread(w) PROVE Knows'
  <2>1. Found # {} /\ ~FindFails
    BY FoundIsSomething DEF FindFails
  <2>2. pc[w] = "reread" /\ made[w] \in live
    BY <1>8 DEF Reread, Filling
  <2>3. pc'[w] = "unlock" /\ mine'[w] # 0
    BY <1>8, <2>1, <2>2, FoundIsLive DEF Reread
  <2>4. \A v \in Workers \ {w} : pc'[v] = pc[v] /\ mine'[v] = mine[v]
    BY <1>8 DEF Reread
  <2>5. setupDone' = setupDone /\ failing' = failing
    BY <1>8 DEF Reread
  <2> QED
    BY <2>2, <2>3, <2>4, <2>5
<1>9. ASSUME NEW w \in Workers, Unlock(w) PROVE Knows'
  BY <1>9 DEF Unlock
<1>10. ASSUME NEW w \in Workers, Verify(w) PROVE Knows'
  BY <1>10 DEF Verify, Known, Found, FindFails
<1>11. ASSUME NEW w \in Workers, Addme(w) PROVE Knows'
  BY <1>11 DEF Addme
<1>12. ASSUME NEW w \in Workers, SetUpFails(w) PROVE Knows'
  BY <1>12 DEF SetUpFails
<1>13. ASSUME NEW w \in Workers, CleanUp(w) PROVE Knows'
  BY <1>13 DEF CleanUp
<1>14. ASSUME NEW w \in Workers, Removeme(w) PROVE Knows'
  BY <1>14 DEF Removeme
<1>15. ASSUME NEW w \in Workers, SkipCleanUp(w) PROVE Knows'
  BY <1>15 DEF SkipCleanUp
<1>16. ASSUME NEW w \in Workers, GetId(w) PROVE Knows'
  BY <1>16 DEF GetId, Known, Found, FindFails
<1>17. ASSUME NEW w \in Workers, Delete(w) PROVE Knows'
  BY <1>17 DEF Delete
<1>18. ASSUME NEW w \in Workers, EndCleanUp(w) PROVE Knows'
  BY <1>18 DEF EndCleanUp
<1>19. ASSUME NEW w \in Workers, DeleteFails(w) PROVE Knows'
  BY <1>19 DEF DeleteFails, Known, FindFails, Found
<1>20. ASSUME NEW w \in Workers, EndTest(w) PROVE Knows'
  BY <1>20 DEF EndTest
<1>21. ASSUME UNCHANGED vars PROVE Knows'
  BY <1>21 DEF vars
<1> QED
  BY <1>1, <1>2, <1>3, <1>4, <1>5, <1>6, <1>7, <1>8, <1>9, <1>10, <1>11, <1>12, <1>13, <1>14, <1>15, <1>16, <1>17, <1>18, <1>19, <1>20, <1>21 DEF Next, Step, Finished

LEMMA FillingStep == ~canFail /\ RulesInv /\ [Next]_vars => Filling'
<1> SUFFICES ASSUME ~canFail, RulesInv, [Next]_vars PROVE Filling'
  OBVIOUS
<1> USE DEF RulesInv, OneInv, OneOfTheName, Knows, Outside, Filling, TypeOK, Control, Synched
<1>1. ASSUME NEW w \in Workers, BeginTest(w) PROVE Filling'
  BY <1>1 DEF BeginTest
<1>2. ASSUME NEW w \in Workers, SkipSetUp(w) PROVE Filling'
  BY <1>2 DEF SkipSetUp
<1>3. ASSUME NEW w \in Workers, SetUp(w) PROVE Filling'
  BY <1>3 DEF SetUp, LockFree
<1>4. ASSUME NEW w \in Workers, EnsureQuota(w) PROVE Filling'
  BY <1>4 DEF EnsureQuota
<1>5. ASSUME NEW w \in Workers, LookUp(w) PROVE Filling'
  BY <1>5 DEF LookUp, Known, Found, FindFails
<1>6. ASSUME NEW w \in Workers, Create(w) PROVE Filling'
  <2>1. \A v \in Workers \ {w} : pc[v] \notin {"fill", "reread"}
    BY <1>6 DEF Create
  <2>2. live = {}
    BY <1>6 DEF Create, Alone
  <2>3. live' = {lastId + 1} /\ \A v \in Workers : mine[v] # lastId + 1
    BY <1>6, <2>2 DEF Create
  <2>4. CASE kind = "pool"
    <3>1. whole' = whole \cup {lastId + 1}
      BY <1>6, <2>4 DEF Create
    <3>2. \A v \in Workers : pc'[v] \notin {"fill", "reread"}
      BY <1>6, <2>1, <2>4 DEF Create
    <3> QED
      BY <2>3, <3>1, <3>2
  <2>5. CASE kind = "group"
    <3>1. /\ pc' = [pc EXCEPT ![w] = "fill"]
          /\ made' = [made EXCEPT ![w] = lastId + 1]
          /\ mine' = mine
      BY <1>6, <2>5 DEF Create
    <3>2. pc'[w] = "fill" /\ made'[w] = lastId + 1
      BY <3>1
    <3>3. \A v \in Workers \ {w} : pc'[v] \notin {"fill", "reread"}
      BY <3>1, <2>1
    <3> QED
      BY <2>3, <3>1, <3>2, <3>3
  <2> QED
    BY <2>4, <2>5, ResourceAssumption
<1>7. ASSUME NEW w \in Workers, Fill(w) PROVE Filling'
  BY <1>7 DEF Fill
<1>8. ASSUME NEW w \in Workers, Reread(w) PROVE Filling'
  BY <1>8 DEF Reread, Found, FindFails
<1>9. ASSUME NEW w \in Workers, Unlock(w) PROVE Filling'
  BY <1>9 DEF Unlock
<1>10. ASSUME NEW w \in Workers, Verify(w) PROVE Filling'
  BY <1>10 DEF Verify, Known, Found, FindFails
<1>11. ASSUME NEW w \in Workers, Addme(w) PROVE Filling'
  BY <1>11 DEF Addme
<1>12. ASSUME NEW w \in Workers, SetUpFails(w) PROVE Filling'
  BY <1>12 DEF SetUpFails
<1>13. ASSUME NEW w \in Workers, CleanUp(w) PROVE Filling'
  BY <1>13 DEF CleanUp
<1>14. ASSUME NEW w \in Workers, Removeme(w) PROVE Filling'
  BY <1>14 DEF Removeme
<1>15. ASSUME NEW w \in Workers, SkipCleanUp(w) PROVE Filling'
  BY <1>15 DEF SkipCleanUp
<1>16. ASSUME NEW w \in Workers, GetId(w) PROVE Filling'
  BY <1>16 DEF GetId, Known, Found, FindFails
<1>17. ASSUME NEW w \in Workers, Delete(w) PROVE Filling'
  BY <1>17 DEF Delete
<1>18. ASSUME NEW w \in Workers, EndCleanUp(w) PROVE Filling'
  BY <1>18 DEF EndCleanUp
<1>19. ASSUME NEW w \in Workers, DeleteFails(w) PROVE Filling'
  BY <1>19 DEF DeleteFails, Known, FindFails, Found
<1>20. ASSUME NEW w \in Workers, EndTest(w) PROVE Filling'
  BY <1>20 DEF EndTest
<1>21. ASSUME UNCHANGED vars PROVE Filling'
  BY <1>21 DEF vars
<1> QED
  BY <1>1, <1>2, <1>3, <1>4, <1>5, <1>6, <1>7, <1>8, <1>9, <1>10, <1>11, <1>12, <1>13, <1>14, <1>15, <1>16, <1>17, <1>18, <1>19, <1>20, <1>21 DEF Next, Step, Finished

\* If no call fails, a test never uses a group without its rules, although
\* the group is there before its rules are (resource_create) and it may be
\* deleted at any time by a clean-up, which takes no lock.
THEOREM RulesAreThere == Spec => []RulesUnlessFailure
<1> DEFINE IInv == OneInv /\ (~canFail => RulesInv)
<1>1. Init => IInv
  BY OneInit, RulesInit
<1>2. IInv /\ [Next]_vars => IInv'
  <2> SUFFICES ASSUME IInv, [Next]_vars PROVE IInv'
    OBVIOUS
  <2>1. canFail' = canFail
    BY DEF Next, Step, Finished, setting, vars
  <2> QED
    BY <2>1, OneStep, KnowsStep, FillingStep DEF RulesInv
<1>3. IInv => RulesUnlessFailure
  BY DEF RulesInv, Filling, RulesUnlessFailure, GroupsHaveRules
<1> QED
  BY <1>1, <1>2, <1>3, PTL DEF Spec
=============================================================================
