-------------------------- MODULE HeatStackProofs --------------------------
(***************************************************************************)
(* Proofs about HeatStack, for any number of workers, attempts and tests.  *)
(***************************************************************************)
EXTENDS HeatStack, FiniteSetTheorems, WellFoundedInduction, TLAPS

IsStack(s) == s = [id |-> s.id, status |-> s.status]

\* The parts of the type invariant the proofs below rest on.
Shapes ==
  /\ IsStack(heat)
  /\ pc \in [Workers -> Control]
  /\ phase \in [Workers -> {"first", "existing", "created", "gone", "cleanup"}]
  /\ DOMAIN stack = Workers /\ \A w \in Workers : IsStack(stack[w])
  /\ stack = [w \in Workers |-> stack[w]]
  /\ cached \in [Workers -> BOOLEAN]
  /\ asked \in [Workers -> BOOLEAN]
  /\ newId = [w \in Workers |-> newId[w]]

\* Every handler of HeatStack keeps these shapes.
LEMMA ShapesStep == Shapes /\ [Next]_vars => Shapes'
<1> SUFFICES ASSUME Shapes, [Next]_vars PROVE Shapes'
  OBVIOUS
<1> USE DEF Shapes, IsStack, server, waiting, flags, Goto, Set, Control,
            Creating, NoStack, Status
<1>1. ASSUME NEW w \in Workers, BeginTest(w) PROVE Shapes'
  BY <1>1 DEF BeginTest
<1>2. ASSUME NEW w \in Workers, SkipSetUp(w) PROVE Shapes'
  BY <1>2 DEF SkipSetUp
<1>3. ASSUME NEW w \in Workers, SetUp(w) PROVE Shapes'
  BY <1>3 DEF SetUp, Wait, LockFree
<1>4. ASSUME NEW w \in Workers, LookAgain(w) PROVE Shapes'
  BY <1>4 DEF LookAgain, Look, Stored, Seen
<1>5. ASSUME NEW w \in Workers, LookFirst(w) PROVE Shapes'
  <2>1. stack' = [stack EXCEPT ![w] = Seen(w)] /\ UNCHANGED <<heat, newId>>
    BY <1>5 DEF LookFirst, Look, Stored
  <2>2. IsStack(Seen(w))
    BY DEF Seen
  <2>3. asked' \in [Workers -> BOOLEAN]
    BY <1>5 DEF LookFirst, Look
  <2>4. /\ pc' \in [Workers -> Control]
        /\ phase' \in [Workers -> {"first", "existing", "created", "gone",
                                   "cleanup"}]
        /\ cached' \in [Workers -> BOOLEAN]
    BY <1>5 DEF LookFirst, Wait
  <2> QED
    BY <2>1, <2>2, <2>3, <2>4
<1>6. ASSUME NEW w \in Workers, LookCreated(w) PROVE Shapes'
  BY <1>6 DEF LookCreated, Look, Stored, Seen
<1>7. ASSUME NEW w \in Workers, LookGone(w) PROVE Shapes'
  BY <1>7 DEF LookGone, Look, Stored, Seen
<1>8. ASSUME NEW w \in Workers, LookInvalid(w) PROVE Shapes'
  BY <1>8 DEF LookInvalid, Look, Stored, Seen, Expected
<1>9. ASSUME NEW w \in Workers, LookBroken(w) PROVE Shapes'
  BY <1>9 DEF LookBroken, Look, Stored, Seen
<1>10. ASSUME NEW w \in Workers, DeleteFailed(w) PROVE Shapes'
  BY <1>10 DEF DeleteFailed, Wait, DeleteId
<1>11. ASSUME NEW w \in Workers, Prepare(w) PROVE Shapes'
  BY <1>11 DEF Prepare
<1>12. ASSUME NEW w \in Workers, Create(w) PROVE Shapes'
  <2>1. UNCHANGED <<stack, asked>>
    BY <1>12 DEF Create
  <2>2. /\ pc' \in [Workers -> Control]
        /\ cached' \in [Workers -> BOOLEAN]
    BY <1>12 DEF Create, Wait
  <2>3. phase' \in [Workers -> {"first", "existing", "created", "gone",
                               "cleanup"}]
    BY <1>12 DEF Create, Wait
  <2>4. heat' = heat \/ heat' = [id |-> FreshId, status |-> CIP]
    BY <1>12 DEF Create
  <2>5. newId' = newId \/ newId' = [newId EXCEPT ![w] = FreshId]
    BY <1>12 DEF Create
  <2>6. IsStack(heat')
    BY <2>4
  <2>7. newId' = [v \in Workers |-> newId'[v]]
    BY <2>5
  <2> QED
    BY <2>1, <2>2, <2>3, <2>6, <2>7
<1>13. ASSUME NEW w \in Workers, DeleteCreated(w) PROVE Shapes'
  BY <1>13 DEF DeleteCreated, DeleteId
<1>14. ASSUME NEW w \in Workers, Again(w) PROVE Shapes'
  BY <1>14 DEF Again, Wait, DeleteNamed, NextAttempt
<1>15. ASSUME NEW w \in Workers, LastAttempt(w) PROVE Shapes'
  BY <1>15 DEF LastAttempt
<1>16. ASSUME NEW w \in Workers, Addme(w) PROVE Shapes'
  BY <1>16 DEF Addme
<1>17. ASSUME NEW w \in Workers, Unlock(w) PROVE Shapes'
  BY <1>17 DEF Unlock
<1>18. ASSUME NEW w \in Workers, CleanUp(w) PROVE Shapes'
  BY <1>18 DEF CleanUp
<1>19. ASSUME NEW w \in Workers, Removeme(w) PROVE Shapes'
  BY <1>19 DEF Removeme
<1>20. ASSUME NEW w \in Workers, SkipCleanUp(w) PROVE Shapes'
  BY <1>20 DEF SkipCleanUp
<1>21. ASSUME NEW w \in Workers, Drop(w) PROVE Shapes'
  BY <1>21 DEF Drop, Wait, DeleteNamed
<1>22. ASSUME NEW w \in Workers, EndCleanUp(w) PROVE Shapes'
  BY <1>22 DEF EndCleanUp
<1>23. ASSUME NEW w \in Workers, CleanUpFails(w) PROVE Shapes'
  BY <1>23 DEF CleanUpFails, Look, Stored, Seen
<1>24. ASSUME NEW w \in Workers, EndTest(w) PROVE Shapes'
  BY <1>24 DEF EndTest
<1>25. CASE HeatStep
  BY <1>25 DEF HeatStep
<1>26. CASE Finished \/ UNCHANGED vars
  BY <1>26 DEF Finished, vars
<1> QED
  BY <1>1, <1>2, <1>3, <1>4, <1>5, <1>6, <1>7, <1>8, <1>9, <1>10, <1>11,
     <1>12, <1>13, <1>14, <1>15, <1>16, <1>17, <1>18, <1>19, <1>20, <1>21,
     <1>22, <1>23, <1>24, <1>25, <1>26 DEF Next, Step
-----------------------------------------------------------------------------
\* What the proofs say of a worker, and of the others while it takes a step.
Local(w) == <<pc[w], phase[w], stack[w], cached[w], newId[w], asked[w]>>

\* The stack is being created, or complete.
Alive == Status(heat) \in {CIP, CC}

\* How the stack changes unless a worker creates one.
Calm ==
  /\ heat = NoStack => heat' = NoStack
  /\ heat' = NoStack \/ heat'.id = heat.id
  /\ ~Alive => ~Alive'

\* A step of a worker does not touch the fixture object of another process.
LEMMA OthersKept ==
  ASSUME Shapes, NEW w \in Workers, Step(w), NEW v \in Workers, v # w
  PROVE  Local(v)' = Local(v)
<1> USE DEF Shapes, server, waiting, flags, Goto, Set, Local
<1>1. CASE BeginTest(w)
  BY <1>1 DEF BeginTest
<1>2. CASE SkipSetUp(w)
  BY <1>2 DEF SkipSetUp
<1>3. CASE SetUp(w)
  BY <1>3 DEF SetUp, Wait, LockFree
<1>4. CASE LookAgain(w)
  BY <1>4 DEF LookAgain, Look, Stored, Seen
<1>5. CASE LookFirst(w)
  BY <1>5 DEF LookFirst, Look, Stored, Wait
<1>6. CASE LookCreated(w)
  BY <1>6 DEF LookCreated, Look, Stored, Seen
<1>7. CASE LookGone(w)
  BY <1>7 DEF LookGone, Look, Stored, Seen
<1>8. CASE LookInvalid(w)
  BY <1>8 DEF LookInvalid, Look, Stored, Seen, Expected
<1>9. CASE LookBroken(w)
  BY <1>9 DEF LookBroken, Look, Stored, Seen
<1>10. CASE DeleteFailed(w)
  BY <1>10 DEF DeleteFailed, Wait, DeleteId
<1>11. CASE Prepare(w)
  BY <1>11 DEF Prepare
<1>12. CASE Create(w)
  <2>1. pc' = [pc EXCEPT ![w] = "look"] /\ UNCHANGED <<stack, asked>>
    BY <1>12 DEF Create, Wait
  <2>2. /\ cached' = [cached EXCEPT ![w] = TRUE]
        /\ \/ phase' = [phase EXCEPT ![w] = "created"]
           \/ phase' = [phase EXCEPT ![w] = "existing"]
    BY <1>12 DEF Create, Wait
  <2>3. newId' = newId \/ newId' = [newId EXCEPT ![w] = FreshId]
    BY <1>12 DEF Create
  <2> QED
    BY <2>1, <2>2, <2>3
<1>13. CASE DeleteCreated(w)
  BY <1>13 DEF DeleteCreated, DeleteId
<1>14. CASE Again(w)
  BY <1>14 DEF Again, Wait, DeleteNamed, NextAttempt
<1>15. CASE LastAttempt(w)
  BY <1>15 DEF LastAttempt
<1>16. CASE Addme(w)
  BY <1>16 DEF Addme
<1>17. CASE Unlock(w)
  BY <1>17 DEF Unlock
<1>18. CASE CleanUp(w)
  BY <1>18 DEF CleanUp
<1>19. CASE Removeme(w)
  BY <1>19 DEF Removeme
<1>20. CASE SkipCleanUp(w)
  BY <1>20 DEF SkipCleanUp
<1>21. CASE Drop(w)
  BY <1>21 DEF Drop, Wait, DeleteNamed
<1>22. CASE EndCleanUp(w)
  BY <1>22 DEF EndCleanUp
<1>23. CASE CleanUpFails(w)
  BY <1>23 DEF CleanUpFails, Look, Stored, Seen
<1>24. CASE EndTest(w)
  BY <1>24 DEF EndTest
<1> QED
  BY <1>1, <1>2, <1>3, <1>4, <1>5, <1>6, <1>7, <1>8, <1>9, <1>10, <1>11,
     <1>12, <1>13, <1>14, <1>15, <1>16, <1>17, <1>18, <1>19, <1>20, <1>21,
     <1>22, <1>23, <1>24 DEF Step

\* Only Create brings a stack about; Heat and the deletions let it go.
LEMMA NoOtherCreates ==
  ASSUME Shapes,
         HeatStep \/ \E w \in Workers : Step(w) /\ ~Create(w)
  PROVE  Calm
<1> USE DEF Shapes, IsStack, server, Calm, Alive, Status, NoStack, CIP, CC, CF,
            DIP, DC, DF
<1>0. ASSUME HeatStep PROVE Calm
  BY <1>0 DEF HeatStep
<1>1. ASSUME UNCHANGED heat PROVE Calm
  BY <1>1
<1>2. ASSUME DeleteNamed PROVE Calm
  BY <1>2 DEF DeleteNamed
<1>3. ASSUME NEW i, DeleteId(i) PROVE Calm
  BY <1>3 DEF DeleteId
<1>4. ASSUME NEW w \in Workers, Step(w), ~Create(w) PROVE Calm
  <2>1. CASE \/ BeginTest(w) \/ SkipSetUp(w) \/ SetUp(w) \/ Prepare(w)
             \/ LastAttempt(w) \/ Addme(w) \/ Unlock(w) \/ CleanUp(w)
             \/ Removeme(w) \/ SkipCleanUp(w) \/ EndCleanUp(w) \/ EndTest(w)
    BY <2>1, <1>1 DEF BeginTest, SkipSetUp, SetUp, Prepare, LastAttempt, Addme,
                      Unlock, CleanUp, Removeme, SkipCleanUp, EndCleanUp, EndTest
  <2>2. CASE \/ LookAgain(w) \/ LookFirst(w) \/ LookCreated(w) \/ LookGone(w)
             \/ LookInvalid(w) \/ LookBroken(w) \/ CleanUpFails(w)
    <3>1. Look(w)
      BY <2>2 DEF LookAgain, LookFirst, LookCreated, LookGone, LookInvalid,
                  LookBroken, CleanUpFails
    <3> QED
      BY <3>1, <1>1 DEF Look
  <2>3. CASE Again(w) \/ Drop(w)
    BY <2>3, <1>2 DEF Again, Drop
  <2>4. CASE DeleteFailed(w) \/ DeleteCreated(w)
    BY <2>4, <1>3 DEF DeleteFailed, DeleteCreated
  <2> QED
    BY <1>4, <2>1, <2>2, <2>3, <2>4 DEF Step
<1> QED
  BY <1>0, <1>4
-----------------------------------------------------------------------------
\* The set-up holds the lock, where there is one, to its end.
SettingUp(w) ==
  pc[w] \in Creating /\ ~(pc[w] = "look" /\ phase[w] = "cleanup")

LockHeld == Locked => \A w \in Workers : SettingUp(w) => holder = w

\* What the worker remembers of the stack while it creates one.
Remembers(w) ==
  \/ pc[w] \in {"prepare", "create"}
  \/ pc[w] = "look" /\ phase[w] = "created" /\ cached[w]
  => stack[w] = NoStack

\* What an attempt that began by asking Heat may rely on.
Relies(w) ==
  asked[w] =>
    /\ pc[w] \in {"delete", "undo", "again"} => ~Alive
    /\ pc[w] \in {"prepare", "create"} => heat = NoStack
    /\ pc[w] = "look" =>
         /\ phase[w] # "existing"
         /\ phase[w] = "gone" => ~Alive
         /\ phase[w] = "created" => heat = NoStack \/ heat.id = newId[w]
    /\ pc[w] # "duplicate"

\* The step of a worker keeps what that worker remembers and relies on.
LEMMA OwnStep ==
  ASSUME Shapes, NEW w \in Workers, Step(w), Remembers(w)
  PROVE  Remembers(w)' /\ (Relies(w) => Relies(w)')
<1> USE DEF Shapes, IsStack, server, waiting, flags, Goto, Set, Creating,
            NoStack, Status, InProgress, Alive, Remembers, Relies, CIP, CC, CF, DIP, DC, DF
<1>1. CASE BeginTest(w)
  BY <1>1 DEF BeginTest
<1>2. CASE SkipSetUp(w)
  BY <1>2 DEF SkipSetUp
<1>3. CASE SetUp(w)
  BY <1>3 DEF SetUp, Wait, LockFree
<1>4. CASE LookAgain(w)
  BY <1>4 DEF LookAgain, Look, Stored, Seen
<1>5. CASE LookFirst(w)
  <2>1. /\ stack' = [stack EXCEPT ![w] = Seen(w)] /\ UNCHANGED <<heat, newId>>
        /\ asked' = [asked EXCEPT ![w] = ~cached[w] \/ stack[w] = NoStack]
    BY <1>5 DEF LookFirst, Look, Stored
  <2>2. asked'[w] => Seen(w) = heat
    BY <2>1 DEF Seen
  <2>3. CASE Seen(w) = NoStack /\ Goto(w, "prepare")
    BY <2>1, <2>2, <2>3
  <2>4. CASE Goto(w, "addme")
    BY <2>1, <2>4
  <2>5. CASE Status(Seen(w)) \in {CF, DF} /\ Goto(w, "delete")
    BY <2>1, <2>2, <2>5
  <2>6. CASE Status(Seen(w)) = DC /\ Wait(w, "gone")
    <3>1. pc'[w] = "look" /\ phase'[w] = "gone"
      BY <2>6 DEF Wait
    <3> QED
      BY <2>1, <2>2, <2>6, <3>1
  <2> QED
    BY <1>5, <2>3, <2>4, <2>5, <2>6 DEF LookFirst
<1>6. CASE LookCreated(w)
  BY <1>6 DEF LookCreated, Look, Stored, Seen
<1>7. CASE LookGone(w)
  BY <1>7 DEF LookGone, Look, Stored, Seen
<1>8. CASE LookInvalid(w)
  BY <1>8 DEF LookInvalid, Look, Stored, Seen, Expected
<1>9. CASE LookBroken(w)
  BY <1>9 DEF LookBroken, Look, Stored, Seen
<1>10. CASE DeleteFailed(w)
  BY <1>10 DEF DeleteFailed, Wait, DeleteId
<1>11. CASE Prepare(w)
  BY <1>11 DEF Prepare
<1>12. CASE Create(w)
  <2>1. pc' = [pc EXCEPT ![w] = "look"] /\ UNCHANGED <<stack, asked>>
    BY <1>12 DEF Create, Wait
  <2>2. stack[w] = NoStack /\ (Relies(w) => (asked[w] => heat = NoStack))
    BY <1>12 DEF Create
  <2>3. CASE heat = NoStack
    <3>1. /\ heat' = [id |-> FreshId, status |-> CIP]
          /\ newId' = [newId EXCEPT ![w] = FreshId]
          /\ phase' = [phase EXCEPT ![w] = "created"]
      BY <1>12, <2>3 DEF Create, Wait
    <3>2. heat'.id = newId'[w]
      BY <3>1
    <3>3. pc'[w] = "look" /\ phase'[w] = "created" /\ stack'[w] = NoStack
      BY <2>1, <2>2, <3>1
    <3> QED
      BY <3>2, <3>3
  <2>4. CASE heat # NoStack
    <3>1. phase'[w] = "existing" /\ pc'[w] = "look" /\ (Relies(w) => ~asked'[w])
      BY <1>12, <2>1, <2>2, <2>4 DEF Create, Wait
    <3> QED
      BY <3>1
  <2> QED
    BY <2>3, <2>4
<1>13. CASE DeleteCreated(w)
  BY <1>13 DEF DeleteCreated, DeleteId
<1>14. CASE Again(w)
  BY <1>14 DEF Again, Wait, DeleteNamed, NextAttempt
<1>15. CASE LastAttempt(w)
  BY <1>15 DEF LastAttempt
<1>16. CASE Addme(w)
  BY <1>16 DEF Addme
<1>17. CASE Unlock(w)
  BY <1>17 DEF Unlock
<1>18. CASE CleanUp(w)
  BY <1>18 DEF CleanUp
<1>19. CASE Removeme(w)
  BY <1>19 DEF Removeme
<1>20. CASE SkipCleanUp(w)
  BY <1>20 DEF SkipCleanUp
<1>21. CASE Drop(w)
  BY <1>21 DEF Drop, Wait, DeleteNamed
<1>22. CASE EndCleanUp(w)
  BY <1>22 DEF EndCleanUp
<1>23. CASE CleanUpFails(w)
  BY <1>23 DEF CleanUpFails, Look, Stored, Seen
<1>24. CASE EndTest(w)
  BY <1>24 DEF EndTest
<1> QED
  BY <1>1, <1>2, <1>3, <1>4, <1>5, <1>6, <1>7, <1>8, <1>9, <1>10, <1>11,
     <1>12, <1>13, <1>14, <1>15, <1>16, <1>17, <1>18, <1>19, <1>20, <1>21,
     <1>22, <1>23, <1>24 DEF Step

\* A worker takes the lock from nobody, and only its owner returns it.
LEMMA LockStep == Shapes /\ LockHeld /\ [Next]_vars => LockHeld'
<1> SUFFICES ASSUME Shapes, LockHeld, [Next]_vars, Locked,
                    NEW v \in Workers, SettingUp(v)'
             PROVE  holder' = v
  BY DEF LockHeld
<1>1. NoWorker \notin Workers
  BY HeatAssumption
<1>2. \A u \in Workers : SettingUp(u) => holder = u
  BY DEF LockHeld
<1>3. CASE UNCHANGED <<pc, phase, holder>>
  BY <1>2, <1>3 DEF SettingUp
<1>4. ASSUME NEW w \in Workers, Step(w) PROVE holder' = v
  <2> USE DEF Shapes, server, waiting, flags, Goto, Set, SettingUp, Creating
  <2>1. ASSUME holder' = holder, SettingUp(w)' => SettingUp(w) PROVE holder' = v
    <3>1. CASE v = w
      BY <1>2, <2>1, <3>1
    <3>2. CASE v # w
      <4>1. Local(v)' = Local(v)
        BY <1>4, <3>2, OthersKept
      <4> QED
        BY <1>2, <2>1, <4>1 DEF Local
    <3> QED
      BY <3>1, <3>2
  <2>2. CASE SetUp(w)
    <3>1. holder = NoWorker /\ holder' = w
      BY <2>2 DEF SetUp, LockFree
    <3>2. CASE v # w
      <4>1. Local(v)' = Local(v)
        BY <1>4, <3>2, OthersKept
      <4> QED
        BY <1>1, <1>2, <3>1, <4>1 DEF Local
    <3> QED
      BY <3>1, <3>2
  <2>3. CASE Unlock(w)
    <3>1. holder = w
      BY <1>2, <2>3 DEF Unlock
    <3>2. ~SettingUp(w)'
      BY <2>3 DEF Unlock
    <3>3. CASE v # w
      <4>1. Local(v)' = Local(v)
        BY <1>4, <3>3, OthersKept
      <4> QED
        BY <1>2, <3>1, <3>3, <4>1 DEF Local
    <3> QED
      BY <3>2, <3>3
  <2>4. CASE \/ BeginTest(w) \/ SkipSetUp(w) \/ CleanUp(w) \/ Removeme(w)
             \/ SkipCleanUp(w) \/ EndCleanUp(w) \/ EndTest(w)
    BY <2>1, <2>4 DEF BeginTest, SkipSetUp, CleanUp, Removeme, SkipCleanUp,
                      EndCleanUp, EndTest
  <2>5. CASE \/ DeleteFailed(w) \/ Prepare(w) \/ DeleteCreated(w) \/ Again(w)
             \/ LastAttempt(w) \/ Addme(w) \/ Drop(w)
    BY <2>1, <2>5 DEF DeleteFailed, Prepare, DeleteCreated, Again, LastAttempt,
                      Addme, Drop, Wait
  <2>6. CASE Create(w)
    <3>1. holder' = holder /\ SettingUp(w)
      BY <2>6 DEF Create
    <3> QED
      BY <2>1, <3>1
  <2>7. CASE LookFirst(w) \/ LookCreated(w) \/ LookInvalid(w) \/ LookBroken(w)
    <3>1. holder' = holder /\ SettingUp(w)
      BY <2>7 DEF LookFirst, LookCreated, LookInvalid, LookBroken, Look
    <3> QED
      BY <2>1, <3>1
  <2>8. CASE LookAgain(w) \/ LookGone(w) \/ CleanUpFails(w)
    <3>1. UNCHANGED holder
      BY <2>8 DEF LookAgain, LookGone, CleanUpFails, Look
    <3>2. SettingUp(w)' => SettingUp(w)
      BY <2>8 DEF LookAgain, LookGone, CleanUpFails, Look
    <3> QED
      BY <2>1, <3>1, <3>2
  <2> QED
    BY <1>4, <2>2, <2>3, <2>4, <2>5, <2>6, <2>7, <2>8 DEF Step
<1>5. CASE HeatStep \/ Finished \/ UNCHANGED vars
  BY <1>3, <1>5 DEF HeatStep, Finished, vars, server, waiting
<1> QED
  BY <1>4, <1>5 DEF Next
-----------------------------------------------------------------------------
\* The inductive invariants: without the lock, and with it.
RememberInv == Shapes /\ \A w \in Workers : Remembers(w)
ReliesInv == RememberInv /\ LockHeld /\ \A w \in Workers : Relies(w)

LEMMA InitInv == Init => ReliesInv
<1> SUFFICES ASSUME Init PROVE ReliesInv
  OBVIOUS
<1>1. IsStack(heat)
  BY DEF Init, IsStack, NoStack
<1>2. Shapes
  BY <1>1 DEF Init, Shapes, Control, IsStack, NoStack
<1>3. \A w \in Workers : Remembers(w) /\ ~SettingUp(w)
  BY DEF Init, Remembers, SettingUp, Creating
<1>4. \A w \in Workers : Relies(w)
  BY DEF Init, Relies
<1> QED
  BY <1>2, <1>3, <1>4 DEF ReliesInv, RememberInv, LockHeld

LEMMA RememberStep == RememberInv /\ [Next]_vars => RememberInv'
<1> SUFFICES ASSUME RememberInv, [Next]_vars PROVE RememberInv'
  OBVIOUS
<1>1. Shapes'
  BY ShapesStep DEF RememberInv
<1>2. ASSUME NEW v \in Workers PROVE Remembers(v)'
  <2>1. CASE Local(v)' = Local(v)
    BY <2>1 DEF Local, Remembers, RememberInv
  <2>2. ASSUME NEW w \in Workers, Step(w) PROVE Remembers(v)'
    <3>1. CASE v = w
      BY <2>2, <3>1, OwnStep DEF RememberInv
    <3> QED
      BY <2>1, <2>2, <3>1, OthersKept DEF RememberInv
  <2>3. CASE HeatStep \/ Finished \/ UNCHANGED vars
    BY <2>1, <2>3 DEF HeatStep, Finished, vars, waiting, Local
  <2> QED
    BY <2>2, <2>3 DEF Next
<1> QED
  BY <1>1, <1>2 DEF RememberInv

\* A worker that relies on what it saw is the one that holds the lock, so the
\* steps of the others, and of Heat, only let the stack go.
LEMMA ReliesStep == Locked /\ ReliesInv /\ [Next]_vars => ReliesInv'
<1> SUFFICES ASSUME Locked, ReliesInv, [Next]_vars PROVE ReliesInv'
  OBVIOUS
<1>1. RememberInv' /\ LockHeld'
  BY RememberStep, LockStep DEF ReliesInv, RememberInv
<1>2. ASSUME NEW v \in Workers PROVE Relies(v)'
  <2>1. ASSUME Local(v)' = Local(v), Calm PROVE Relies(v)'
    BY <2>1 DEF Local, Calm, Relies, ReliesInv, Alive
  <2>2. ASSUME NEW w \in Workers, Step(w) PROVE Relies(v)'
    <3>1. CASE v = w
      BY <2>2, <3>1, OwnStep DEF ReliesInv, RememberInv
    <3>2. CASE v # w /\ ~Create(w)
      BY <2>1, <2>2, <3>2, OthersKept, NoOtherCreates DEF ReliesInv, RememberInv
    <3>3. CASE v # w /\ Create(w)
      <4>1. holder = w
        BY <3>3 DEF ReliesInv, LockHeld, SettingUp, Creating, Create
      <4>2. ~SettingUp(v)
        BY <3>3, <4>1 DEF ReliesInv, LockHeld
      <4>3. Local(v)' = Local(v)
        BY <2>2, <3>3, OthersKept DEF ReliesInv, RememberInv
      <4> QED
        BY <4>2, <4>3 DEF Local, SettingUp, Creating, Relies
    <3> QED
      BY <3>1, <3>2, <3>3
  <2>3. CASE HeatStep
    <3>1. Local(v)' = Local(v)
      BY <2>3 DEF HeatStep, waiting, Local
    <3> QED
      BY <2>1, <2>3, <3>1, NoOtherCreates DEF ReliesInv, RememberInv
  <2>4. CASE Finished \/ UNCHANGED vars
    BY <2>4 DEF Finished, vars, server, waiting, ReliesInv, Relies, Alive
  <2> QED
    BY <2>2, <2>3, <2>4 DEF Next
<1> QED
  BY <1>1, <1>2 DEF ReliesInv
-----------------------------------------------------------------------------
\* When a worker gets to create the stack it remembers none, with the lock or
\* without, so the assertion of try_create_stack never fails.
THEOREM NothingIsRemembered == Spec => []NothingRemembered
<1>1. RememberInv => NothingRemembered
  BY DEF RememberInv, Remembers, NothingRemembered
<1> QED
  BY <1>1, InitInv, RememberStep, PTL DEF Spec, ReliesInv

\* Where set-ups take no lock, nobody owns it.
Unheld == holder = NoWorker

LEMMA NobodyHolds == ~Locked /\ Unheld /\ [Next]_vars => Unheld'
<1> SUFFICES ASSUME ~Locked, holder = NoWorker, [Next]_vars PROVE holder' = NoWorker
  BY DEF Unheld
<1> USE DEF server, waiting, flags
<1>1. ASSUME NEW w \in Workers, Step(w) PROVE holder' = NoWorker
  <2>1. CASE BeginTest(w) \/ SkipSetUp(w) \/ SetUp(w)
    BY <2>1 DEF BeginTest, SkipSetUp, SetUp
  <2>2. CASE LookAgain(w) \/ LookFirst(w) \/ LookCreated(w) \/ LookGone(w)
             \/ LookInvalid(w) \/ LookBroken(w)
    BY <2>2 DEF LookAgain, LookFirst, LookCreated, LookGone, LookInvalid, LookBroken, Look
  <2>3. CASE DeleteFailed(w) \/ Prepare(w) \/ Create(w) \/ DeleteCreated(w)
    BY <2>3 DEF DeleteFailed, Prepare, Create, DeleteCreated
  <2>4. CASE Again(w) \/ LastAttempt(w) \/ Addme(w) \/ Unlock(w)
    BY <2>4 DEF Again, LastAttempt, Addme, Unlock
  <2>5. CASE CleanUp(w) \/ Removeme(w) \/ SkipCleanUp(w) \/ Drop(w) \/ EndCleanUp(w)
             \/ CleanUpFails(w) \/ EndTest(w)
    BY <2>5 DEF CleanUp, Removeme, SkipCleanUp, Drop, EndCleanUp, CleanUpFails, EndTest,
       Look
  <2> QED
    BY <1>1, <2>1, <2>2, <2>3, <2>4, <2>5 DEF Step
<1> QED
  BY <1>1 DEF Next, HeatStep, Finished, vars

\* A set-up that holds the lock and that began by asking Heat deletes no stack
\* that is complete.
THEOREM CreationSparesTheComplete == Spec => CreationSparesComplete
<1> DEFINE Spares == \A w \in Workers : DeletesComplete(w) /\ holder = w => ~asked[w]
<1>1. ReliesInv /\ [Next]_vars => [Spares]_vars
  BY DEF ReliesInv, Relies, DeletesComplete, Alive
<1>2. Unheld => [Spares]_vars
  BY HeatAssumption DEF Unheld
<1>3. CASE Locked
  BY <1>1, <1>3, ReliesStep, InitInv, PTL DEF Spec, CreationSparesComplete
<1>4. CASE ~Locked
  <2>1. Init => Unheld
    BY DEF Init, Unheld
  <2> QED
    BY <1>2, <1>4, <2>1, NobodyHolds, PTL DEF Spec, CreationSparesComplete
<1> QED
  BY <1>3, <1>4
-----------------------------------------------------------------------------
(***************************************************************************)
(* The type invariant.                                                     *)
(***************************************************************************)
\* The image of the workers has no more elements than there are workers.
LEMMA NoMoreThanWorkers ==
  ASSUME NEW f, DOMAIN f = Workers
  PROVE  LET T == {f[w] : w \in Workers}
         IN  IsFiniteSet(T) /\ Cardinality(T) <= Cardinality(Workers)
<1> DEFINE T == {f[w] : w \in Workers}
           g == [w \in Workers |-> f[w]]
<1>1. g \in Surjection(Workers, T)
  BY DEF Surjection
<1>2. IsFiniteSet(Workers)
  BY HeatAssumption
<1> HIDE DEF T, g
<1>3. IsFiniteSet(T) /\ Cardinality(T) <= Cardinality(Workers)
  BY <1>1, <1>2, FS_Surjection
<1> QED
  BY <1>3 DEF T

\* A stack that is created gets an id that nobody remembers.
LEMMA FreshIdIsFresh ==
  ASSUME TypeOK, heat = NoStack
  PROVE  FreshId \in Ids \ UsedIds
<1> DEFINE N == Cardinality(Workers)
           seen == [w \in Workers |-> stack[w].id]
           A == {seen[w] : w \in Workers}
           B == {newId[w] : w \in Workers}
<1>1. N \in Nat
  BY HeatAssumption, FS_CardinalityType
<1>2. UsedIds \subseteq A \cup B
  BY DEF UsedIds, Known
<1>3. IsFiniteSet(A) /\ Cardinality(A) <= N /\ IsFiniteSet(B) /\ Cardinality(B) <= N
  <2>1. IsFiniteSet(A) /\ Cardinality(A) <= N
    <3> HIDE DEF seen
    <3>1. DOMAIN seen = Workers
      BY DEF seen
    <3> QED
      BY <3>1, NoMoreThanWorkers
  <2>2. DOMAIN newId = Workers
    BY DEF TypeOK
  <2> QED
    BY <2>1, <2>2, NoMoreThanWorkers
<1> HIDE DEF A, B
<1>4. IsFiniteSet(A \cup B) /\ Cardinality(A \cup B) <= N + N
  <2>1. /\ IsFiniteSet(A \cup B) /\ IsFiniteSet(A \cap B)
        /\ Cardinality(A \cup B) = Cardinality(A) + Cardinality(B) - Cardinality(A \cap B)
    BY <1>3, FS_Union, FS_Subset
  <2>2. Cardinality(A) \in Nat /\ Cardinality(B) \in Nat /\ Cardinality(A \cap B) \in Nat
    BY <1>3, <2>1, FS_CardinalityType
  <2> QED
    BY <1>1, <1>3, <2>1, <2>2
<1>5. IsFiniteSet(Ids) /\ Cardinality(Ids) = N + N + 2
  <2> DEFINE last == 2 * N + 2
  <2>1. last \in Int /\ 1 \in Int /\ ~(1 > last) /\ last - 1 + 1 = N + N + 2
    BY <1>1
  <2> HIDE DEF last
  <2>2. IsFiniteSet(1 .. last) /\ Cardinality(1 .. last) = last - 1 + 1
    BY <2>1, FS_Interval
  <2> QED
    BY <2>1, <2>2 DEF Ids, last
<1>6. Ids \ UsedIds # {}
  <2>1. SUFFICES ASSUME Ids \subseteq UsedIds PROVE FALSE
    OBVIOUS
  <2>2. Ids \in SUBSET (A \cup B)
    BY <1>2, <2>1
  <2>3. Cardinality(Ids) <= Cardinality(A \cup B)
    BY <1>4, <2>2, FS_Subset
  <2>4. Cardinality(A \cup B) \in Nat
    BY <1>4, FS_CardinalityType
  <2> HIDE DEF N
  <2> QED
    BY <1>1, <1>4, <1>5, <2>3, <2>4
<1>7. Ids \ UsedIds \subseteq Nat
  BY DEF Ids
<1>8. PICK n \in Ids \ UsedIds : \A m \in Ids \ UsedIds : ~(<<m, n>> \in OpToRel(<, Nat))
  <2> HIDE DEF Ids, UsedIds
  <2> QED
    BY <1>6, <1>7, WFMin, NatLessThanWellFounded
<1>9. \A m \in Ids \ UsedIds : n <= m
  <2> SUFFICES ASSUME NEW m \in Ids \ UsedIds, m < n PROVE FALSE
    BY <1>7
  <2>1. <<m, n>> \in OpToRel(<, Nat)
    BY <1>7 DEF OpToRel
  <2> QED
    BY <1>8, <2>1
<1> QED
  BY <1>9 DEF FreshId

\* The shapes are part of the type invariant.
LEMMA WellShaped == TypeOK => Shapes
  BY DEF TypeOK, Shapes, Stack, NoStack, IsStack

\* What a worker sees is a stack that is there, or none.
LEMMA SeenIsStack ==
  ASSUME TypeOK, NEW w \in Workers
  PROVE  Seen(w) \in Stack
  BY DEF TypeOK, Seen

\* The part of the type invariant that the shapes leave open.
Typed ==
  /\ heat \in Stack
  /\ users \in SUBSET Workers
  /\ holder \in Workers \cup {NoWorker}
  /\ stack \in [Workers -> Stack]
  /\ newId \in [Workers -> Ids \cup {0}]

Counted ==
  /\ attempt \in [Workers -> 0 .. RetryCount]
  /\ tests \in [Workers -> 0 .. MaxTests]

Flagged ==
  /\ setupDone \in [Workers -> BOOLEAN]
  /\ cleanupDone \in [Workers -> BOOLEAN]
  /\ failing \in [Workers -> BOOLEAN]

\* A change of status.
LEMMA HeatKeepsStack ==
  ASSUME heat \in Stack, NEW s \in {CIP, CC, CF, DIP, DC, DF}, heat # NoStack
  PROVE  [heat EXCEPT !.status = s] \in Stack
  BY DEF Stack

\* A stack that is deleted is gone, or being deleted.
LEMMA Deletes ==
  ASSUME heat \in Stack, DeleteNamed \/ \E i : DeleteId(i)
  PROVE  heat' \in Stack
  BY HeatKeepsStack DEF DeleteNamed, DeleteId, Status, DIP, DC

LEMMA TypedStep == TypeOK /\ [Next]_vars => Typed'
<1> SUFFICES ASSUME TypeOK, [Next]_vars PROVE Typed'
  OBVIOUS
<1> USE DEF TypeOK, Typed, server, waiting, Set
<1>1. NoStack \in Stack
  BY DEF Stack
<1>2. ASSUME NEW w \in Workers,
             \/ LookAgain(w) \/ LookFirst(w) \/ LookCreated(w) \/ LookGone(w) \/ LookInvalid(w)
             \/ LookBroken(w) \/ CleanUpFails(w)
      PROVE  Typed'
  <2>1. Look(w)
    BY <1>2 DEF LookAgain, LookFirst, LookCreated, LookGone, LookInvalid, LookBroken,
       CleanUpFails
  <2> QED
    BY <2>1, SeenIsStack DEF Look, Stored
<1>3. ASSUME NEW w \in Workers, DeleteFailed(w) \/ DeleteCreated(w) \/ Again(w) \/ Drop(w)
      PROVE  Typed'
  <2>1. heat' \in Stack
    BY <1>3, Deletes DEF DeleteFailed, DeleteCreated, Again, Drop
  <2> QED
    BY <1>1, <1>3, <2>1 DEF DeleteFailed, DeleteCreated, Again, Drop
<1>4. ASSUME NEW w \in Workers, Create(w) PROVE Typed'
  <2>1. CASE heat = NoStack
    <3>1. FreshId \in Ids
      BY <2>1, FreshIdIsFresh
    <3>2. heat' = [id |-> FreshId, status |-> CIP] /\ newId' = [newId EXCEPT ![w] = FreshId]
      BY <1>4, <2>1 DEF Create
    <3>3. heat' \in Stack
      BY <3>1, <3>2 DEF Stack
    <3> QED
      BY <1>4, <3>1, <3>2, <3>3 DEF Create
  <2>2. CASE heat # NoStack
    BY <1>4, <2>2 DEF Create
  <2> QED
    BY <2>1, <2>2
<1>5. ASSUME NEW w \in Workers,
             \/ BeginTest(w) \/ SkipSetUp(w) \/ SetUp(w) \/ Prepare(w) \/ LastAttempt(w) \/ Addme(w)
             \/ Unlock(w) \/ CleanUp(w) \/ Removeme(w) \/ SkipCleanUp(w) \/ EndCleanUp(w) \/ EndTest(w)
      PROVE  Typed'
  BY <1>5 DEF BeginTest, SkipSetUp, SetUp, Prepare, LastAttempt, Addme, Unlock, CleanUp,
     Removeme,
     SkipCleanUp, EndCleanUp, EndTest
<1>6. CASE HeatStep
  <2>1. heat' \in Stack
    BY <1>1, <1>6, HeatKeepsStack DEF HeatStep
  <2> QED
    BY <1>6, <2>1 DEF HeatStep
<1>7. CASE Finished \/ UNCHANGED vars
  BY <1>7 DEF Finished, vars
<1> QED
  BY <1>2, <1>3, <1>4, <1>5, <1>6, <1>7 DEF Next, Step

LEMMA CountedStep == TypeOK /\ [Next]_vars => Counted'
<1> SUFFICES ASSUME TypeOK, [Next]_vars PROVE Counted'
  OBVIOUS
<1> USE HeatAssumption DEF TypeOK, Counted, waiting, flags, Set
<1>1. CASE UNCHANGED <<attempt, tests>>
  BY <1>1
<1>2. ASSUME NEW w \in Workers, NEW n \in 0 .. RetryCount, attempt' = [attempt EXCEPT ![w] = n], tests' = tests
      PROVE  Counted'
  BY <1>2
<1>3. ASSUME NEW w \in Workers, BeginTest(w) PROVE Counted'
  <2>1. tests[w] + 1 \in 0 .. MaxTests
    BY <1>3 DEF BeginTest
  <2> QED
    BY <1>3, <2>1 DEF BeginTest
<1>4. ASSUME NEW w \in Workers, SetUp(w) \/ Again(w) \/ Unlock(w) PROVE Counted'
  <2>1. 0 \in 0 .. RetryCount /\ 1 \in 0 .. RetryCount
    OBVIOUS
  <2>2. Again(w) => attempt[w] + 1 \in 0 .. RetryCount
    BY DEF Again, MoreAttempts
  <2> QED
    BY <1>2, <1>4, <2>1, <2>2 DEF SetUp, Again, Unlock, NextAttempt
<1>5. ASSUME NEW w \in Workers, Step(w), ~(BeginTest(w) \/ SetUp(w) \/ Again(w) \/ Unlock(w))
      PROVE  UNCHANGED <<attempt, tests>>
  BY <1>5 DEF Step, SkipSetUp, LookAgain, LookFirst, LookCreated, LookGone, LookInvalid,
     LookBroken,
     CleanUpFails, Look, DeleteFailed, Prepare, Create, DeleteCreated, LastAttempt, Addme, CleanUp,
     Removeme, SkipCleanUp, Drop, EndCleanUp, EndTest
<1>6. CASE HeatStep \/ Finished \/ UNCHANGED vars
  BY <1>1, <1>6 DEF HeatStep, Finished, vars
<1> QED
  BY <1>1, <1>3, <1>4, <1>5, <1>6 DEF Next

LEMMA FlaggedStep == TypeOK /\ [Next]_vars => Flagged'
<1> SUFFICES ASSUME TypeOK, [Next]_vars PROVE Flagged'
  OBVIOUS
<1> USE DEF TypeOK, Flagged, flags, Set
<1>1. ASSUME NEW w \in Workers, Unlock(w) \/ EndCleanUp(w) PROVE Flagged'
  BY <1>1 DEF Unlock, EndCleanUp
<1>2. ASSUME NEW w \in Workers, CleanUpFails(w) PROVE Flagged'
  <2>1. (setupDone[w] /\ ~failing[w]) \in BOOLEAN /\ (cleanupDone[w] \/ failing[w]) \in BOOLEAN
    OBVIOUS
  <2> QED
    BY <1>2, <2>1 DEF CleanUpFails
<1>3. ASSUME NEW w \in Workers, Step(w), ~(Unlock(w) \/ EndCleanUp(w) \/ CleanUpFails(w))
      PROVE  UNCHANGED flags
  BY <1>3 DEF Step, BeginTest, SkipSetUp, SetUp, LookAgain, LookFirst, LookCreated,
     LookGone, LookInvalid,
     LookBroken, DeleteFailed, Prepare, Create, DeleteCreated, Again, LastAttempt, Addme, CleanUp,
     Removeme, SkipCleanUp, Drop, EndTest
<1>4. CASE HeatStep \/ Finished \/ UNCHANGED vars
  BY <1>4 DEF HeatStep, Finished, vars
<1> QED
  BY <1>1, <1>2, <1>3, <1>4 DEF Next

\* The state is well formed.  There are enough ids for any order of creations: no
\* stack that anybody remembers is taken for a new one (create_stack).
THEOREM HeatTyped == Spec => []TypeOK
<1>1. Init => TypeOK
  <2> SUFFICES ASSUME Init PROVE TypeOK
    OBVIOUS
  <2>1. Cardinality(Workers) \in Nat
    BY HeatAssumption, FS_CardinalityType
  <2>2. 1 \in Ids /\ 0 \in 0 .. RetryCount /\ 0 \in 0 .. MaxTests
    BY <2>1, HeatAssumption DEF Ids
  <2>3. heat \in Stack
    BY <2>2 DEF Init, Stack
  <2> QED
    BY <2>2, <2>3 DEF Init, TypeOK, Control, Stack
<1>2. TypeOK /\ [Next]_vars => TypeOK'
  <2> SUFFICES ASSUME TypeOK, [Next]_vars PROVE TypeOK'
    OBVIOUS
  <2>1. Shapes'
    BY WellShaped, ShapesStep
  <2>2. Typed' /\ Counted' /\ Flagged'
    BY TypedStep, CountedStep, FlaggedStep
  <2> QED
    BY <2>1, <2>2 DEF TypeOK, Shapes, Typed, Counted, Flagged
<1> QED
  BY <1>1, <1>2, PTL DEF Spec
=============================================================================
