---------------------------- MODULE CloudProofs -----------------------------
(***************************************************************************)
(* Proofs about what tobiko asks of the clouds it tests: Servers, Images   *)
(* and LoadBalancers, for any number of workers, calls, images and parts,  *)
(* and any failures of the services; and about the machines of MCWaits     *)
(* together, which take over what is proved of each.                       *)
(***************************************************************************)
EXTENDS MCWaits, WaitsProofs

LOCAL INSTANCE FiniteSetsExt

(***************************************************************************)
(* The server of a fixture (Servers).                                      *)
(***************************************************************************)
\* Who creates the server, or waits for it to boot, owns the lock, and who creates
\* it finds none.  Cleaning up is the end of a set-up that has failed, or done for
\* a call that ensures a status.
InSetup == {"find", "create", "build", "addme", "boot", "reach"}
InCleanup == {"removeme", "delete", "gone"}

LockInv ==
  \A u \in Users :
    /\ point[u] \in InSetup => holder = u
    /\ point[u] \in InSetup \cup {"unwind"} => u \notin prepared
    /\ point[u] = "create" => server = 0
    /\ point[u] \in InCleanup /\ u \in prepared => op[u] \in Ensuring

\* Those that are registered while a worker is about to delete the stack have
\* come since it counted them.
LateInv == \A u \in Users : point[u] = "delete" => users \subseteq late[u]

\* What Nova shows of a server while it is busy with it.
ShownWhile(t) ==
  CASE t = "build" -> {"BUILD"}
    [] t = "stop" -> {"ACTIVE"}
    [] t = "start" -> {"SHUTOFF"}
    [] t = "confirm" -> {"VERIFY_RESIZE"}
    [] t = "reboot" -> {"REBOOT"}
    [] t = "migrate" -> {"RESIZE"}
    [] t = "live" -> {"MIGRATING"}
    [] t = "hard" -> {"HARD_REBOOT", "ERROR", "SHUTOFF"}

NovaShows == task # "none" => status \in ShownWhile(task)

\* What a call may ask for, and the status it then waits for.
MayAsk(o) ==
  CASE o \in {"shutoff", "ensure_shutoff"} -> {"stop"}
    [] o = "reboot" -> {"start", "reboot"}
    [] o \in {"activate", "ensure_active"} -> {"start", "confirm", "hard"}
    [] o \in {"migrate", "live"} -> {"start", "confirm", "hard", o}

WantOf(r) ==
  CASE r = "stop" -> "SHUTOFF" [] r \in {"migrate", "none"} -> "VERIFY_RESIZE" [] OTHER -> "ACTIVE"

Sees(u) == point[u] \in {"look", "ask", "wait"}

Requested ==
  \A u \in Users :
    /\ u \in Busy => op[u] \in Operations
    /\ want[u] \in {"ACTIVE", "SHUTOFF", "VERIFY_RESIZE"}
    /\ point[u] \in {"ask", "wait"} =>
         /\ request[u] \in MayAsk(op[u]) \cup {"none"}
         /\ ShuttingOff(u) <=> want[u] = "SHUTOFF"
         /\ request[u] # "none" => want[u] = WantOf(request[u])
    /\ point[u] \in {"ask", "wait"} /\ want[u] = "VERIFY_RESIZE" => Activating(u)
    /\ point[u] = "ask" => request[u] # "none"

\* A call that nothing disturbs is alone, and what Nova does is done for it.
Lone(u) ==
  u \in Busy \ disturbed =>
    /\ \A v \in Busy : v = u
    /\ task \in {"none", "build"} \cup MayAsk(op[u])
    /\ task = "build" => point[u] = "build"
    /\ op[u] \notin Ensuring /\ point[u] \notin {"ask", "wait"} => task \in {"none", "build"}

Steady == Complete(StackNow) /\ task = "none" /\ status \in {"ACTIVE", "SHUTOFF"}

\* It finds the server fit and leaves it so.
Calm(u) ==
  u \in Busy \ (disturbed \cup odd) =>
    /\ point[u] \notin InCleanup \cup {"unwind"}
    /\ point[u] \in {"setup", "find"} => task = "none" /\ Fit(u)
    /\ point[u] = "build" =>
         \/ task = "build" /\ server \notin broken
         \/ task = "none" /\ Complete(StackNow) /\ status = "ACTIVE"
    /\ point[u] \in {"addme", "boot", "reach"} =>
         task = "none" /\ Complete(StackNow) /\ status = "ACTIVE"
    /\ Sees(u) => Known(u)
    /\ point[u] = "look" => Steady
    /\ point[u] \in {"ask", "wait"} =>
         /\ request[u] \notin {"none", "hard"}
         /\ request[u] \in {"migrate", "live", "confirm"} => activated[u]
    /\ point[u] = "ask" => Takes(request[u])
    /\ point[u] = "wait" => \/ task = request[u]
                            \/ task = "none" /\ status = want[u]

\* All of them are inductive together.
SrvInv ==
  /\ ServersTypeOK
  /\ LockInv
  /\ LateInv
  /\ NovaShows
  /\ Requested
  /\ \A u \in Users : Lone(u)
  /\ \A u \in Users : Calm(u)
  /\ UndisturbedSucceeds

\* The lock and the clean-ups.
LEMMA LockStep == SrvInv /\ ServersNext => LockInv'
<1> SUFFICES ASSUME SrvInv, ServersNext PROVE LockInv'
  OBVIOUS
<1> USE ServersAssumption DEF SrvInv, ServersTypeOK, nova, fixture, asking, counts, told, Move,
   LockInv, InSetup, InCleanup, Ensuring, Busy
<1>1. CASE NovaCompletes
  BY <1>1 DEF NovaCompletes
<1>2. CASE NovaFails
  BY <1>2 DEF NovaFails
<1>3. ASSUME NEW w \in Users, NEW o \in Operations, Begin(w, o) PROVE LockInv'
  BY <1>3 DEF Begin
<1>4. ASSUME NEW w \in Users, EndTest(w) PROVE LockInv'
  BY <1>4 DEF EndTest
<1>5. ASSUME NEW w \in Users, GetServerId(w) PROVE LockInv'
  BY <1>5 DEF GetServerId, Remember, StackNow
<1>6. ASSUME NEW w \in Users, NoServerId(w) PROVE LockInv'
  BY <1>6 DEF NoServerId, Remember, StackNow
<1>7. ASSUME NEW w \in Users, Setup(w) PROVE LockInv'
  BY <1>7 DEF Setup
<1>8. ASSUME NEW w \in Users, FindStack(w) PROVE LockInv'
  BY <1>8 DEF FindStack, StackCreated, Remember, Taken, StackNow, Complete, Unfinished
<1>9. ASSUME NEW w \in Users, FindFailed(w) PROVE LockInv'
  BY <1>9 DEF FindFailed, MakeFails, DeleteNamed, Remember, Leave
<1>10. ASSUME NEW w \in Users, Create(w) PROVE LockInv'
  BY <1>10 DEF Create
<1>11. ASSUME NEW w \in Users, Built(w) PROVE LockInv'
  BY <1>11 DEF Built, StackCreated, Remember, StackNow, Complete
<1>12. ASSUME NEW w \in Users, BuildFails(w) PROVE LockInv'
  BY <1>12 DEF BuildFails, MakeFails, DeleteNamed, Remember, Leave
<1>13. ASSUME NEW w \in Users, Register(w) PROVE LockInv'
  BY <1>13 DEF Register
<1>14. ASSUME NEW w \in Users, Booted(w) PROVE LockInv'
  BY <1>14 DEF Booted, Ready, Remember, Leave, StackNow
<1>15. ASSUME NEW w \in Users, BootStuck(w) PROVE LockInv'
  BY <1>15 DEF BootStuck, DeleteNamed, Remember, Leave
<1>16. ASSUME NEW w \in Users, Answers(w) PROVE LockInv'
  BY <1>16 DEF Answers, Ready, Remember, Leave, StackNow
<1>17. ASSUME NEW w \in Users, SetupFails(w) PROVE LockInv'
  BY <1>17 DEF SetupFails, Leave
<1>18. ASSUME NEW w \in Users, Unwind(w) PROVE LockInv'
  BY <1>18 DEF Unwind, Remember, StackNow
<1>19. ASSUME NEW w \in Users, Removeme(w) PROVE LockInv'
  BY <1>19 DEF Removeme, CleanedUp, LastUser
<1>20. ASSUME NEW w \in Users, DeleteStack(w) PROVE LockInv'
  BY <1>20 DEF DeleteStack, DeleteNamed, Remember
<1>21. ASSUME NEW w \in Users, WaitUntilDeleted(w) PROVE LockInv'
  BY <1>21 DEF WaitUntilDeleted, CleanedUp, Remember, StackNow
<1>22. ASSUME NEW w \in Users, LookAtServer(w) PROVE LockInv'
  BY <1>22 DEF LookAtServer, Decide, Achieved, Intend
<1>23. ASSUME NEW w \in Users, Ask(w) PROVE LockInv'
  BY <1>23 DEF Ask
<1>24. ASSUME NEW w \in Users, Refused(w) PROVE LockInv'
  BY <1>24 DEF Refused
<1>25. ASSUME NEW w \in Users, Reached(w) PROVE LockInv'
  BY <1>25 DEF Reached, Achieved, Intend, MustConfirm
<1>26. ASSUME NEW w \in Users, Unexpected(w) PROVE LockInv'
  BY <1>26 DEF Unexpected, WaitFails
<1>27. ASSUME NEW w \in Users, TimedOut(w) PROVE LockInv'
  BY <1>27 DEF TimedOut, WaitFails
<1> QED
  BY <1>1, <1>2, <1>3, <1>4, <1>5, <1>6, <1>7, <1>8, <1>9, <1>10, <1>11, <1>12, <1>13, <1>14,
     <1>15, <1>16, <1>17, <1>18, <1>19, <1>20, <1>21, <1>22, <1>23, <1>24, <1>25, <1>26, <1>27
     DEF ServersNext, UserStep, SetupStep, CleanupStep, CallStep

\* Who counted the users and found none has seen all who register since.
LEMMA LateStep == SrvInv /\ ServersNext => LateInv'
<1> SUFFICES ASSUME SrvInv, ServersNext PROVE LateInv'
  OBVIOUS
<1> USE ServersAssumption DEF SrvInv, ServersTypeOK, nova, fixture, asking, counts, told, Move,
   LateInv, LockInv, InSetup
<1>1. CASE NovaCompletes
  BY <1>1 DEF NovaCompletes
<1>2. CASE NovaFails
  BY <1>2 DEF NovaFails
<1>3. ASSUME NEW w \in Users, NEW o \in Operations, Begin(w, o) PROVE LateInv'
  BY <1>3 DEF Begin
<1>4. ASSUME NEW w \in Users, EndTest(w) PROVE LateInv'
  BY <1>4 DEF EndTest
<1>5. ASSUME NEW w \in Users, GetServerId(w) PROVE LateInv'
  BY <1>5 DEF GetServerId, Remember, StackNow
<1>6. ASSUME NEW w \in Users, NoServerId(w) PROVE LateInv'
  BY <1>6 DEF NoServerId, Remember, StackNow
<1>7. ASSUME NEW w \in Users, Setup(w) PROVE LateInv'
  BY <1>7 DEF Setup
<1>8. ASSUME NEW w \in Users, FindStack(w) PROVE LateInv'
  BY <1>8 DEF FindStack, StackCreated, Remember, Taken, StackNow, Complete, Unfinished
<1>9. ASSUME NEW w \in Users, FindFailed(w) PROVE LateInv'
  BY <1>9 DEF FindFailed, MakeFails, DeleteNamed, Remember, Leave
<1>10. ASSUME NEW w \in Users, Create(w) PROVE LateInv'
  BY <1>10 DEF Create
<1>11. ASSUME NEW w \in Users, Built(w) PROVE LateInv'
  BY <1>11 DEF Built, StackCreated, Remember, StackNow, Complete
<1>12. ASSUME NEW w \in Users, BuildFails(w) PROVE LateInv'
  BY <1>12 DEF BuildFails, MakeFails, DeleteNamed, Remember, Leave
<1>13. ASSUME NEW w \in Users, Register(w) PROVE LateInv'
  BY <1>13 DEF Register
<1>14. ASSUME NEW w \in Users, Booted(w) PROVE LateInv'
  BY <1>14 DEF Booted, Ready, Remember, Leave, StackNow
<1>15. ASSUME NEW w \in Users, BootStuck(w) PROVE LateInv'
  BY <1>15 DEF BootStuck, DeleteNamed, Remember, Leave
<1>16. ASSUME NEW w \in Users, Answers(w) PROVE LateInv'
  BY <1>16 DEF Answers, Ready, Remember, Leave, StackNow
<1>17. ASSUME NEW w \in Users, SetupFails(w) PROVE LateInv'
  BY <1>17 DEF SetupFails, Leave
<1>18. ASSUME NEW w \in Users, Unwind(w) PROVE LateInv'
  BY <1>18 DEF Unwind, Remember, StackNow
<1>19. ASSUME NEW w \in Users, Removeme(w) PROVE LateInv'
  BY <1>19 DEF Removeme, CleanedUp, LastUser
<1>20. ASSUME NEW w \in Users, DeleteStack(w) PROVE LateInv'
  BY <1>20 DEF DeleteStack, DeleteNamed, Remember
<1>21. ASSUME NEW w \in Users, WaitUntilDeleted(w) PROVE LateInv'
  BY <1>21 DEF WaitUntilDeleted, CleanedUp, Remember, StackNow
<1>22. ASSUME NEW w \in Users, LookAtServer(w) PROVE LateInv'
  BY <1>22 DEF LookAtServer, Decide, Achieved, Intend
<1>23. ASSUME NEW w \in Users, Ask(w) PROVE LateInv'
  BY <1>23 DEF Ask
<1>24. ASSUME NEW w \in Users, Refused(w) PROVE LateInv'
  BY <1>24 DEF Refused
<1>25. ASSUME NEW w \in Users, Reached(w) PROVE LateInv'
  BY <1>25 DEF Reached, Achieved, Intend, MustConfirm
<1>26. ASSUME NEW w \in Users, Unexpected(w) PROVE LateInv'
  BY <1>26 DEF Unexpected, WaitFails
<1>27. ASSUME NEW w \in Users, TimedOut(w) PROVE LateInv'
  BY <1>27 DEF TimedOut, WaitFails
<1> QED
  BY <1>1, <1>2, <1>3, <1>4, <1>5, <1>6, <1>7, <1>8, <1>9, <1>10, <1>11, <1>12, <1>13, <1>14,
     <1>15, <1>16, <1>17, <1>18, <1>19, <1>20, <1>21, <1>22, <1>23, <1>24, <1>25, <1>26, <1>27
     DEF ServersNext, UserStep, SetupStep, CleanupStep, CallStep

\* What a call does once it has looked at the server: the end of ensure_server_status,
\* or a request and the status it then waits for.
LEMMA LookDecides ==
  ASSUME SrvInv, NEW w \in Users, LookAtServer(w)
  PROVE  /\ \/ Move(w, "ok") /\ UNCHANGED <<request, want>>
            \/ \E r \in Requests \cup {"none"}, t \in Statuses : Intend(w, r, t)
         /\ activated' = activated \/ activated' = [activated EXCEPT ![w] = TRUE]
<1> USE ServersAssumption DEF Requests, Statuses
<1>1. op[w] \in {"migrate", "live"} => op[w] \in Requests
  OBVIOUS
<1>2. ASSUME Achieved(w)
      PROVE  /\ \/ Move(w, "ok") /\ UNCHANGED <<request, want>>
                \/ \E r \in Requests \cup {"none"}, t \in Statuses : Intend(w, r, t)
             /\ activated' = [activated EXCEPT ![w] = TRUE]
  BY <1>1, <1>2 DEF Achieved
<1> QED
  BY <1>2 DEF LookAtServer, Decide

\* What LookAtServer and Reached change.
LEMMA ServersTypeParts ==
  ASSUME ServersTypeOK, UNCHANGED <<nova, fixture, seen, op, id, counts, told>>,
         activated' \in [Users -> BOOLEAN], request' \in [Users -> Requests \cup {"none"}],
         want' \in [Users -> Statuses], point' \in [Users -> Points]
  PROVE  ServersTypeOK'
  BY DEF ServersTypeOK, nova, fixture, counts, told

\* Types.
LEMMA ServersTypeStep == SrvInv /\ ServersNext => ServersTypeOK'
<1> SUFFICES ASSUME SrvInv, ServersNext PROVE ServersTypeOK'
  OBVIOUS
<1> USE ServersAssumption DEF SrvInv, ServersTypeOK, nova, fixture, asking, counts, told, Move,
   Statuses, Requests, Points, Ensuring, Nobody, Unfinished
<1>1. CASE NovaCompletes
  BY <1>1 DEF NovaCompletes, Outcome
<1>2. CASE NovaFails
  <2>1. faults' \in 0 .. MaxFaults
    BY <1>2 DEF NovaFails
  <2>2. broken' \subseteq 1 .. created
    BY <1>2 DEF NovaFails
  <2> QED
    BY <1>2, <2>1, <2>2 DEF NovaFails, Busy
<1>3. ASSUME NEW w \in Users, NEW o \in Operations, Begin(w, o) PROVE ServersTypeOK'
  <2>1. calls' \in 0 .. MaxCalls
    BY <1>3 DEF Begin
  <2> QED
    BY <1>3, <2>1 DEF Begin, Busy
<1>4. ASSUME NEW w \in Users, EndTest(w) PROVE ServersTypeOK'
  BY <1>4 DEF EndTest
<1>5. ASSUME NEW w \in Users, GetServerId(w) PROVE ServersTypeOK'
  BY <1>5 DEF GetServerId, Remember, StackNow
<1>6. ASSUME NEW w \in Users, NoServerId(w) PROVE ServersTypeOK'
  BY <1>6 DEF NoServerId, Remember, StackNow
<1>7. ASSUME NEW w \in Users, Setup(w) PROVE ServersTypeOK'
  BY <1>7 DEF Setup
<1>8. ASSUME NEW w \in Users, FindStack(w) PROVE ServersTypeOK'
  BY <1>8 DEF FindStack, StackCreated, Remember, Taken, StackNow, Complete, Unfinished
<1>9. ASSUME NEW w \in Users, FindFailed(w) PROVE ServersTypeOK'
  <2>1. makes' \in [Users -> 1 .. MaxMakes]
    BY <1>9 DEF FindFailed, MakeFails
  <2>2. /\ server' = 0 /\ task' = "none" /\ seen' \in [Users -> {Unfinished} \cup 0 .. MaxServers]
        /\ point' \in [Users -> Points] /\ holder' \in Users \cup {Nobody}
    BY <1>9 DEF FindFailed, MakeFails, DeleteNamed, Remember, Leave
  <2>3. UNCHANGED <<status, stuck, created, broken, floating, users, prepared, cleaned, op, asking,
                    tries, boots, calls, faults, told>>
    BY <1>9 DEF FindFailed, MakeFails
  <2> QED
    BY <2>1, <2>2, <2>3
<1>10. ASSUME NEW w \in Users, Create(w) PROVE ServersTypeOK'
  <2>1. /\ created' \in 0 .. MaxServers /\ server' \in 0 .. created' /\ server' # 0
        /\ 1 .. created \subseteq 1 .. created'
    BY <1>10 DEF Create
  <2> QED
    BY <1>10, <2>1 DEF Create
<1>11. ASSUME NEW w \in Users, Built(w) PROVE ServersTypeOK'
  BY <1>11 DEF Built, StackCreated, Remember, StackNow, Complete
<1>12. ASSUME NEW w \in Users, BuildFails(w) PROVE ServersTypeOK'
  BY <1>12 DEF BuildFails, MakeFails, DeleteNamed, Remember, Leave
<1>13. ASSUME NEW w \in Users, Register(w) PROVE ServersTypeOK'
  BY <1>13 DEF Register
<1>14. ASSUME NEW w \in Users, Booted(w) PROVE ServersTypeOK'
  BY <1>14 DEF Booted, Ready, Remember, Leave, StackNow
<1>15. ASSUME NEW w \in Users, BootStuck(w) PROVE ServersTypeOK'
  BY <1>15 DEF BootStuck, DeleteNamed, Remember, Leave
<1>16. ASSUME NEW w \in Users, Answers(w) PROVE ServersTypeOK'
  BY <1>16 DEF Answers, Ready, Remember, Leave, StackNow
<1>17. ASSUME NEW w \in Users, SetupFails(w) PROVE ServersTypeOK'
  BY <1>17 DEF SetupFails, Leave
<1>18. ASSUME NEW w \in Users, Unwind(w) PROVE ServersTypeOK'
  BY <1>18 DEF Unwind, Remember, StackNow
<1>19. ASSUME NEW w \in Users, Removeme(w) PROVE ServersTypeOK'
  BY <1>19 DEF Removeme, CleanedUp, LastUser
<1>20. ASSUME NEW w \in Users, DeleteStack(w) PROVE ServersTypeOK'
  BY <1>20 DEF DeleteStack, DeleteNamed, Remember
<1>21. ASSUME NEW w \in Users, WaitUntilDeleted(w) PROVE ServersTypeOK'
  BY <1>21 DEF WaitUntilDeleted, CleanedUp, Remember, StackNow
<1>22. ASSUME NEW w \in Users, LookAtServer(w) PROVE ServersTypeOK'
  <2>1. activated' \in [Users -> BOOLEAN]
    BY <1>22, LookDecides
  <2>2. \/ Move(w, "ok") /\ UNCHANGED <<request, want>>
        \/ \E r \in Requests \cup {"none"}, t \in Statuses : Intend(w, r, t)
    BY <1>22, LookDecides
  <2>3. /\ request' \in [Users -> Requests \cup {"none"}] /\ want' \in [Users -> Statuses]
        /\ point' \in [Users -> Points]
    BY <2>2 DEF Intend, Points
  <2> QED
    BY <1>22, <2>1, <2>3, ServersTypeParts DEF LookAtServer
<1>23. ASSUME NEW w \in Users, Ask(w) PROVE ServersTypeOK'
  <2>1. status' \in Statuses
    BY <1>23 DEF Ask, Shown
  <2>2. task' \in Requests \cup {"none"} /\ server # 0
    BY <1>23 DEF Ask, Known
  <2> QED
    BY <1>23, <2>1, <2>2 DEF Ask
<1>24. ASSUME NEW w \in Users, Refused(w) PROVE ServersTypeOK'
  BY <1>24 DEF Refused
<1>25. ASSUME NEW w \in Users, Reached(w) PROVE ServersTypeOK'
  <2>1. activated' \in [Users -> BOOLEAN]
    BY <1>25 DEF Reached, Achieved
  <2>2. op[w] \in {"migrate", "live"} => op[w] \in Requests
    OBVIOUS
  <2>3. \/ Move(w, "ok") /\ UNCHANGED <<request, want>>
        \/ \E r \in Requests \cup {"none"}, t \in Statuses : Intend(w, r, t)
    BY <1>25, <2>2 DEF Reached, Achieved
  <2>4. /\ request' \in [Users -> Requests \cup {"none"}] /\ want' \in [Users -> Statuses]
        /\ point' \in [Users -> Points]
    BY <2>3 DEF Intend, Points
  <2> QED
    BY <1>25, <2>1, <2>4, ServersTypeParts DEF Reached
<1>26. ASSUME NEW w \in Users, Unexpected(w) PROVE ServersTypeOK'
  BY <1>26 DEF Unexpected, WaitFails
<1>27. ASSUME NEW w \in Users, TimedOut(w) PROVE ServersTypeOK'
  BY <1>27 DEF TimedOut, WaitFails
<1> QED
  BY <1>1, <1>2, <1>3, <1>4, <1>5, <1>6, <1>7, <1>8, <1>9, <1>10, <1>11, <1>12, <1>13, <1>14,
     <1>15, <1>16, <1>17, <1>18, <1>19, <1>20, <1>21, <1>22, <1>23, <1>24, <1>25, <1>26, <1>27
     DEF ServersNext, UserStep, SetupStep, CleanupStep, CallStep

\* A busy server shows what Nova is doing with it.
LEMMA NovaShowsStep == SrvInv /\ ServersNext => NovaShows'
<1> SUFFICES ASSUME SrvInv, ServersNext PROVE NovaShows'
  OBVIOUS
<1> USE ServersAssumption DEF SrvInv, ServersTypeOK, nova, fixture, asking, counts, told, Move,
   Statuses, Requests, NovaShows, ShownWhile
<1>1. CASE NovaCompletes
  BY <1>1 DEF NovaCompletes
<1>2. CASE NovaFails
  BY <1>2 DEF NovaFails
<1>3. ASSUME NEW w \in Users, NEW o \in Operations, Begin(w, o) PROVE NovaShows'
  BY <1>3 DEF Begin
<1>4. ASSUME NEW w \in Users, EndTest(w) PROVE NovaShows'
  BY <1>4 DEF EndTest
<1>5. ASSUME NEW w \in Users, GetServerId(w) PROVE NovaShows'
  BY <1>5 DEF GetServerId, Remember, StackNow
<1>6. ASSUME NEW w \in Users, NoServerId(w) PROVE NovaShows'
  BY <1>6 DEF NoServerId, Remember, StackNow
<1>7. ASSUME NEW w \in Users, Setup(w) PROVE NovaShows'
  BY <1>7 DEF Setup
<1>8. ASSUME NEW w \in Users, FindStack(w) PROVE NovaShows'
  BY <1>8 DEF FindStack, StackCreated, Remember, Taken, StackNow, Complete, Unfinished
<1>9. ASSUME NEW w \in Users, FindFailed(w) PROVE NovaShows'
  BY <1>9 DEF FindFailed, MakeFails, DeleteNamed, Remember, Leave
<1>10. ASSUME NEW w \in Users, Create(w) PROVE NovaShows'
  BY <1>10 DEF Create
<1>11. ASSUME NEW w \in Users, Built(w) PROVE NovaShows'
  BY <1>11 DEF Built, StackCreated, Remember, StackNow, Complete
<1>12. ASSUME NEW w \in Users, BuildFails(w) PROVE NovaShows'
  BY <1>12 DEF BuildFails, MakeFails, DeleteNamed, Remember, Leave
<1>13. ASSUME NEW w \in Users, Register(w) PROVE NovaShows'
  BY <1>13 DEF Register
<1>14. ASSUME NEW w \in Users, Booted(w) PROVE NovaShows'
  BY <1>14 DEF Booted, Ready, Remember, Leave, StackNow
<1>15. ASSUME NEW w \in Users, BootStuck(w) PROVE NovaShows'
  BY <1>15 DEF BootStuck, DeleteNamed, Remember, Leave
<1>16. ASSUME NEW w \in Users, Answers(w) PROVE NovaShows'
  BY <1>16 DEF Answers, Ready, Remember, Leave, StackNow
<1>17. ASSUME NEW w \in Users, SetupFails(w) PROVE NovaShows'
  BY <1>17 DEF SetupFails, Leave
<1>18. ASSUME NEW w \in Users, Unwind(w) PROVE NovaShows'
  BY <1>18 DEF Unwind, Remember, StackNow
<1>19. ASSUME NEW w \in Users, Removeme(w) PROVE NovaShows'
  BY <1>19 DEF Removeme, CleanedUp, LastUser
<1>20. ASSUME NEW w \in Users, DeleteStack(w) PROVE NovaShows'
  BY <1>20 DEF DeleteStack, DeleteNamed, Remember
<1>21. ASSUME NEW w \in Users, WaitUntilDeleted(w) PROVE NovaShows'
  BY <1>21 DEF WaitUntilDeleted, CleanedUp, Remember, StackNow
<1>22. ASSUME NEW w \in Users, LookAtServer(w) PROVE NovaShows'
  BY <1>22 DEF LookAtServer, Decide, Achieved, Intend
<1>23. ASSUME NEW w \in Users, Ask(w) PROVE NovaShows'
  BY <1>23 DEF Ask, Takes, Shown, Requested
<1>24. ASSUME NEW w \in Users, Refused(w) PROVE NovaShows'
  BY <1>24 DEF Refused
<1>25. ASSUME NEW w \in Users, Reached(w) PROVE NovaShows'
  BY <1>25 DEF Reached, Achieved, Intend, MustConfirm
<1>26. ASSUME NEW w \in Users, Unexpected(w) PROVE NovaShows'
  BY <1>26 DEF Unexpected, WaitFails
<1>27. ASSUME NEW w \in Users, TimedOut(w) PROVE NovaShows'
  BY <1>27 DEF TimedOut, WaitFails
<1> QED
  BY <1>1, <1>2, <1>3, <1>4, <1>5, <1>6, <1>7, <1>8, <1>9, <1>10, <1>11, <1>12, <1>13, <1>14,
     <1>15, <1>16, <1>17, <1>18, <1>19, <1>20, <1>21, <1>22, <1>23, <1>24, <1>25, <1>26, <1>27
     DEF ServersNext, UserStep, SetupStep, CleanupStep, CallStep

\* A call asks for one of its requests and waits for what that leads to.
LEMMA RequestedStep == SrvInv /\ ServersNext => Requested'
<1> SUFFICES ASSUME SrvInv, ServersNext PROVE Requested'
  OBVIOUS
<1> USE ServersAssumption DEF SrvInv, ServersTypeOK, nova, fixture, asking, counts, told, Move,
   Statuses, Requests, Requested, MayAsk, WantOf, Busy, ShuttingOff, Activating, Ensuring
<1>1. CASE NovaCompletes
  BY <1>1 DEF NovaCompletes
<1>2. CASE NovaFails
  BY <1>2 DEF NovaFails
<1>3. ASSUME NEW w \in Users, NEW o \in Operations, Begin(w, o) PROVE Requested'
  BY <1>3 DEF Begin
<1>4. ASSUME NEW w \in Users, EndTest(w) PROVE Requested'
  BY <1>4 DEF EndTest
<1>5. ASSUME NEW w \in Users, GetServerId(w) PROVE Requested'
  BY <1>5 DEF GetServerId, Remember, StackNow
<1>6. ASSUME NEW w \in Users, NoServerId(w) PROVE Requested'
  BY <1>6 DEF NoServerId, Remember, StackNow
<1>7. ASSUME NEW w \in Users, Setup(w) PROVE Requested'
  BY <1>7 DEF Setup
<1>8. ASSUME NEW w \in Users, FindStack(w) PROVE Requested'
  BY <1>8 DEF FindStack, StackCreated, Remember, Taken, StackNow, Complete, Unfinished
<1>9. ASSUME NEW w \in Users, FindFailed(w) PROVE Requested'
  BY <1>9 DEF FindFailed, MakeFails, DeleteNamed, Remember, Leave
<1>10. ASSUME NEW w \in Users, Create(w) PROVE Requested'
  BY <1>10 DEF Create
<1>11. ASSUME NEW w \in Users, Built(w) PROVE Requested'
  BY <1>11 DEF Built, StackCreated, Remember, StackNow, Complete
<1>12. ASSUME NEW w \in Users, BuildFails(w) PROVE Requested'
  BY <1>12 DEF BuildFails, MakeFails, DeleteNamed, Remember, Leave
<1>13. ASSUME NEW w \in Users, Register(w) PROVE Requested'
  BY <1>13 DEF Register
<1>14. ASSUME NEW w \in Users, Booted(w) PROVE Requested'
  BY <1>14 DEF Booted, Ready, Remember, Leave, StackNow
<1>15. ASSUME NEW w \in Users, BootStuck(w) PROVE Requested'
  BY <1>15 DEF BootStuck, DeleteNamed, Remember, Leave
<1>16. ASSUME NEW w \in Users, Answers(w) PROVE Requested'
  BY <1>16 DEF Answers, Ready, Remember, Leave, StackNow
<1>17. ASSUME NEW w \in Users, SetupFails(w) PROVE Requested'
  BY <1>17 DEF SetupFails, Leave
<1>18. ASSUME NEW w \in Users, Unwind(w) PROVE Requested'
  BY <1>18 DEF Unwind, Remember, StackNow
<1>19. ASSUME NEW w \in Users, Removeme(w) PROVE Requested'
  BY <1>19 DEF Removeme, CleanedUp, LastUser
<1>20. ASSUME NEW w \in Users, DeleteStack(w) PROVE Requested'
  BY <1>20 DEF DeleteStack, DeleteNamed, Remember
<1>21. ASSUME NEW w \in Users, WaitUntilDeleted(w) PROVE Requested'
  BY <1>21 DEF WaitUntilDeleted, CleanedUp, Remember, StackNow
<1>22. ASSUME NEW w \in Users, LookAtServer(w) PROVE Requested'
  BY <1>22 DEF LookAtServer, Decide, Achieved, Intend
<1>23. ASSUME NEW w \in Users, Ask(w) PROVE Requested'
  BY <1>23 DEF Ask
<1>24. ASSUME NEW w \in Users, Refused(w) PROVE Requested'
  BY <1>24 DEF Refused
<1>25. ASSUME NEW w \in Users, Reached(w) PROVE Requested'
  BY <1>25 DEF Reached, Achieved, Intend, MustConfirm
<1>26. ASSUME NEW w \in Users, Unexpected(w) PROVE Requested'
  BY <1>26 DEF Unexpected, WaitFails
<1>27. ASSUME NEW w \in Users, TimedOut(w) PROVE Requested'
  BY <1>27 DEF TimedOut, WaitFails
<1> QED
  BY <1>1, <1>2, <1>3, <1>4, <1>5, <1>6, <1>7, <1>8, <1>9, <1>10, <1>11, <1>12, <1>13, <1>14,
     <1>15, <1>16, <1>17, <1>18, <1>19, <1>20, <1>21, <1>22, <1>23, <1>24, <1>25, <1>26, <1>27
     DEF ServersNext, UserStep, SetupStep, CleanupStep, CallStep

\* Whoever else begins a call disturbs those that are under way.
LEMMA LoneStep == SrvInv /\ ServersNext => (\A u \in Users : Lone(u))'
<1> SUFFICES ASSUME SrvInv, ServersNext PROVE (\A u \in Users : Lone(u))'
  OBVIOUS
<1> USE ServersAssumption DEF SrvInv, ServersTypeOK, nova, fixture, asking, counts, told, Move,
   Statuses, Requests, Lone, Requested, MayAsk, Busy, Ensuring, LockInv, InSetup, InCleanup
<1>1. CASE NovaCompletes
  BY <1>1 DEF NovaCompletes
<1>2. CASE NovaFails
  BY <1>2 DEF NovaFails
<1>3. ASSUME NEW w \in Users, NEW o \in Operations, Begin(w, o) PROVE (\A u \in Users : Lone(u))'
  BY <1>3 DEF Begin
<1>4. ASSUME NEW w \in Users, EndTest(w) PROVE (\A u \in Users : Lone(u))'
  BY <1>4 DEF EndTest
<1>5. ASSUME NEW w \in Users, GetServerId(w) PROVE (\A u \in Users : Lone(u))'
  BY <1>5 DEF GetServerId, Remember, StackNow
<1>6. ASSUME NEW w \in Users, NoServerId(w) PROVE (\A u \in Users : Lone(u))'
  BY <1>6 DEF NoServerId, Remember, StackNow
<1>7. ASSUME NEW w \in Users, Setup(w) PROVE (\A u \in Users : Lone(u))'
  BY <1>7 DEF Setup
<1>8. ASSUME NEW w \in Users, FindStack(w) PROVE (\A u \in Users : Lone(u))'
  BY <1>8 DEF FindStack, StackCreated, Remember, Taken, StackNow, Complete, Unfinished
<1>9. ASSUME NEW w \in Users, FindFailed(w) PROVE (\A u \in Users : Lone(u))'
  BY <1>9 DEF FindFailed, MakeFails, DeleteNamed, Remember, Leave
<1>10. ASSUME NEW w \in Users, Create(w) PROVE (\A u \in Users : Lone(u))'
  BY <1>10 DEF Create
<1>11. ASSUME NEW w \in Users, Built(w) PROVE (\A u \in Users : Lone(u))'
  BY <1>11 DEF Built, StackCreated, Remember, StackNow, Complete
<1>12. ASSUME NEW w \in Users, BuildFails(w) PROVE (\A u \in Users : Lone(u))'
  BY <1>12 DEF BuildFails, MakeFails, DeleteNamed, Remember, Leave
<1>13. ASSUME NEW w \in Users, Register(w) PROVE (\A u \in Users : Lone(u))'
  BY <1>13 DEF Register
<1>14. ASSUME NEW w \in Users, Booted(w) PROVE (\A u \in Users : Lone(u))'
  BY <1>14 DEF Booted, Ready, Remember, Leave, StackNow
<1>15. ASSUME NEW w \in Users, BootStuck(w) PROVE (\A u \in Users : Lone(u))'
  BY <1>15 DEF BootStuck, DeleteNamed, Remember, Leave
<1>16. ASSUME NEW w \in Users, Answers(w) PROVE (\A u \in Users : Lone(u))'
  BY <1>16 DEF Answers, Ready, Remember, Leave, StackNow
<1>17. ASSUME NEW w \in Users, SetupFails(w) PROVE (\A u \in Users : Lone(u))'
  BY <1>17 DEF SetupFails, Leave
<1>18. ASSUME NEW w \in Users, Unwind(w) PROVE (\A u \in Users : Lone(u))'
  BY <1>18 DEF Unwind, Remember, StackNow
<1>19. ASSUME NEW w \in Users, Removeme(w) PROVE (\A u \in Users : Lone(u))'
  BY <1>19 DEF Removeme, CleanedUp, LastUser
<1>20. ASSUME NEW w \in Users, DeleteStack(w) PROVE (\A u \in Users : Lone(u))'
  BY <1>20 DEF DeleteStack, DeleteNamed, Remember
<1>21. ASSUME NEW w \in Users, WaitUntilDeleted(w) PROVE (\A u \in Users : Lone(u))'
  BY <1>21 DEF WaitUntilDeleted, CleanedUp, Remember, StackNow
<1>22. ASSUME NEW w \in Users, LookAtServer(w) PROVE (\A u \in Users : Lone(u))'
  BY <1>22 DEF LookAtServer, Decide, Achieved, Intend
<1>23. ASSUME NEW w \in Users, Ask(w) PROVE (\A u \in Users : Lone(u))'
  BY <1>23 DEF Ask
<1>24. ASSUME NEW w \in Users, Refused(w) PROVE (\A u \in Users : Lone(u))'
  BY <1>24 DEF Refused
<1>25. ASSUME NEW w \in Users, Reached(w) PROVE (\A u \in Users : Lone(u))'
  BY <1>25 DEF Reached, Achieved, Intend, MustConfirm
<1>26. ASSUME NEW w \in Users, Unexpected(w) PROVE (\A u \in Users : Lone(u))'
  BY <1>26 DEF Unexpected, WaitFails
<1>27. ASSUME NEW w \in Users, TimedOut(w) PROVE (\A u \in Users : Lone(u))'
  BY <1>27 DEF TimedOut, WaitFails
<1> QED
  BY <1>1, <1>2, <1>3, <1>4, <1>5, <1>6, <1>7, <1>8, <1>9, <1>10, <1>11, <1>12, <1>13, <1>14,
     <1>15, <1>16, <1>17, <1>18, <1>19, <1>20, <1>21, <1>22, <1>23, <1>24, <1>25, <1>26, <1>27
     DEF ServersNext, UserStep, SetupStep, CleanupStep, CallStep

\* What a call that is not disturbed waits for is on its way.
LEMMA CalmIsExpected ==
  ASSUME SrvInv, NEW u \in Users, point[u] = "wait", u \notin disturbed \cup odd
  PROVE  /\ status \in Transient(u) \cup {want[u]}
         /\ task # "none" => Outcome(task) = want[u] /\ task # "build" /\ status # want[u]
<1>1. u \in Busy /\ Calm(u)
  BY DEF SrvInv, Busy
<1>2. CASE task = "none"
  BY <1>1, <1>2 DEF Calm
<1>3. CASE task # "none"
  <2>1. /\ task = request[u] /\ request[u] \notin {"none", "hard"} /\ status \in ShownWhile(request[u])
        /\ want[u] = WantOf(request[u])
        /\ request[u] \in {"live", "confirm"} => activated[u]
        /\ request[u] \in Requests
    BY <1>1, <1>3 DEF Calm, SrvInv, NovaShows, Requested, ServersTypeOK
  <2>2. CASE request[u] \in {"stop", "start"}
    BY <2>1, <2>2 DEF ShownWhile, WantOf, Transient, TransientStatus, Outcome
  <2>3. CASE request[u] \in {"reboot", "migrate"}
    BY <2>1, <2>3 DEF ShownWhile, WantOf, Transient, TransientStatus, Outcome
  <2>4. CASE request[u] \in {"live", "confirm"}
    BY <2>1, <2>4 DEF ShownWhile, WantOf, Transient, Outcome
  <2> QED
    BY <2>1, <2>2, <2>3, <2>4 DEF Requests
<1> QED
  BY <1>2, <1>3

\* A call that is not disturbed by a step of w is w's own.
LEMMA Alone ==
  ASSUME SrvInv, NEW w \in Users, w \in Busy,
         NEW u \in Users, u \in Busy', u \notin disturbed, NEW p, Move(w, p)
  PROVE  u = w /\ u \in Busy
  BY DEF SrvInv, Lone, Busy, Move, ServersTypeOK

\* A call that is not disturbed finds the server as it left it.
LEMMA CalmStep == SrvInv /\ ServersNext => (\A u \in Users : Calm(u))'
<1> SUFFICES ASSUME SrvInv, ServersNext PROVE (\A u \in Users : Calm(u))'
  OBVIOUS
<1> USE ServersAssumption DEF SrvInv, ServersTypeOK, nova, fixture, asking, counts, told, Move,
   Statuses, Requests, Lone, Calm, Steady, Sees, Known, Takes, Busy, Ensuring, LockInv, InSetup,
   InCleanup, Fit, StackNow, Complete, Unfinished
<1>1. CASE NovaCompletes
  <2> SUFFICES ASSUME NEW u \in Users PROVE Calm(u)'
    OBVIOUS
  <2>1. Calm(u) /\ (u \in Busy <=> u \in Busy')
    BY <1>1 DEF NovaCompletes
  <2>2. CASE point[u] = "wait" /\ u \notin disturbed \cup odd
    BY <1>1, <2>1, <2>2, CalmIsExpected DEF NovaCompletes
  <2>3. CASE point[u] # "wait"
    BY <1>1, <2>1, <2>3 DEF NovaCompletes, Outcome
  <2> QED
    BY <1>1, <2>1, <2>2, <2>3 DEF NovaCompletes
<1>2. CASE NovaFails
  BY <1>2 DEF NovaFails
<1>3. ASSUME NEW w \in Users, NEW o \in Operations, Begin(w, o) PROVE (\A u \in Users : Calm(u))'
  BY <1>3 DEF Begin
<1>4. ASSUME NEW w \in Users, EndTest(w) PROVE (\A u \in Users : Calm(u))'
  BY <1>4 DEF EndTest
<1>5. ASSUME NEW w \in Users, GetServerId(w) PROVE (\A u \in Users : Calm(u))'
  BY <1>5 DEF GetServerId, Remember, StackNow
<1>6. ASSUME NEW w \in Users, NoServerId(w) PROVE (\A u \in Users : Calm(u))'
  BY <1>6 DEF NoServerId, Remember, StackNow
<1>7. ASSUME NEW w \in Users, Setup(w) PROVE (\A u \in Users : Calm(u))'
  BY <1>7 DEF Setup
<1>8. ASSUME NEW w \in Users, FindStack(w) PROVE (\A u \in Users : Calm(u))'
  BY <1>8 DEF FindStack, StackCreated, Remember, Taken, StackNow, Complete, Unfinished
<1>9. ASSUME NEW w \in Users, FindFailed(w) PROVE (\A u \in Users : Calm(u))'
  <2>1. \A u \in Users : u \in Busy \ (disturbed \cup odd) => u = w
    BY <1>9 DEF FindFailed
  <2>2. CASE w \in disturbed \cup odd
    BY <1>9, <2>1, <2>2 DEF FindFailed, MakeFails, Remember, Leave
  <2>3. CASE w \notin disturbed \cup odd
    <3>1. server = Taken(w)
      BY <1>9, <2>3 DEF FindFailed, Taken
    <3>2. Move(w, "create")
      BY <1>9, <3>1 DEF FindFailed
    <3> QED
      BY <1>9, <2>1, <3>1, <3>2 DEF FindFailed
  <2> QED
    BY <2>2, <2>3
<1>10. ASSUME NEW w \in Users, Create(w) PROVE (\A u \in Users : Calm(u))'
  BY <1>10 DEF Create
<1>11. ASSUME NEW w \in Users, Built(w) PROVE (\A u \in Users : Calm(u))'
  BY <1>11 DEF Built, StackCreated, Remember, StackNow, Complete
<1>12. ASSUME NEW w \in Users, BuildFails(w) PROVE (\A u \in Users : Calm(u))'
  BY <1>12 DEF BuildFails, MakeFails, DeleteNamed, Remember, Leave
<1>13. ASSUME NEW w \in Users, Register(w) PROVE (\A u \in Users : Calm(u))'
  BY <1>13 DEF Register
<1>14. ASSUME NEW w \in Users, Booted(w) PROVE (\A u \in Users : Calm(u))'
  BY <1>14 DEF Booted, Ready, Remember, Leave, StackNow
<1>15. ASSUME NEW w \in Users, BootStuck(w) PROVE (\A u \in Users : Calm(u))'
  BY <1>15 DEF BootStuck, DeleteNamed, Remember, Leave
<1>16. ASSUME NEW w \in Users, Answers(w) PROVE (\A u \in Users : Calm(u))'
  BY <1>16 DEF Answers, Ready, Remember, Leave, StackNow
<1>17. ASSUME NEW w \in Users, SetupFails(w) PROVE (\A u \in Users : Calm(u))'
  BY <1>17 DEF SetupFails, Leave
<1>18. ASSUME NEW w \in Users, Unwind(w) PROVE (\A u \in Users : Calm(u))'
  BY <1>18 DEF Unwind, Remember, StackNow
<1>19. ASSUME NEW w \in Users, Removeme(w) PROVE (\A u \in Users : Calm(u))'
  BY <1>19 DEF Removeme, CleanedUp, LastUser
<1>20. ASSUME NEW w \in Users, DeleteStack(w) PROVE (\A u \in Users : Calm(u))'
  BY <1>20 DEF DeleteStack, DeleteNamed, Remember
<1>21. ASSUME NEW w \in Users, WaitUntilDeleted(w) PROVE (\A u \in Users : Calm(u))'
  BY <1>21 DEF WaitUntilDeleted, CleanedUp, Remember, StackNow
<1>22. ASSUME NEW w \in Users, LookAtServer(w) PROVE (\A u \in Users : Calm(u))'
  <2> SUFFICES ASSUME NEW u \in Users, u \in Busy' \ (disturbed \cup odd) PROVE Calm(u)'
    BY <1>22 DEF LookAtServer
  <2>0. \E p : Move(w, p)
    <3>1. Move(w, "ok") \/ \E r, t : Intend(w, r, t)
      BY <1>22, LookDecides
    <3> QED
      BY <3>1 DEF Intend
  <2>1. u = w /\ u \in Busy
    BY <1>22, <2>0, Alone DEF LookAtServer
  <2>2. Steady /\ Known(w) /\ point[w] = "look" /\ UNCHANGED <<server, id, status, task>>
    BY <1>22, <2>1 DEF LookAtServer
  <2>3. \E r \in {"stop", "start", "reboot", "migrate", "live"}, t \in Statuses :
          /\ Intend(w, r, t)
          /\ r = "start" <=> status = "SHUTOFF"
          /\ r \in {"migrate", "live"} => activated' = [activated EXCEPT ![w] = TRUE]
    <3>1. ~Move(w, "ok")
      BY <2>1
    <3>2. op[w] \in Operations /\ Decide(w)
      BY <1>22, <2>1 DEF LookAtServer, Requested
    <3>3. CASE status = "ACTIVE"
      BY <2>2, <3>1, <3>2, <3>3 DEF Decide, Achieved, ShuttingOff, Activating
    <3>4. CASE status = "SHUTOFF"
      BY <2>2, <3>1, <3>2, <3>4 DEF Decide, Achieved, ShuttingOff, Activating
    <3> QED
      BY <2>2, <3>3, <3>4
  <2> QED
    BY <2>1, <2>2, <2>3 DEF Intend
<1>23. ASSUME NEW w \in Users, Ask(w) PROVE (\A u \in Users : Calm(u))'
  BY <1>23 DEF Ask
<1>24. ASSUME NEW w \in Users, Refused(w) PROVE (\A u \in Users : Calm(u))'
  BY <1>24 DEF Refused
<1>25. ASSUME NEW w \in Users, Reached(w) PROVE (\A u \in Users : Calm(u))'
  <2> SUFFICES ASSUME NEW u \in Users, u \in Busy' \ (disturbed \cup odd) PROVE Calm(u)'
    BY <1>25 DEF Reached
  <2>0. \E p : Move(w, p)
    BY <1>25 DEF Reached, Achieved, Intend
  <2>1. u = w /\ u \in Busy
    BY <1>25, <2>0, Alone DEF Reached
  <2>2. /\ task = "none" /\ Known(w) /\ point[w] = "wait" /\ status = want[w]
        /\ UNCHANGED <<server, id, status, task>>
    BY <1>25, <2>1, CalmIsExpected DEF Reached
  <2>3. /\ request[w] \in MayAsk(op[w]) /\ want[w] = WantOf(request[w]) /\ op[w] \in Operations
        /\ ShuttingOff(w) <=> want[w] = "SHUTOFF"
        /\ request[w] = "migrate" => activated[w]
    BY <1>25, <2>1, <2>2 DEF Reached, Requested
  <2>4. CASE MustConfirm(w)
    <3>1. Intend(w, "confirm", "ACTIVE") /\ UNCHANGED activated /\ want[w] = "VERIFY_RESIZE"
      BY <1>25, <2>4 DEF Reached, MustConfirm
    <3> QED
      BY <2>1, <2>2, <2>3, <3>1 DEF Intend, WantOf
  <2>5. CASE ~MustConfirm(w)
    <3>1. Achieved(w)
      BY <1>25, <2>1, <2>5 DEF Reached
    <3>2. op[w] \in {"migrate", "live"} /\ want[w] = "ACTIVE"
      BY <2>1, <2>3, <2>5, <3>1 DEF Achieved, ShuttingOff, MustConfirm, WantOf
    <3>3. /\ activated' = [activated EXCEPT ![w] = TRUE]
          /\ \E t \in Statuses : Intend(w, op[w], t)
      BY <3>1, <3>2 DEF Achieved
    <3> QED
      BY <2>1, <2>2, <3>2, <3>3 DEF Intend
  <2> QED
    BY <2>4, <2>5
<1>26. ASSUME NEW w \in Users, Unexpected(w) PROVE (\A u \in Users : Calm(u))'
  <2>1. w \in Busy /\ w \in disturbed \cup odd
    BY <1>26, CalmIsExpected DEF Unexpected
  <2>2. ASSUME NEW u \in Users, u \in Busy' \ (disturbed \cup odd) PROVE FALSE
    <3>1. u # w
      BY <2>1, <2>2
    <3> QED
      BY <1>26, <2>1, <2>2, <3>1, Alone DEF Unexpected, WaitFails
  <2> QED
    BY <1>26, <2>2 DEF Unexpected
<1>27. ASSUME NEW w \in Users, TimedOut(w) PROVE (\A u \in Users : Calm(u))'
  BY <1>27 DEF TimedOut, WaitFails
<1> QED
  BY <1>1, <1>2, <1>3, <1>4, <1>5, <1>6, <1>7, <1>8, <1>9, <1>10, <1>11, <1>12, <1>13, <1>14,
     <1>15, <1>16, <1>17, <1>18, <1>19, <1>20, <1>21, <1>22, <1>23, <1>24, <1>25, <1>26, <1>27
     DEF ServersNext, UserStep, SetupStep, CleanupStep, CallStep

\* It does not fail.
LEMMA SucceedsStep == SrvInv /\ ServersNext => UndisturbedSucceeds'
<1> SUFFICES ASSUME SrvInv, ServersNext PROVE UndisturbedSucceeds'
  OBVIOUS
<1> USE ServersAssumption DEF SrvInv, ServersTypeOK, nova, fixture, asking, counts, told, Move,
   Statuses, Requests, Calm, Steady, Sees, Known, Busy, UndisturbedSucceeds, InCleanup, Fit
<1>1. CASE NovaCompletes
  BY <1>1 DEF NovaCompletes
<1>2. CASE NovaFails
  BY <1>2 DEF NovaFails
<1>3. ASSUME NEW w \in Users, NEW o \in Operations, Begin(w, o) PROVE UndisturbedSucceeds'
  BY <1>3 DEF Begin
<1>4. ASSUME NEW w \in Users, EndTest(w) PROVE UndisturbedSucceeds'
  BY <1>4 DEF EndTest
<1>5. ASSUME NEW w \in Users, GetServerId(w) PROVE UndisturbedSucceeds'
  BY <1>5 DEF GetServerId, Remember, StackNow
<1>6. ASSUME NEW w \in Users, NoServerId(w) PROVE UndisturbedSucceeds'
  BY <1>6 DEF NoServerId, Remember, StackNow
<1>7. ASSUME NEW w \in Users, Setup(w) PROVE UndisturbedSucceeds'
  BY <1>7 DEF Setup
<1>8. ASSUME NEW w \in Users, FindStack(w) PROVE UndisturbedSucceeds'
  BY <1>8 DEF FindStack, StackCreated, Remember, Taken, StackNow, Complete, Unfinished
<1>9. ASSUME NEW w \in Users, FindFailed(w) PROVE UndisturbedSucceeds'
  BY <1>9 DEF FindFailed, MakeFails, DeleteNamed, Remember, Leave
<1>10. ASSUME NEW w \in Users, Create(w) PROVE UndisturbedSucceeds'
  BY <1>10 DEF Create
<1>11. ASSUME NEW w \in Users, Built(w) PROVE UndisturbedSucceeds'
  BY <1>11 DEF Built, StackCreated, Remember, StackNow, Complete
<1>12. ASSUME NEW w \in Users, BuildFails(w) PROVE UndisturbedSucceeds'
  BY <1>12 DEF BuildFails, MakeFails, DeleteNamed, Remember, Leave
<1>13. ASSUME NEW w \in Users, Register(w) PROVE UndisturbedSucceeds'
  BY <1>13 DEF Register
<1>14. ASSUME NEW w \in Users, Booted(w) PROVE UndisturbedSucceeds'
  BY <1>14 DEF Booted, Ready, Remember, Leave, StackNow
<1>15. ASSUME NEW w \in Users, BootStuck(w) PROVE UndisturbedSucceeds'
  BY <1>15 DEF BootStuck, DeleteNamed, Remember, Leave
<1>16. ASSUME NEW w \in Users, Answers(w) PROVE UndisturbedSucceeds'
  BY <1>16 DEF Answers, Ready, Remember, Leave, StackNow
<1>17. ASSUME NEW w \in Users, SetupFails(w) PROVE UndisturbedSucceeds'
  BY <1>17 DEF SetupFails, Leave
<1>18. ASSUME NEW w \in Users, Unwind(w) PROVE UndisturbedSucceeds'
  BY <1>18 DEF Unwind, Remember, StackNow
<1>19. ASSUME NEW w \in Users, Removeme(w) PROVE UndisturbedSucceeds'
  BY <1>19 DEF Removeme, CleanedUp, LastUser
<1>20. ASSUME NEW w \in Users, DeleteStack(w) PROVE UndisturbedSucceeds'
  BY <1>20 DEF DeleteStack, DeleteNamed, Remember
<1>21. ASSUME NEW w \in Users, WaitUntilDeleted(w) PROVE UndisturbedSucceeds'
  BY <1>21 DEF WaitUntilDeleted, CleanedUp, Remember, StackNow
<1>22. ASSUME NEW w \in Users, LookAtServer(w) PROVE UndisturbedSucceeds'
  BY <1>22 DEF LookAtServer, Decide, Achieved, Intend
<1>23. ASSUME NEW w \in Users, Ask(w) PROVE UndisturbedSucceeds'
  BY <1>23 DEF Ask
<1>24. ASSUME NEW w \in Users, Refused(w) PROVE UndisturbedSucceeds'
  BY <1>24 DEF Refused
<1>25. ASSUME NEW w \in Users, Reached(w) PROVE UndisturbedSucceeds'
  BY <1>25 DEF Reached, Achieved, Intend, MustConfirm
<1>26. ASSUME NEW w \in Users, Unexpected(w) PROVE UndisturbedSucceeds'
  BY <1>26, CalmIsExpected DEF Unexpected, WaitFails
<1>27. ASSUME NEW w \in Users, TimedOut(w) PROVE UndisturbedSucceeds'
  BY <1>27 DEF TimedOut, WaitFails
<1> QED
  BY <1>1, <1>2, <1>3, <1>4, <1>5, <1>6, <1>7, <1>8, <1>9, <1>10, <1>11, <1>12, <1>13, <1>14,
     <1>15, <1>16, <1>17, <1>18, <1>19, <1>20, <1>21, <1>22, <1>23, <1>24, <1>25, <1>26, <1>27
     DEF ServersNext, UserStep, SetupStep, CleanupStep, CallStep

\* The invariant, to begin with and after a step.
LEMMA InitSrv == ServersInit => SrvInv
<1> SUFFICES ASSUME ServersInit PROVE SrvInv
  OBVIOUS
<1> USE ServersAssumption DEF ServersInit
<1>1. ServersTypeOK
  <2>1. /\ 0 \in 0 .. MaxServers /\ 0 \in 0 .. MaxCalls /\ 0 \in 0 .. MaxFaults
        /\ 1 \in 1 .. MaxTries /\ 1 \in 1 .. MaxMakes /\ 1 \in 1 .. 2
        /\ created \in 0 .. MaxServers /\ server \in 0 .. created /\ broken \subseteq 1 .. created
    OBVIOUS
  <2> QED
    BY <2>1 DEF ServersTypeOK, Statuses, Points
<1>2. \A u \in Users : u \notin Busy /\ point[u] = "idle"
  BY DEF Busy
<1> QED
  BY <1>1, <1>2 DEF SrvInv, LockInv, LateInv, InSetup, InCleanup, NovaShows, Requested, Lone,
     Calm,
     UndisturbedSucceeds

LEMMA SrvStep == SrvInv /\ [ServersNext]_serverVars => SrvInv'
<1>1. CASE UNCHANGED serverVars
  BY <1>1 DEF serverVars, nova, fixture, asking, counts, told, SrvInv, ServersTypeOK,
     LockInv, LateInv, NovaShows, Requested, Lone, Calm, UndisturbedSucceeds, Busy, Known, Sees,
     Steady, Takes, Fit, StackNow, Complete, ShuttingOff, Activating
<1>2. CASE ServersNext
  BY <1>2, LockStep, LateStep, ServersTypeStep, NovaShowsStep, RequestedStep, LoneStep,
     CalmStep,
     SucceedsStep DEF SrvInv
<1> QED
  BY <1>1, <1>2

\* The state is well formed: a call asks for one of its requests, and waits for one
\* of the statuses that they lead to.
THEOREM ServersTyped == ServersSpec => []ServersTypeOK
<1>1. SrvInv => ServersTypeOK
  BY DEF SrvInv
<1> QED
  BY <1>1, InitSrv, SrvStep, PTL DEF ServersSpec

\* A call that nothing disturbs, and for which Nova failed nothing, does not fail and
\* has not deleted the server, if that was active, or off and the fixture set up, or if
\* the call has to create it (setup_fixture, wait_for_server_status,
\* ensure_server_status).
THEOREM CallsSucceed == ServersSpec => []UndisturbedSucceeds
<1>1. SrvInv => UndisturbedSucceeds
  BY DEF SrvInv
<1> QED
  BY <1>1, InitSrv, SrvStep, PTL DEF ServersSpec

\* For any number of workers: a complete stack that a worker is registered for, with its
\* fixture set up, is deleted by a clean-up that had counted the users before that worker
\* registered, by a set-up that finds the guest stuck, or by one that remembers a stack
\* that failed, and by nothing else (cleanup_fixture, setup_fixture, create_stack).
THEOREM ServerIsKept == ServersSpec => KeptWhileUsed
<1> DEFINE Deletes(u, v) ==
      \/ point[u] = "delete" /\ point'[u] = "gone" /\ v \in late[u]
      \/ point[u] = "boot" /\ point'[u] = "find" /\ stuck
      \/ point[u] = "find" /\ seen[u] \in broken /\ seen'[u] = 0
      Kept == server' # server /\ Complete(StackNow)
              => \A v \in prepared \cap users : \E u \in Users : Deletes(u, v)
<1>1. SrvInv /\ [ServersNext]_serverVars => [Kept]_serverVars
  <2> SUFFICES ASSUME SrvInv, ServersNext, server' # server, Complete(StackNow), NEW v \in prepared \cap users
               PROVE  \E u \in Users : Deletes(u, v)
    OBVIOUS
  <2> USE DEF SrvInv, ServersTypeOK, nova, fixture, asking, counts, told, Move
  <2>1. PICK u \in Users :
          DeleteStack(u) \/ BootStuck(u) \/ FindFailed(u) \/ BuildFails(u) \/ Create(u)
    BY DEF ServersNext, UserStep, SetupStep, CleanupStep, CallStep, NovaCompletes, NovaFails,
       Begin,
       EndTest, GetServerId, NoServerId, Setup, FindStack, Built, Register, Booted, Answers, SetupFails,
       Unwind, Removeme, WaitUntilDeleted, LookAtServer, Ask, Refused, Reached, Unexpected, TimedOut
  <2>2. CASE DeleteStack(u)
    BY <2>2 DEF DeleteStack, LateInv
  <2>3. CASE BootStuck(u)
    BY <2>3 DEF BootStuck, Leave
  <2>4. CASE FindFailed(u)
    <3>1. point[u] = "find" /\ seen'[u] = 0 /\ Taken(u) \in broken
      BY <2>4 DEF FindFailed, MakeFails, Remember
    <3>2. CASE seen[u] = 0
      <4>1. Taken(u) = StackNow
        BY <3>2 DEF Taken
      <4> QED
        BY <3>1, <4>1 DEF Complete
    <3>3. CASE seen[u] # 0
      BY <3>1, <3>3 DEF Taken
    <3> QED
      BY <3>2, <3>3
  <2>5. CASE BuildFails(u)
    BY <2>5 DEF BuildFails
  <2>6. CASE Create(u)
    BY <2>6 DEF Create, LockInv, StackNow, Complete
  <2> QED
    BY <2>1, <2>2, <2>3, <2>4, <2>5, <2>6
<1> QED
  BY <1>1, InitSrv, SrvStep, PTL DEF ServersSpec, KeptWhileUsed

\* What a call achieves shows that Nova is done with it.
LEMMA AchievedMeansDone ==
  ASSUME SrvInv, NEW u \in Users, u \in Busy \ disturbed, point[u] \in {"look", "wait"},
         status = IF ShuttingOff(u) THEN "SHUTOFF" ELSE "ACTIVE"
  PROVE  task = "none"
<1>1. task \in {"none", "build"} \cup MayAsk(op[u]) /\ op[u] \in Operations
  BY DEF SrvInv, Lone, Requested
<1>2. CASE task # "none"
  <2>1. status \in ShownWhile(task)
    BY <1>2 DEF SrvInv, NovaShows
  <2> QED
    BY <1>1, <2>1, ServersAssumption DEF MayAsk, ShownWhile, ShuttingOff, Ensuring
<1> QED
  BY <1>2

\* A call that nothing disturbed ends well only when Nova is done with the server,
\* which is then off or active, as the call is meant to leave it
\* (wait_for_server_status).
THEOREM DoneIsSettled == ServersSpec => DoneMeansSettled
<1> DEFINE Done(u) ==
      point[u] # "ok" /\ point'[u] = "ok" /\ u \notin disturbed
      => /\ task' = "none"
         /\ u \notin odd => status' = IF ShuttingOff(u) THEN "SHUTOFF" ELSE "ACTIVE"
<1>1. SrvInv /\ [ServersNext]_serverVars => [\A u \in Users : Done(u)]_serverVars
  <2> SUFFICES ASSUME SrvInv, ServersNext, NEW u \in Users,
                      point[u] # "ok", point'[u] = "ok", u \notin disturbed
               PROVE  /\ task' = "none"
                      /\ u \notin odd => status' = IF ShuttingOff(u) THEN "SHUTOFF" ELSE "ACTIVE"
    OBVIOUS
  <2>1. LookAtServer(u) \/ Reached(u)
    BY DEF SrvInv, ServersTypeOK, ServersNext, UserStep, SetupStep, CleanupStep, CallStep,
       NovaCompletes,
       NovaFails, Begin, EndTest, GetServerId, NoServerId, Setup, FindStack, StackCreated, FindFailed,
       MakeFails, Create, Built, BuildFails, Register, Booted, Ready, BootStuck, Answers, SetupFails,
       Unwind, Removeme, DeleteStack, WaitUntilDeleted, CleanedUp, LookAtServer, Ask, Refused, Reached,
       Unexpected, TimedOut, WaitFails, Leave, Move, Decide, Achieved, Intend
  <2>2. u \in Busy \ disturbed /\ op[u] \in Operations /\ task' = task /\ status' = status
    BY <2>1 DEF LookAtServer, Reached, Busy, SrvInv, Requested, nova
  <2>3. CASE LookAtServer(u)
    <3>1. point[u] = "look" /\ Decide(u) /\ Calm(u) /\ Lone(u)
      BY <2>3 DEF LookAtServer, SrvInv
    <3>2. Achieved(u)
      BY <3>1 DEF Decide, Intend, Move, SrvInv, ServersTypeOK
    <3>3. op[u] \notin {"migrate", "live"}
      BY <3>2 DEF Achieved, Intend, Move, SrvInv, ServersTypeOK, Statuses
    <3>4. CASE op[u] = "reboot"
      <4>1. status = "REBOOT" /\ task = "none"
        BY <2>2, <3>1, <3>4 DEF Decide, Lone, Ensuring, Activating, ShuttingOff, Intend,
           Move, SrvInv, ServersTypeOK
      <4> QED
        BY <2>2, <3>1, <4>1 DEF Calm, Steady
    <3>5. CASE op[u] # "reboot"
      <4>1. status = IF ShuttingOff(u) THEN "SHUTOFF" ELSE "ACTIVE"
        BY <2>2, <3>1, <3>3, <3>5 DEF Decide, Activating, ShuttingOff, Intend, Move, SrvInv,
           ServersTypeOK
      <4> QED
        BY <2>2, <3>1, <4>1, AchievedMeansDone
    <3> QED
      BY <3>4, <3>5
  <2>4. CASE Reached(u)
    <3>1. point[u] = "wait" /\ status = want[u] /\ want[u] # "VERIFY_RESIZE"
      BY <2>4 DEF Reached, MustConfirm, Intend, Move, SrvInv, ServersTypeOK
    <3>2. status = IF ShuttingOff(u) THEN "SHUTOFF" ELSE "ACTIVE"
      BY <3>1 DEF SrvInv, Requested
    <3> QED
      BY <2>2, <3>1, <3>2, AchievedMeansDone
  <2> QED
    BY <2>1, <2>3, <2>4
<1> QED
  BY <1>1, InitSrv, SrvStep, PTL DEF ServersSpec, DoneMeansSettled
-----------------------------------------------------------------------------
(***************************************************************************)
(* The set-up of an image (Images).                                        *)
(***************************************************************************)
\* The greatest of a set of numbers is one of them.
LEMMA MaxOf ==
  ASSUME NEW N \in Nat, NEW S \in SUBSET (1 .. N), S # {}
  PROVE  Max(S) \in S
<1> DEFINE T == {N - i : i \in S}
<1>1. T \subseteq Nat /\ T # {}
  <2>1. \A i \in S : i \in 1 .. N /\ N - i \in Nat
    OBVIOUS
  <2>2. PICK i \in S : TRUE
    OBVIOUS
  <2> QED
    BY <2>1, <2>2
<1>2. PICK n \in T : \A m \in T : ~(<<m, n>> \in OpToRel(<, Nat))
  <2> HIDE DEF T
  <2> QED
    BY <1>1, WFMin, NatLessThanWellFounded
<1>3. \A m \in T : n <= m
  <2> SUFFICES ASSUME NEW m \in T, m < n PROVE FALSE
    BY <1>1
  <2>1. <<m, n>> \in OpToRel(<, Nat)
    BY <1>1 DEF OpToRel
  <2> QED
    BY <1>2, <2>1
<1>4. PICK i \in S : n = N - i
  OBVIOUS
<1>5. \A j \in S : i >= j
  <2> TAKE j \in S
  <2>1. N - i <= N - j
    BY <1>3, <1>4
  <2>2. i \in 1 .. N /\ j \in 1 .. N
    BY i \in S, j \in S, S \in SUBSET (1 .. N), Zenon
  <2> QED
    BY <2>1, <2>2
<1> QED
  BY <1>5 DEF Max

\* What find_image returns is an image that Glance lists, as it is.
LEMMA FoundType == ASSUME images \in [ImageIds -> ImageStatuses]
  PROVE /\ Found \in [id : ImageIds, status : ImageStatuses \ {"free", "gone"}] \cup {NoImage}
        /\ Found # NoImage => images[Found.id] = Found.status
<1>1. CASE Listed = {}
  BY <1>1 DEF Found
<1>2. CASE Listed # {}
  <2>1. Max(Listed) \in Listed
    BY <1>2, MaxOf, ImagesAssumption DEF Listed, ImageIds
  <2>2. Found = [id |-> Max(Listed), status |-> images[Max(Listed)]]
    BY <1>2 DEF Found
  <2> QED
    BY <2>1, <2>2 DEF Listed
<1> QED BY <1>1, <1>2

ImageStages == {"idle", "find", "getting", "delete", "create", "data", "download", "downloading",
           "rename", "open", "upload", "sending", "active", "tidy", "raise", "failed", "done",
           "dead"}

\* Nobody's business any more, or still its creator's, or usable and whole.
Cared(i) ==
  \/ creator[i] = "stranger" \/ own[creator[i]] = i \/ i \in undeleted
  \/ images[i] \in {"free", "gone"}
  \/ images[i] = "active"

WholeIfActive(i) ==
  creator[i] # "stranger" =>
    /\ images[i] # "importing"
    /\ images[i] = "active" /\ sized => contents[i] = "whole"

\* What a worker holds: an image of its own only while it sets it up, what it has
\* seen to be active stays so until it is deleted, and a file that is worth uploading.
Held(w) ==
  /\ uploadStage[w] = "create" => own[w] = 0
  /\ uploadStage[w] = "create" \/ own[w] # 0 => retries[w] = 0
  /\ known[w].status = "active" =>
       known[w].id \in ImageIds /\ images[known[w].id] \in {"active", "gone"}
  /\ uploadStage[w] = "rename" => fetched[w] # "nothing"
  /\ uploadStage[w] = "open" => imageFile # "nothing"
  /\ sized /\ uploadStage[w] \in {"rename", "upload", "sending"} => fetched[w] = "whole"

ImInv ==
  /\ ImagesTypeOK
  /\ \A i \in ImageIds : Cared(i) /\ WholeIfActive(i)
  /\ \A w \in Uploaders : Held(w)
  /\ sized => imageFile # "part"

LEMMA ImInit == ImagesInit => ImInv
<1> SUFFICES ASSUME ImagesInit PROVE ImInv
  OBVIOUS
<1>1. 0 \in 0 .. MaxImageSetUps
  BY ImagesAssumption
<1>2. ImagesTypeOK
  BY <1>1 DEF ImagesInit, ImagesTypeOK, ImageStatuses, Contents
<1> QED
  BY <1>2 DEF ImagesInit, ImInv, Cared, WholeIfActive, Held, NoImage

\* A step of one worker.
LEMMA ImStep ==
  ASSUME ImInv, NEW w \in Uploaders, ImagesTypeOK',
         \A v \in Uploaders \ {w} :
           /\ uploadStage'[v] = uploadStage[v] /\ known'[v] = known[v] /\ own'[v] = own[v]
           /\ retries'[v] = retries[v] /\ fetched'[v] = fetched[v],
         \A i \in ImageIds : images[i] \in {"active", "gone"} => images'[i] \in {"active", "gone"},
         sized' = sized,
         sized => imageFile' \in {imageFile, "whole"},
         imageFile' = "nothing" => imageFile = "nothing",
         Held(w)',
         \A i \in ImageIds : (Cared(i) /\ WholeIfActive(i))'
  PROVE  ImInv'
<1>1. ASSUME NEW v \in Uploaders \ {w} PROVE Held(v)'
  BY <1>1 DEF ImInv, Held
<1> QED
  BY <1>1 DEF ImInv

\* A step of one worker that changes neither the images nor whose they are.
LEMMA ImQuiet ==
  ASSUME ImInv, NEW w \in Uploaders, NEW s \in ImageStages, GoOn(w, s),
         UNCHANGED <<glance, sized, preventImageCreate, own, undeleted>>,
         imageFile' \in Contents, sized => imageFile' \in {imageFile, "whole"},
         imageFile' = "nothing" => imageFile = "nothing",
         NEW k \in [id : ImageIds, status : ImageStatuses \ {"free", "gone"}] \cup {NoImage},
         known' = [known EXCEPT ![w] = k],
         k # known[w] /\ k # NoImage => images[k.id] = k.status,
         NEW r \in {0, 1}, retries' = [retries EXCEPT ![w] = r], r = 1 => retries[w] = 1,
         s = "create" => own[w] = 0 /\ r = 0,
         NEW c \in Contents, fetched' = [fetched EXCEPT ![w] = c],
         s = "rename" => c # "nothing",
         s = "open" => imageFile' # "nothing",
         sized /\ s \in {"rename", "upload", "sending"} => c = "whole",
         imageClean' \subseteq Uploaders, setUps' \in 0 .. MaxImageSetUps
  PROVE  ImInv'
<1>1. uploadStage' \in [Uploaders -> ImageStages] /\ uploadStage'[w] = s
      /\ \A v \in Uploaders \ {w} : uploadStage'[v] = uploadStage[v]
  BY DEF GoOn, ImInv, ImagesTypeOK, ImageStages
<1>2. /\ known'[w] = k /\ retries'[w] = r /\ fetched'[w] = c
      /\ known' \in [Uploaders -> [id : ImageIds, status : ImageStatuses \ {"free", "gone"}]
                                  \cup {NoImage}]
      /\ retries' \in [Uploaders -> {0, 1}] /\ fetched' \in [Uploaders -> Contents]
      /\ \A v \in Uploaders \ {w} :
           known'[v] = known[v] /\ own'[v] = own[v] /\ retries'[v] = retries[v] /\ fetched'[v] = fetched[v]
  BY DEF ImInv, ImagesTypeOK
<1>3. ImagesTypeOK'
  BY <1>1, <1>2 DEF ImInv, ImagesTypeOK, ImageStages, glance
<1>5. Held(w)'
  <2>1. k.status = "active" => k.id \in ImageIds /\ images[k.id] \in {"active", "gone"}
    BY DEF ImInv, Held, NoImage
  <2> QED
    BY <1>1, <1>2, <2>1 DEF Held, ImInv, glance
<1>4. \A i \in ImageIds : (Cared(i) /\ WholeIfActive(i))'
  BY DEF ImInv, Cared, WholeIfActive, glance
<1> QED
  BY <1>1, <1>2, <1>3, <1>4, <1>5, ImStep DEF glance

\* Of these, the ones after which the worker remembers and holds what it did.
LEMMA ImMove ==
  ASSUME ImInv, NEW w \in Uploaders, NEW s \in ImageStages, GoOn(w, s),
         UNCHANGED <<glance, source, known, uploading, undeleted>>,
         s \notin {"create", "rename"}, s = "open" => imageFile # "nothing",
         sized /\ s \in {"upload", "sending"} => fetched[w] = "whole",
         imageClean' \subseteq Uploaders, setUps' \in 0 .. MaxImageSetUps
  PROVE  ImInv'
<1>1. /\ known' = [known EXCEPT ![w] = known[w]] /\ retries' = [retries EXCEPT ![w] = retries[w]]
      /\ fetched' = [fetched EXCEPT ![w] = fetched[w]]
      /\ known[w] \in [id : ImageIds, status : ImageStatuses \ {"free", "gone"}] \cup {NoImage}
      /\ retries[w] \in {0, 1} /\ fetched[w] \in Contents /\ imageFile \in Contents
  BY DEF ImInv, ImagesTypeOK, uploading
<1> QED
  BY <1>1, ImQuiet DEF uploading, source

\* A step of one worker that deletes images, or learns what is there.
LEMMA ImDelete ==
  ASSUME ImInv, NEW w \in Uploaders, NEW s \in ImageStages, GoOn(w, s),
         s \in {"raise", "idle", "done", "failed"},
         UNCHANGED <<contents, creator, source, setUps>>,
         \/ images' = images
         \/ \E i : images' = [images EXCEPT ![i] = "gone"],
         NEW k \in {known[w], NoImage}, known' = [known EXCEPT ![w] = k],
         \/ UNCHANGED <<uploading, undeleted>>
         \/ /\ own' = [own EXCEPT ![w] = 0] /\ retries' = [retries EXCEPT ![w] = 1]
            /\ fetched' = [fetched EXCEPT ![w] = "nothing"]
            /\ \/ /\ own[w] \in ImageIds => images'[own[w]] \in {"free", "gone"}
                  /\ undeleted' = undeleted
               \/ own[w] \in ImageIds /\ undeleted' = undeleted \cup {own[w]},
         imageClean' \subseteq Uploaders
  PROVE  ImInv'
<1>1. uploadStage' \in [Uploaders -> ImageStages] /\ uploadStage'[w] = s
      /\ \A v \in Uploaders \ {w} : uploadStage'[v] = uploadStage[v]
  BY DEF GoOn, ImInv, ImagesTypeOK, ImageStages
<1>2. /\ images' \in [ImageIds -> ImageStatuses]
      /\ \A i \in ImageIds : images'[i] \in {images[i], "gone"}
  BY DEF ImInv, ImagesTypeOK, ImageStatuses
<1>3. /\ known' \in [Uploaders -> [id : ImageIds, status : ImageStatuses \ {"free", "gone"}]
                                  \cup {NoImage}]
      /\ known'[w] = k /\ \A v \in Uploaders \ {w} : known'[v] = known[v]
  BY DEF ImInv, ImagesTypeOK
<1>4. CASE UNCHANGED <<uploading, undeleted>>
  <2>1. ImagesTypeOK'
    BY <1>1, <1>2, <1>3, <1>4 DEF ImInv, ImagesTypeOK, ImageStages, source, uploading
  <2>2. Held(w)'
    BY <1>1, <1>2, <1>3, <1>4 DEF ImInv, Held, source, uploading, NoImage
  <2>3. \A i \in ImageIds : (Cared(i) /\ WholeIfActive(i))'
    BY <1>2, <1>4 DEF ImInv, Cared, WholeIfActive, source, uploading
  <2> QED
    BY <1>1, <1>2, <1>3, <1>4, <2>1, <2>2, <2>3, ImStep DEF source, uploading, ImInv
<1>5. CASE /\ own' = [own EXCEPT ![w] = 0] /\ retries' = [retries EXCEPT ![w] = 1]
           /\ fetched' = [fetched EXCEPT ![w] = "nothing"]
           /\ \/ /\ own[w] \in ImageIds => images'[own[w]] \in {"free", "gone"}
                 /\ undeleted' = undeleted
              \/ own[w] \in ImageIds /\ undeleted' = undeleted \cup {own[w]}
  <2>1. /\ own' \in [Uploaders -> ImageIds \cup {0}] /\ retries' \in [Uploaders -> {0, 1}]
        /\ fetched' \in [Uploaders -> Contents] /\ own'[w] = 0
        /\ \A v \in Uploaders \ {w} :
             own'[v] = own[v] /\ retries'[v] = retries[v] /\ fetched'[v] = fetched[v]
    BY <1>5 DEF ImInv, ImagesTypeOK, Contents
  <2>2. ImagesTypeOK'
    BY <1>1, <1>2, <1>3, <1>5, <2>1 DEF ImInv, ImagesTypeOK, ImageStages, source
  <2>3. Held(w)'
    BY <1>1, <1>2, <1>3, <2>1 DEF ImInv, Held, source, NoImage
  <2>4. \A i \in ImageIds : (Cared(i) /\ WholeIfActive(i))'
    BY <1>2, <1>5, <2>1 DEF ImInv, ImagesTypeOK, Cared, WholeIfActive, source
  <2> QED
    BY <1>1, <1>2, <1>3, <1>5, <2>1, <2>2, <2>3, <2>4, ImStep DEF source, ImInv
<1> QED
  BY <1>4, <1>5

\* A step of one worker that keeps what it has downloaded, and shows one image in
\* another state.
LEMMA ImShow ==
  ASSUME ImInv, NEW w \in Uploaders, NEW s \in ImageStages, GoOn(w, s),
         s \in {"sending", "raise", "active", "tidy", "find"},
         UNCHANGED <<source, retries, fetched, imageClean, setUps, undeleted>>,
         images' \in [ImageIds -> ImageStatuses], contents' \in [ImageIds -> Contents],
         creator' \in [ImageIds -> Uploaders \cup {"stranger"}],
         own' \in [Uploaders -> ImageIds \cup {0}],
         \A v \in Uploaders \ {w} : own'[v] = own[v],
         own'[w] # 0 => retries[w] = 0,
         NEW k \in {known[w], NoImage}, known' = [known EXCEPT ![w] = k],
         \A i \in ImageIds : images[i] \in {"active", "gone"} => images'[i] \in {"active", "gone"},
         \A i \in ImageIds : (Cared(i) /\ WholeIfActive(i))',
         sized /\ s = "sending" => fetched[w] = "whole"
  PROVE  ImInv'
<1>1. uploadStage' \in [Uploaders -> ImageStages] /\ uploadStage'[w] = s
      /\ \A v \in Uploaders \ {w} : uploadStage'[v] = uploadStage[v]
  BY DEF GoOn, ImInv, ImagesTypeOK, ImageStages
<1>2. /\ known' \in [Uploaders -> [id : ImageIds, status : ImageStatuses \ {"free", "gone"}]
                                  \cup {NoImage}]
      /\ known'[w] = k /\ \A v \in Uploaders \ {w} : known'[v] = known[v]
  BY DEF ImInv, ImagesTypeOK
<1>3. ImagesTypeOK'
  BY <1>1, <1>2 DEF ImInv, ImagesTypeOK, ImageStages, source
<1>4. Held(w)'
  <2>1. retries[w] = 1 => own'[w] = 0
    BY DEF ImInv, ImagesTypeOK
  <2> QED
    BY <1>1, <1>2, <2>1 DEF ImInv, Held, NoImage, source
<1> QED
  BY <1>1, <1>2, <1>3, <1>4, ImStep DEF source, ImInv

\* The set-up of an image: the creation and the upload of its data.
LEMMA ImUploads ==
  ASSUME ImInv, NEW w \in Uploaders, BeginUpload(w) \/ EndUpload(w) \/ WaitEnds(w) \/ CreateImage(w)
  PROVE  ImInv'
<1> USE DEF At
<1>a. /\ ImagesTypeOK /\ Held(w) /\ known[w] \in {known[w], NoImage}
      /\ own[w] \in ImageIds \cup {0} /\ retries[w] \in {0, 1} /\ fetched[w] \in Contents
      /\ images \in [ImageIds -> ImageStatuses]
      /\ known[w] \in [id : ImageIds, status : ImageStatuses \ {"free", "gone"}] \cup {NoImage}
      /\ \A i \in ImageIds : Cared(i) /\ WholeIfActive(i)
  BY DEF ImInv, ImagesTypeOK
<1>b. ASSUME known' = known PROVE known' = [known EXCEPT ![w] = known[w]]
  BY <1>b, <1>a DEF ImagesTypeOK
<1>c. own[w] # 0 => retries[w] = 0
  BY <1>a DEF Held
<1>1. CASE BeginUpload(w)
  <2>1. /\ UNCHANGED <<contents, creator, source, known, uploading, imageClean, setUps,
                       undeleted>>
        /\ sized => fetched[w] = "whole"
    BY <1>1, <1>a DEF BeginUpload, Held
  <2>2. CASE images[known[w].id] = "queued" /\ known[w].id \in ImageIds
    <3>1. images' = [images EXCEPT ![known[w].id] = "saving"] /\ GoOn(w, "sending")
      BY <1>1, <2>2 DEF BeginUpload, ShowStatus
    <3>2. /\ images' \in [ImageIds -> ImageStatuses]
          /\ \A i \in ImageIds : images[i] \in {"active", "gone"} => images'[i] \in {"active", "gone"}
      BY <1>a, <2>2, <3>1 DEF ImageStatuses
    <3>3. \A i \in ImageIds : (Cared(i) /\ WholeIfActive(i))'
      BY <1>a, <2>1, <2>2, <3>1 DEF Cared, WholeIfActive, source, uploading
    <3> QED
      BY <1>a, <1>b, <1>c, <2>1, <3>1, <3>2, <3>3, ImShow DEF uploading, ImagesTypeOK,
         ImageStages
  <2>3. CASE GoOn(w, "raise") /\ images' = images
    BY <1>a, <2>1, <2>3, ImMove DEF glance, ImageStages, ImagesTypeOK
  <2>4. CASE known[w].id \notin ImageIds /\ images[known[w].id] = "queued"
    <3>1. GoOn(w, "sending") /\ images' = images
      BY <1>1, <1>a, <2>4 DEF BeginUpload, ShowStatus
    <3> QED
      BY <1>a, <2>1, <3>1, ImMove DEF glance, ImageStages, ImagesTypeOK
  <2> QED
    BY <1>1, <2>2, <2>3, <2>4 DEF BeginUpload
<1>2. CASE EndUpload(w)
  <2>1. /\ UNCHANGED <<creator, source, known, uploading, imageClean, setUps, undeleted>>
        /\ sized => fetched[w] = "whole"
    BY <1>2, <1>a DEF EndUpload, Held
  <2>2. PICK s \in {"active", "raise"} : GoOn(w, s)
    BY <1>2 DEF EndUpload
  <2>3. CASE images[known[w].id] = "saving" /\ known[w].id \in ImageIds
    <3>1. \/ images' = [images EXCEPT ![known[w].id] = "active"]
             /\ contents' = [contents EXCEPT ![known[w].id] = fetched[w]]
          \/ images' = [images EXCEPT ![known[w].id] = "queued"] /\ contents' = contents
      BY <1>2, <2>3 DEF EndUpload, ShowStatus
    <3>2. /\ images' \in [ImageIds -> ImageStatuses] /\ contents' \in [ImageIds -> Contents]
          /\ \A i \in ImageIds : images[i] \in {"active", "gone"} => images'[i] \in {"active", "gone"}
      BY <1>a, <2>3, <3>1 DEF ImageStatuses, ImagesTypeOK
    <3>3. \A i \in ImageIds : (Cared(i) /\ WholeIfActive(i))'
      BY <1>a, <2>1, <2>3, <3>1 DEF Cared, WholeIfActive, source, uploading, ImagesTypeOK
    <3> QED
      BY <1>a, <1>b, <1>c, <2>1, <2>2, <3>2, <3>3, ImShow DEF uploading, ImagesTypeOK,
         ImageStages
  <2>4. CASE images[known[w].id] # "saving" \/ known[w].id \notin ImageIds
    <3>1. images' = images /\ contents' = contents
      BY <1>2, <1>a, <2>4 DEF EndUpload, ShowStatus, ImagesTypeOK
    <3> QED
      BY <1>a, <2>1, <2>2, <3>1, ImMove DEF glance, ImageStages, ImagesTypeOK
  <2> QED
    BY <2>3, <2>4
<1>3. CASE WaitEnds(w)
  <2>1. UNCHANGED <<glance, source, known, retries, fetched, imageClean, setUps, undeleted>>
    BY <1>3 DEF WaitEnds
  <2>2. CASE known[w].status = "active" /\ known[w].id = own[w]
    <3>1. own' = [own EXCEPT ![w] = 0] /\ GoOn(w, "tidy")
      BY <1>3, <2>2 DEF WaitEnds
    <3>2. images[own[w]] \in {"active", "gone"}
      BY <1>a, <2>2 DEF Held
    <3>3. /\ own' \in [Uploaders -> ImageIds \cup {0}] /\ own'[w] = 0
          /\ \A v \in Uploaders \ {w} : own'[v] = own[v]
      BY <1>a, <3>1 DEF ImagesTypeOK
    <3>4. \A i \in ImageIds : (Cared(i) /\ WholeIfActive(i))'
      BY <1>a, <2>1, <3>2, <3>3 DEF Cared, WholeIfActive, source, glance, ImagesTypeOK
    <3> QED
      BY <1>a, <1>b, <1>c, <2>1, <3>1, <3>3, <3>4, ImShow DEF glance, ImagesTypeOK,
         ImageStages
  <2>3. CASE ~(known[w].status = "active" /\ known[w].id = own[w])
    <3>1. own' = own /\ \E s \in {"tidy", "raise"} : GoOn(w, s)
      BY <1>3, <1>a, <2>3 DEF WaitEnds, ImagesTypeOK
    <3> QED
      BY <1>a, <2>1, <3>1, ImMove DEF glance, uploading, ImageStages, ImagesTypeOK
  <2> QED
    BY <2>2, <2>3
<1>4. CASE CreateImage(w)
  <2>1. /\ UNCHANGED <<contents, source, retries, fetched, imageClean, setUps, undeleted>>
        /\ known' = [known EXCEPT ![w] = NoImage] /\ own[w] = 0 /\ uploadStage[w] = "create"
    BY <1>4, <1>a DEF CreateImage, Held
  <2>2. CASE GoOn(w, "raise") /\ UNCHANGED <<images, creator, own>>
    BY <1>a, <2>1, <2>2, ImDelete DEF uploading, ImageStages, ImagesTypeOK
  <2>3. ASSUME NEW i \in ImageIds, images[i] = "free", ShowStatus(i, "queued"),
               creator' = [creator EXCEPT ![i] = w], own' = [own EXCEPT ![w] = i], GoOn(w, "find")
        PROVE  ImInv'
    <3>1. /\ images' \in [ImageIds -> ImageStatuses]
          /\ creator' \in [ImageIds -> Uploaders \cup {"stranger"}]
          /\ \A j \in ImageIds : images[j] \in {"active", "gone"} => images'[j] \in {"active", "gone"}
          /\ own' \in [Uploaders -> ImageIds \cup {0}] /\ own'[w] = i
          /\ \A v \in Uploaders \ {w} : own'[v] = own[v]
      BY <1>a, <2>3 DEF ShowStatus, ImageStatuses, ImagesTypeOK
    <3>2. ASSUME NEW j \in ImageIds PROVE (Cared(j) /\ WholeIfActive(j))'
      <4>1. CASE j = i
        BY <1>a, <2>1, <2>3, <3>1, <4>1 DEF ShowStatus, Cared, WholeIfActive, ImagesTypeOK
      <4>2. CASE j # i
        <5>1. images'[j] = images[j] /\ creator'[j] = creator[j]
          BY <1>a, <2>3, <4>2 DEF ShowStatus, ImagesTypeOK
        <5> QED
          BY <1>a, <2>1, <3>1, <5>1 DEF Cared, WholeIfActive, source, ImagesTypeOK, ImageIds
      <4> QED
        BY <4>1, <4>2
    <3>3. retries[w] = 0
      BY <1>a, <2>1 DEF Held
    <3> QED
      BY <1>a, <2>1, <2>3, <3>1, <3>2, <3>3, ImShow DEF ImagesTypeOK, ImageStages
  <2> QED
    BY <1>4, <2>2, <2>3 DEF CreateImage
<1> QED
  BY <1>1, <1>2, <1>3, <1>4

\* The download of an image file, and the upload of what is in it.
LEMMA ImDownloads ==
  ASSUME ImInv, NEW w \in Uploaders,
         \/ LookAgain(w, "getting", GETTING_ACTIVE_STATUS) \/ LookAgain(w, "active", {"active"})
         \/ Find(w) \/ Choose(w) \/ EndDownload(w) \/ Rename(w) \/ Open(w)
  PROVE  ImInv'
<1> USE DEF At
<1>a. /\ ImagesTypeOK /\ Held(w)
      /\ own[w] \in ImageIds \cup {0} /\ retries[w] \in {0, 1} /\ fetched[w] \in Contents
      /\ images \in [ImageIds -> ImageStatuses] /\ imageFile \in Contents
      /\ known[w] \in [id : ImageIds, status : ImageStatuses \ {"free", "gone"}] \cup {NoImage}
      /\ sized => imageFile # "part"
      /\ uploadStage = [uploadStage EXCEPT ![w] = uploadStage[w]]
      /\ known = [known EXCEPT ![w] = known[w]] /\ retries = [retries EXCEPT ![w] = retries[w]]
      /\ fetched = [fetched EXCEPT ![w] = fetched[w]]
      /\ imageClean \subseteq Uploaders /\ setUps \in 0 .. MaxImageSetUps
  BY DEF ImInv, ImagesTypeOK
<1>b. /\ Found \in [id : ImageIds, status : ImageStatuses \ {"free", "gone"}] \cup {NoImage}
      /\ Found # NoImage => images[Found.id] = Found.status
  BY <1>a, FoundType
<1>1. ASSUME NEW s \in {"getting", "active"}, NEW e, LookAgain(w, s, e) PROVE ImInv'
  <2>1. /\ uploadStage[w] = s /\ known' = [known EXCEPT ![w] = Found] /\ GoOn(w, s)
        /\ UNCHANGED <<glance, source, uploading, imageClean, setUps, undeleted>>
    BY <1>1, <1>a DEF LookAgain, GoOn
  <2>2. s \in ImageStages /\ s \notin {"create", "rename", "open", "upload", "sending"}
    BY DEF ImageStages
  <2> QED
    BY <1>a, <1>b, <2>1, <2>2, ImQuiet DEF source, uploading
<1>2. CASE Find(w)
  <2>1. /\ GoOn(w, "getting")
        /\ UNCHANGED <<glance, source, uploading, imageClean, setUps, undeleted>>
        /\ \/ known' = [known EXCEPT ![w] = Found]
           \/ known' = [known EXCEPT ![w] = known[w]]
    BY <1>2, <1>a DEF Find
  <2> QED
    BY <1>a, <1>b, <2>1, ImQuiet DEF source, uploading, ImageStages
<1>3. CASE Choose(w)
  <2>1. UNCHANGED <<glance, source, known, own, fetched, imageClean, setUps, undeleted>>
    BY <1>3 DEF Choose
  <2>2. PICK s \in {"data", "active", "raise", "find", "create", "delete"}, r \in {0, 1} :
          /\ GoOn(w, s) /\ retries' = [retries EXCEPT ![w] = r] /\ (r = 1 => retries[w] = 1)
          /\ s = "create" => r = 0 /\ retries[w] # 0
    <3>1. CASE known[w].status \in GETTING_ACTIVE_STATUS
      <4>1. retries' = [retries EXCEPT ![w] = retries[w]]
        BY <1>3, <3>1, <1>a DEF Choose
      <4>2. GoOn(w, "data") \/ GoOn(w, "active")
        BY <1>3, <3>1 DEF Choose
      <4> QED
        BY <4>1, <4>2, <1>a
    <3>2. CASE known[w].status \notin GETTING_ACTIVE_STATUS
      <4>1. retries' = [retries EXCEPT ![w] = 0]
        BY <1>3, <3>2 DEF Choose
      <4>2. \E s \in {"raise", "find", "create", "delete"} :
              GoOn(w, s) /\ (s = "create" => retries[w] # 0)
        BY <1>3, <3>2 DEF Choose
      <4> QED
        BY <4>1, <4>2, <1>a
    <3> QED
      BY <3>1, <3>2
  <2>3. s = "create" => own[w] = 0
    BY <1>a, <2>2 DEF Held
  <2>4. s \in ImageStages /\ s \notin {"rename", "open", "upload", "sending"}
    BY DEF ImageStages
  <2> QED
    BY <1>a, <2>1, <2>2, <2>3, <2>4, ImQuiet DEF source
<1>4. CASE EndDownload(w)
  <2>1. PICK c \in {"part", "whole"} :
          /\ fetched' = [fetched EXCEPT ![w] = c]
          /\ GoOn(w, IF sized /\ c = "part" THEN "raise" ELSE "rename")
    BY <1>4 DEF EndDownload
  <2>2. PICK s \in {"raise", "rename"} : GoOn(w, s) /\ (s = "rename" /\ sized => c = "whole")
    BY <2>1
  <2>3. UNCHANGED <<glance, source, known, own, retries, imageClean, setUps, undeleted>>
    BY <1>4 DEF EndDownload
  <2> QED
    BY <1>a, <2>1, <2>2, <2>3, ImQuiet DEF source, ImageStages, Contents
<1>5. CASE Rename(w)
  <2>1. /\ GoOn(w, "open") /\ imageFile' = fetched[w] /\ fetched[w] # "nothing"
        /\ sized => fetched[w] = "whole"
        /\ UNCHANGED <<glance, sized, preventImageCreate, known, uploading, imageClean, setUps,
                       undeleted>>
    BY <1>5, <1>a DEF Rename, Held
  <2> QED
    BY <1>a, <2>1, ImQuiet DEF ImageStages, uploading
<1>6. CASE Open(w)
  <2>1. /\ GoOn(w, "upload") /\ fetched' = [fetched EXCEPT ![w] = imageFile]
        /\ sized => imageFile = "whole"
        /\ UNCHANGED <<glance, source, known, own, retries, imageClean, setUps, undeleted>>
    BY <1>6, <1>a DEF Open, Held, Contents
  <2> QED
    BY <1>a, <2>1, ImQuiet DEF ImageStages, source
<1> QED
  BY <1>1, <1>2, <1>3, <1>4, <1>5, <1>6

\* The other steps of a worker.
LEMMA ImMoves ==
  ASSUME ImInv, NEW w \in Uploaders,
         \/ SetUpImage(w) \/ DeleteUnfit(w) \/ GetData(w) \/ BeginDownload(w)
         \/ Tidy(w) \/ CleanUpImage(w) \/ UploaderDies(w)
  PROVE  ImInv'
<1> USE DEF At
<1>a. /\ ImagesTypeOK /\ Held(w)
      /\ own[w] \in ImageIds \cup {0} /\ imageFile \in Contents
      /\ sized => imageFile # "part"
      /\ known = [known EXCEPT ![w] = known[w]]
      /\ imageClean \subseteq Uploaders /\ setUps \in 0 .. MaxImageSetUps
      /\ images \in [ImageIds -> ImageStatuses]
  BY DEF ImInv, ImagesTypeOK
<1>1. CASE SetUpImage(w)
  <2>1. setUps' \in 0 .. MaxImageSetUps
    BY <1>1, <1>a, ImagesAssumption DEF SetUpImage
  <2> QED
    BY <1>1, <1>a, <2>1, ImMove DEF SetUpImage, ImageStages
<1>2. CASE GetData(w)
  <2>1. PICK s \in {"raise", "open", "download"} : GoOn(w, s) /\ (s = "open" => imageFile # "nothing")
    BY <1>2 DEF GetData
  <2> QED
    BY <1>2, <1>a, <2>1, ImMove DEF GetData, ImageStages
<1>3. CASE BeginDownload(w)
  <2>1. PICK s \in {"raise", "open", "downloading"} : GoOn(w, s) /\ (s = "open" => imageFile # "nothing")
    BY <1>3 DEF BeginDownload
  <2>2. UNCHANGED <<glance, source, known, uploading, imageClean, setUps, undeleted>>
    BY <1>3 DEF BeginDownload, FileWhileWritten, source
  <2> QED
    BY <1>a, <2>1, <2>2, ImMove DEF ImageStages
<1>4. CASE UploaderDies(w)
  BY <1>4, <1>a, ImMove DEF UploaderDies, ImageStages
<1>5. ASSUME NEW i, Delete(i)
      PROVE  images' = images \/ images' = [images EXCEPT ![i] = "gone"]
  BY <1>5 DEF Delete, ShowStatus
<1>6. CASE DeleteUnfit(w)
  <2>1. /\ GoOn(w, "raise")
        /\ images' = images \/ \E i : images' = [images EXCEPT ![i] = "gone"]
        /\ UNCHANGED <<contents, creator, source, known, uploading, imageClean, setUps,
                       undeleted>>
    BY <1>6, <1>5 DEF DeleteUnfit
  <2> QED
    BY <1>a, <2>1, ImDelete DEF ImageStages
<1>7. CASE Tidy(w)
  <2>1. PICK s \in {"done", "failed"} : GoOn(w, s) /\ imageClean' \subseteq Uploaders
    BY <1>7, <1>a DEF Tidy
  <2>2. /\ own' = [own EXCEPT ![w] = 0] /\ retries' = [retries EXCEPT ![w] = 1]
        /\ fetched' = [fetched EXCEPT ![w] = "nothing"]
        /\ UNCHANGED <<contents, creator, source, known, setUps>>
    BY <1>7 DEF Tidy
  <2>3. CASE own[w] # 0 /\ undeleted' = undeleted \cup {own[w]} /\ UNCHANGED images
    BY <1>a, <2>1, <2>2, <2>3, ImDelete DEF ImageStages
  <2>4. CASE own[w] = 0 /\ UNCHANGED images /\ UNCHANGED undeleted
    <3>1. own[w] \notin ImageIds
      BY <2>4, ImagesAssumption DEF ImageIds
    <3> QED
      BY <1>a, <2>1, <2>2, <2>4, <3>1, ImDelete DEF ImageStages
  <2>5. CASE own[w] # 0 /\ Delete(own[w]) /\ UNCHANGED undeleted
    <3>1. own[w] \in ImageIds => images'[own[w]] \in {"free", "gone"}
      BY <1>a, <2>5 DEF Delete, ShowStatus, Listed, ImageStatuses
    <3>2. images' = images \/ \E i : images' = [images EXCEPT ![i] = "gone"]
      BY <1>5, <2>5
    <3> QED
      BY <1>a, <2>1, <2>2, <2>5, <3>1, <3>2, ImDelete DEF ImageStages
  <2> QED
    BY <1>7, <2>3, <2>4, <2>5 DEF Tidy
<1>8. CASE CleanUpImage(w)
  <2>1. UNCHANGED <<contents, creator, source, uploading, setUps, undeleted>>
    BY <1>8 DEF CleanUpImage
  <2>2. images' = images \/ \E i : images' = [images EXCEPT ![i] = "gone"]
    BY <1>8, <1>5 DEF CleanUpImage
  <2>3. known' = known \/ known' = [known EXCEPT ![w] = NoImage]
    BY <1>8 DEF CleanUpImage
  <2>4. imageClean' \subseteq Uploaders
    BY <1>8, <1>a DEF CleanUpImage
  <2>5. PICK s \in {"idle", "done"} : GoOn(w, s)
    BY <1>8 DEF CleanUpImage
  <2> QED
    BY <1>a, <2>1, <2>2, <2>3, <2>4, <2>5, ImDelete DEF ImageStages
<1> QED
  BY <1>1, <1>2, <1>3, <1>4, <1>6, <1>7, <1>8

\* What the set-ups of an image rely on holds throughout.
LEMMA ImInductive == ImagesSpec => []ImInv
<1>1. ImInv /\ [ImagesNext]_imageVars => ImInv'
  <2> SUFFICES ASSUME ImInv, [ImagesNext]_imageVars PROVE ImInv'
    OBVIOUS
  <2>1. CASE UNCHANGED imageVars
    BY <2>1 DEF ImInv, ImagesTypeOK, Cared, WholeIfActive, Held, imageVars, glance, source,
       uploading
  <2>2. CASE GlanceImports
    <3>1. PICK i \in ImageIds : images[i] = "importing" /\ images' = [images EXCEPT ![i] = "active"]
      BY <2>2 DEF GlanceImports, ShowStatus
    <3>2. UNCHANGED <<contents, creator, source, uploadStage, known, uploading, imageClean,
                      setUps, undeleted>>
      BY <2>2 DEF GlanceImports
    <3>3. images' \in [ImageIds -> ImageStatuses] /\ creator[i] = "stranger"
      BY <3>1 DEF ImInv, ImagesTypeOK, ImageStatuses, WholeIfActive
    <3>4. ImagesTypeOK'
      BY <3>2, <3>3 DEF ImInv, ImagesTypeOK, source, uploading
    <3>5. \A j \in ImageIds : (Cared(j) /\ WholeIfActive(j))'
      BY <3>1, <3>2, <3>3 DEF ImInv, ImagesTypeOK, Cared, WholeIfActive, source, uploading
    <3>6. \A w \in Uploaders : Held(w)'
      BY <3>1, <3>2 DEF ImInv, ImagesTypeOK, Held, source, uploading
    <3> QED
      BY <3>2, <3>4, <3>5, <3>6 DEF ImInv, source
  <2> QED
    BY <2>1, <2>2, ImUploads, ImDownloads, ImMoves DEF ImagesNext
<1> QED
  BY <1>1, ImInit, PTL DEF ImagesSpec

\* The state is well formed: what a worker knows of an image is a status it had.
THEOREM ImagesTyped == ImagesSpec => []ImagesTypeOK
  BY ImInductive, PTL DEF ImInv

\* An image that is listed is its creator's to finish or to delete, or was left by
\* a worker that died; and one that is active is whole when the file was checked
\* against its size (GlanceImageFixture.create_image, upload_image, delete_image).
THEOREM ImagesWhole == ImagesSpec => []ImagesAreWholeOrOnTheirWay
<1>1. ImInv => ImagesAreWholeOrOnTheirWay
  BY DEF ImInv, ImagesAreWholeOrOnTheirWay, Cared, WholeIfActive, Listed
<1> QED
  BY <1>1, ImInductive, PTL
-----------------------------------------------------------------------------
(***************************************************************************)
(* The deployment of a load balancer (LoadBalancers).                      *)
(***************************************************************************)
Phases == {"idle", "locking", "find", "create", "wait", "vip", "leave", "failed", "deployed",
           "monitor", "dead"}

Deploying == {"find", "create", "wait", "vip", "leave", "failed"}

\* What a worker that deploys may rely on: the parts before its own are there.
Deployed(w) ==
  /\ phase[w] = "locking" => part[w] = LB
  /\ phase[w] \in Deploying =>
       1 .. part[w] - 1 \subseteq present /\ part[w] <= PartsOf(backends[w]) + 1
  /\ phase[w] \in {"create", "wait"} => part[w] <= PartsOf(backends[w])
  /\ phase[w] = "create" => part[w] \notin present
  /\ phase[w] = "wait" => part[w] \in present
  /\ phase[w] = "vip" => (part[w] = LB /\ LB \in present) \/ part[w] = PartsOf(backends[w]) + 1
  /\ phase[w] = "leave" => part[w] = PartsOf(backends[w]) + 1 /\ (dual => vip6)

\* A load balancer that nobody waits for is ready, or there is a reason.
ReadyOrReason ==
  \/ provisioning = "ACTIVE" \/ present = {} \/ monitoring \/ troubles > 0
  \/ \E w \in Deployers : phase[w] = "wait"

LBInv ==
  /\ LoadBalancersTypeOK
  /\ \A w \in Deployers : deployLock = w <=> phase[w] \in Deploying
  /\ \A w \in Deployers : Deployed(w)
  /\ provisioning = "ERROR" => troubles > 0
  /\ ReadyOrReason
  /\ ~twice

\* The numbers of parts.
LEMMA LBNumbers ==
  /\ "nobody" \notin Deployers
  /\ MaxBackends \in Nat /\ MaxDeployments \in Nat /\ MaxTroubles \in Nat
  /\ LB = 1 /\ Pool = 3 /\ MostParts \in Nat /\ MostParts >= 3
  /\ dual \in BOOLEAN => \A n \in 0 .. MaxBackends : PartsOf(n) \in 3 .. MostParts
  BY LoadBalancersAssumption DEF LB, Pool, MostParts, PartsOf

LEMMA LBInit == LoadBalancersInit => LBInv
<1> SUFFICES ASSUME LoadBalancersInit PROVE LBInv
  OBVIOUS
<1>1. \A w \in Deployers : phase[w] = "idle"
  BY DEF LoadBalancersInit
<1>2. LoadBalancersTypeOK
  <2>1. LB \in 1 .. MostParts + 1 /\ 0 \in 0 .. MaxBackends
        /\ 0 \in 0 .. MaxDeployments /\ 0 \in 0 .. MaxTroubles
    BY LBNumbers
  <2> HIDE DEF LB, MostParts
  <2> QED
    BY <2>1 DEF LoadBalancersInit, LoadBalancersTypeOK
<1>3. \A w \in Deployers : Deployed(w) /\ (deployLock = w <=> phase[w] \in Deploying)
  BY <1>1, LBNumbers DEF LoadBalancersInit, Deployed, Deploying
<1> QED
  BY <1>2, <1>3 DEF LoadBalancersInit, LBInv, ReadyOrReason

\* A step of one worker to another point; what it relies on has to be shown, the
\* others rely on what they relied on.
LEMMA LBMove ==
  ASSUME LBInv, NEW w \in Deployers, NEW p \in Phases, To(w, p),
         LoadBalancersTypeOK',
         Deployed(w)', ReadyOrReason', (provisioning = "ERROR" => troubles > 0)', ~twice',
         \A v \in Deployers : v # w => part'[v] = part[v] /\ backends'[v] = backends[v],
         dual' = dual, vip6 => vip6', present \subseteq present',
         present' = present \/ deployLock = w,
         \/ deployLock' = deployLock /\ (p \in Deploying <=> phase[w] \in Deploying)
         \/ deployLock = w /\ deployLock' = "nobody" /\ p \notin Deploying
         \/ deployLock = "nobody" /\ deployLock' = w /\ p \in Deploying
  PROVE  LBInv'
<1>1. phase'[w] = p /\ \A v \in Deployers : v # w => phase'[v] = phase[v]
  BY DEF To, LBInv, LoadBalancersTypeOK
<1>2. \A v \in Deployers : (deployLock = v <=> phase[v] \in Deploying)'
  BY <1>1, LBNumbers DEF LBInv, LoadBalancersTypeOK
<1>3. ASSUME NEW v \in Deployers, v # w PROVE Deployed(v)'
  <2>1. Deployed(v) /\ (deployLock = v <=> phase[v] \in Deploying)
    BY DEF LBInv
  <2>2. phase[v] \in Deploying => deployLock # w /\ present' = present
    BY <2>1, <1>3
  <2>3. PartsOf(backends[v])' = PartsOf(backends[v])
    BY <1>3 DEF PartsOf, Pool
  <2>4. phase'[v] = phase[v] /\ part'[v] = part[v]
    BY <1>1, <1>3
  <2> HIDE DEF PartsOf
  <2> QED
    BY <2>1, <2>2, <2>3, <2>4 DEF Deployed, Deploying, LB
<1> QED
  BY <1>2, <1>3 DEF LBInv

\* What Octavia does by itself, and what goes wrong in it.
LEMMA LBOctavia ==
  ASSUME LBInv, OctaviaCompletes \/ OctaviaFails \/ AllocateVip6
  PROVE  LBInv'
<1>1. UNCHANGED <<dual, present, deployLock, deployerVars, twice>>
  BY DEF OctaviaCompletes, OctaviaFails, AllocateVip6
<1>2. \A w \in Deployers : Deployed(w)'
  BY <1>1 DEF OctaviaCompletes, OctaviaFails, AllocateVip6, LBInv, Deployed, deployerVars,
     PartsOf
<1>3. LoadBalancersTypeOK'
  <2>1. troubles' \in 0 .. MaxTroubles
    BY LBNumbers DEF LBInv, LoadBalancersTypeOK, OctaviaCompletes, OctaviaFails,
       AllocateVip6, Trouble
  <2> QED
    BY <1>1, <2>1 DEF LBInv, LoadBalancersTypeOK, OctaviaCompletes, OctaviaFails,
       AllocateVip6,
       deployerVars
<1>4. (provisioning = "ERROR" => troubles > 0)' /\ ReadyOrReason'
  BY <1>1, LBNumbers DEF LBInv, LoadBalancersTypeOK, OctaviaCompletes, OctaviaFails,
     AllocateVip6,
     Trouble, ReadyOrReason, deployerVars
<1> QED
  BY <1>1, <1>2, <1>3, <1>4 DEF LBInv, deployerVars

\* The steps of a worker that touch neither the lock nor what is in Octavia.
LEMMA LBQuiet ==
  ASSUME LBInv, NEW w \in Deployers, NEW p \in Phases, To(w, p),
         UNCHANGED <<dual, octavia, twice>>,
         troubles' \in {troubles, troubles + 1}, troubles' <= MaxTroubles,
         deployments' \in 0 .. MaxDeployments,
         part' \in [Deployers -> 1 .. MostParts + 1],
         backends' \in [Deployers -> 0 .. MaxBackends],
         Deployed(w)', phase[w] = "wait" => provisioning = "ACTIVE" \/ troubles' > 0,
         \A v \in Deployers : v # w => part'[v] = part[v] /\ backends'[v] = backends[v],
         \/ deployLock' = deployLock /\ (p \in Deploying <=> phase[w] \in Deploying)
         \/ deployLock = w /\ deployLock' = "nobody" /\ p \notin Deploying
         \/ deployLock = "nobody" /\ deployLock' = w /\ p \in Deploying
  PROVE  LBInv'
<1>1. phase' \in [Deployers -> Phases] /\ \A v \in Deployers : v # w => phase'[v] = phase[v]
  BY DEF To, LBInv, LoadBalancersTypeOK, Phases
<1>2. troubles' \in 0 .. MaxTroubles /\ (troubles > 0 => troubles' > 0)
  BY LBNumbers DEF LBInv, LoadBalancersTypeOK
<1>3. LoadBalancersTypeOK'
  <2> HIDE DEF MostParts
  <2>1. deployLock' \in Deployers \cup {"nobody"}
    BY DEF LBInv, LoadBalancersTypeOK
  <2> QED
    BY <1>1, <1>2, <2>1 DEF LBInv, LoadBalancersTypeOK, octavia, Phases
<1>4. (provisioning = "ERROR" => troubles > 0)' /\ ReadyOrReason'
  BY <1>1, <1>2 DEF LBInv, ReadyOrReason, octavia
<1>5. ~twice' /\ dual' = dual /\ vip6' = vip6 /\ present' = present
  BY DEF LBInv, octavia
<1> QED
  BY <1>3, <1>4, <1>5, LBMove

\* Every step of a worker.
LEMMA LBStep ==
  ASSUME LBInv, NEW w \in Deployers,
         \/ \E n \in 0 .. MaxBackends : Deploy(w, n)
         \/ Synched(w) \/ FindPart(w) \/ CreatePart(w) \/ Provisioned(w) \/ HasVip6(w)
         \/ GivesUp(w) \/ LeaveDeployment(w) \/ DeployerDies(w)
         \/ FindMonitor(w) \/ CreateMonitor(w) \/ WithoutMonitor(w)
  PROVE  LBInv'
<1> USE DEF InPhase
<1>a. /\ LoadBalancersTypeOK /\ Deployed(w) /\ troubles <= MaxTroubles
      /\ (deployLock = w <=> phase[w] \in Deploying)
      /\ part[w] \in 1 .. MostParts + 1 /\ backends[w] \in 0 .. MaxBackends
      /\ PartsOf(backends[w]) \in 3 .. MostParts
      /\ phase[w] \in Phases
  BY LBNumbers DEF LBInv, LoadBalancersTypeOK, Phases
<1>b. ASSUME NEW p \in Phases, To(w, p) PROVE phase'[w] = p
  BY <1>b DEF To, LBInv, LoadBalancersTypeOK
<1>c. troubles \in Nat /\ MaxTroubles \in Nat
  BY LBNumbers DEF LBInv, LoadBalancersTypeOK
<1>1. ASSUME NEW n \in 0 .. MaxBackends, Deploy(w, n) PROVE LBInv'
  <2>1. /\ To(w, "locking") /\ phase[w] = "idle"
        /\ UNCHANGED <<dual, octavia, deployLock, troubles, twice>>
    BY <1>1 DEF Deploy
  <2>2. deployments' \in 0 .. MaxDeployments
    BY <1>1, LBNumbers DEF Deploy, LBInv, LoadBalancersTypeOK
  <2>3. /\ part' \in [Deployers -> 1 .. MostParts + 1]
        /\ backends' \in [Deployers -> 0 .. MaxBackends]
    <3>1. LB \in 1 .. MostParts + 1
      BY LBNumbers
    <3> QED
      BY <1>1, <3>1 DEF Deploy, LBInv, LoadBalancersTypeOK
  <2>4. Deployed(w)'
    BY <1>1, <2>1, <1>b DEF Deployed, Deploying, Phases, Deploy, LBInv, LoadBalancersTypeOK
  <2>5. \A v \in Deployers : v # w => part'[v] = part[v] /\ backends'[v] = backends[v]
    BY <1>1 DEF Deploy, LBInv, LoadBalancersTypeOK
  <2> QED
    BY <1>a, <1>c, <2>1, <2>2, <2>3, <2>4, <2>5, LBQuiet DEF Phases, Deploying
<1>2. CASE Synched(w)
  <2>1. /\ To(w, "find") /\ phase[w] = "locking" /\ deployLock = "nobody" /\ deployLock' = w
        /\ UNCHANGED <<dual, octavia, part, backends, deployments, troubles, twice>>
    BY <1>2 DEF Synched, Free
  <2>2. Deployed(w)'
    <3>1. part[w] = LB
      BY <1>a, <2>1 DEF Deployed
    <3>2. PartsOf(backends[w])' = PartsOf(backends[w])
      BY <2>1 DEF PartsOf
    <3>3. phase'[w] = "find" /\ part'[w] = 1 /\ PartsOf(backends[w])' \in 3 .. MostParts
      BY <1>a, <1>b, <2>1, <3>1, <3>2, LBNumbers DEF Phases
    <3>4. 1 .. part'[w] - 1 = {} /\ part'[w] <= PartsOf(backends[w])' + 1
      BY <3>3, LBNumbers
    <3> QED
      BY <3>3, <3>4 DEF Deployed
  <2> QED
    BY <1>a, <1>c, <2>1, <2>2, LBQuiet DEF LBInv, LoadBalancersTypeOK, Phases, Deploying
<1>3. CASE FindPart(w)
  <2>1. /\ phase[w] = "find" /\ deployLock = w
        /\ UNCHANGED <<dual, octavia, deployLock, backends, deployments, troubles, twice>>
    BY <1>3, <1>a DEF FindPart, Deploying
  <2>2. /\ PartsOf(backends[w])' = PartsOf(backends[w]) /\ backends' = backends
        /\ present' = present /\ vip6' = vip6 /\ dual' = dual
    BY <2>1 DEF PartsOf, octavia
  <2>3. PICK p \in {"vip", "leave", "create", "find"} : To(w, p)
    BY <1>3 DEF FindPart, To, LBInv, LoadBalancersTypeOK
  <2>4. phase'[w] = p
    BY <2>3, <1>b DEF Phases
  <2>5. ASSUME part' = part, Deployed(w)' PROVE LBInv'
    BY <1>a, <1>c, <2>1, <2>2, <2>3, <2>5, LBQuiet DEF LBInv, LoadBalancersTypeOK, Phases,
       Deploying
  <2>6. CASE part[w] > PartsOf(backends[w])
    <3>1. part' = part /\ To(w, IF dual THEN "vip" ELSE "leave")
      BY <1>3, <2>6 DEF FindPart
    <3>2. phase'[w] = IF dual THEN "vip" ELSE "leave"
      BY <3>1, <1>b DEF Phases
    <3>3. part[w] = PartsOf(backends[w]) + 1
      BY <1>a, <2>1, <2>6 DEF Deployed, Deploying
    <3> HIDE DEF PartsOf
    <3>4. Deployed(w)'
      BY <1>a, <2>1, <2>2, <3>1, <3>2, <3>3 DEF Deployed, Deploying
    <3> QED
      BY <3>1, <3>4, <2>5
  <2>7. CASE part[w] <= PartsOf(backends[w]) /\ part[w] \notin present
    <3>1. part' = part /\ To(w, "create")
      BY <1>3, <2>7, <1>a DEF FindPart
    <3>2. phase'[w] = "create"
      BY <3>1, <1>b DEF Phases
    <3> HIDE DEF PartsOf
    <3>4. Deployed(w)'
      BY <1>a, <2>1, <2>2, <2>7, <3>1, <3>2 DEF Deployed, Deploying
    <3> QED
      BY <3>1, <3>4, <2>5
  <2>8. CASE part[w] <= PartsOf(backends[w]) /\ part[w] \in present /\ part[w] = LB /\ dual /\ ~vip6
    <3>1. part' = part /\ To(w, "vip")
      BY <1>3, <2>8, <1>a DEF FindPart
    <3>2. phase'[w] = "vip"
      BY <3>1, <1>b DEF Phases
    <3> HIDE DEF PartsOf
    <3>4. Deployed(w)'
      BY <1>a, <2>1, <2>2, <2>8, <3>1, <3>2 DEF Deployed, Deploying
    <3> QED
      BY <3>1, <3>4, <2>5
  <2>9. CASE /\ part[w] <= PartsOf(backends[w]) /\ part[w] \in present
             /\ ~(part[w] = LB /\ dual /\ ~vip6)
    <3>1. NextPart(w) /\ phase' = phase
      BY <1>3, <2>9, <1>a DEF FindPart
    <3>2. /\ part'[w] = part[w] + 1 /\ \A v \in Deployers : v # w => part'[v] = part[v]
          /\ part' \in [Deployers -> 1 .. MostParts + 1]
      BY <1>a, <2>9, <3>1, LBNumbers DEF NextPart, LBInv, LoadBalancersTypeOK
    <3> HIDE DEF PartsOf
    <3>3. 1 .. part[w] \subseteq present
      BY <1>a, <2>1, <2>9 DEF Deployed, Deploying
    <3>4. Deployed(w)'
      BY <1>a, <2>1, <2>2, <2>9, <3>1, <3>2, <3>3 DEF Deployed, Deploying
    <3>5. p = "find"
      BY <2>4, <3>1, <2>1
    <3> QED
      BY <1>a, <1>c, <2>1, <2>2, <2>3, <3>2, <3>4, <3>5, LBQuiet
         DEF LBInv, LoadBalancersTypeOK, Phases, Deploying
  <2> QED
    BY <1>a, <2>6, <2>7, <2>8, <2>9
<1>4. CASE CreatePart(w)
  <2>1. /\ phase[w] = "create" /\ deployLock = w /\ part[w] \notin present
        /\ 1 .. part[w] - 1 \subseteq present /\ part[w] <= PartsOf(backends[w])
        /\ UNCHANGED <<dual, vip6, monitored, monitoring, deployLock, part, backends,
                       deployments, troubles>>
    BY <1>4, <1>a DEF CreatePart, Deployed, Deploying
  <2>2. PartsOf(backends[w])' = PartsOf(backends[w])
    BY <2>1 DEF PartsOf
  <2>3. CASE Changeable(part[w])
    <3>1. /\ present' = present \cup {part[w]} /\ provisioning' = "PENDING"
          /\ twice' = twice /\ To(w, "wait")
      BY <1>4, <2>1, <2>3 DEF CreatePart, LBInv, LoadBalancersTypeOK
    <3>2. phase'[w] = "wait" /\ phase' \in [Deployers -> Phases]
      BY <3>1, <1>b DEF Phases, To, LBInv, LoadBalancersTypeOK
    <3>3. Deployed(w)'
      BY <2>1, <2>2, <3>1, <3>2, <1>a DEF Deployed, LBInv, LoadBalancersTypeOK, Deploying
    <3>4. present' \in SUBSET (1 .. MostParts)
      <4>1. part[w] \in 1 .. MostParts /\ present \subseteq 1 .. MostParts
        BY <1>a, <2>1, LBNumbers DEF LoadBalancersTypeOK
      <4> QED
        BY <3>1, <4>1
    <3>5. LoadBalancersTypeOK'
      BY <2>1, <3>1, <3>2, <3>4 DEF LBInv, LoadBalancersTypeOK, Phases
    <3>6. ReadyOrReason' /\ ~twice'
      BY <3>1, <3>2 DEF ReadyOrReason, LBInv
    <3> QED
      BY <2>1, <3>1, <3>3, <3>5, <3>6, LBMove DEF Phases, Deploying
  <2>4. CASE ~Changeable(part[w])
    <3>1. To(w, "failed") /\ UNCHANGED <<present, provisioning, twice>>
      BY <1>4, <2>4 DEF CreatePart
    <3>2. phase'[w] = "failed"
      BY <3>1, <1>b DEF Phases
    <3>3. Deployed(w)'
      BY <2>1, <2>2, <3>1, <3>2, <1>a DEF Deployed, Deploying
    <3> QED
      BY <1>a, <1>c, <2>1, <3>1, <3>3, LBQuiet DEF LBInv, LoadBalancersTypeOK, Phases,
         Deploying,
         octavia
  <2> QED
    BY <2>3, <2>4
<1>5. ASSUME NextPart(w), To(w, "find"), part[w] <= PartsOf(backends[w]), part[w] \in present,
             UNCHANGED <<dual, octavia, deployLock, backends, deployments, troubles, twice>>,
             phase[w] \in Deploying, phase[w] = "wait" => provisioning = "ACTIVE"
      PROVE  LBInv'
  <2>1. /\ PartsOf(backends[w])' = PartsOf(backends[w]) /\ present' = present
        /\ phase'[w] = "find"
    BY <1>5, <1>b DEF PartsOf, octavia, Phases
  <2>2. /\ part'[w] = part[w] + 1 /\ \A v \in Deployers : v # w => part'[v] = part[v]
        /\ part' \in [Deployers -> 1 .. MostParts + 1]
    BY <1>a, <1>5, LBNumbers DEF NextPart, LBInv, LoadBalancersTypeOK
  <2>3. 1 .. part[w] \subseteq present
    BY <1>a, <1>5 DEF Deployed, Deploying
  <2>4. Deployed(w)'
    BY <1>a, <1>5, <2>1, <2>2, <2>3 DEF Deployed, Deploying
  <2> QED
    BY <1>a, <1>c, <1>5, <2>2, <2>4, LBQuiet
       DEF LBInv, LoadBalancersTypeOK, Phases, Deploying
<1>6. CASE Provisioned(w)
  BY <1>5, <1>6, <1>a DEF Provisioned, Deployed, Deploying
<1>7. CASE HasVip6(w)
  <2>1. /\ phase[w] = "vip" /\ vip6 /\ deployLock = w
        /\ UNCHANGED <<dual, octavia, deployLock, backends, deployments, troubles, twice>>
    BY <1>7, <1>a DEF HasVip6, Deploying
  <2>2. CASE part[w] = LB
    <3>1. part[w] <= PartsOf(backends[w]) /\ part[w] \in present
      BY <1>a, <2>1, <2>2, LBNumbers DEF Deployed
    <3> QED
      BY <1>5, <1>7, <2>1, <2>2, <3>1 DEF HasVip6, Deploying
  <2>3. CASE part[w] # LB
    <3>1. To(w, "leave") /\ part' = part
      BY <1>7, <2>3 DEF HasVip6
    <3>2. /\ phase'[w] = "leave" /\ PartsOf(backends[w])' = PartsOf(backends[w])
          /\ present' = present /\ vip6' = vip6
      BY <2>1, <3>1, <1>b DEF Phases, PartsOf, octavia
    <3>3. Deployed(w)'
      BY <1>a, <2>1, <2>3, <3>1, <3>2 DEF Deployed, Deploying
    <3> QED
      BY <1>a, <1>c, <2>1, <3>1, <3>3, LBQuiet DEF LBInv, LoadBalancersTypeOK, Phases,
         Deploying
  <2> QED
    BY <2>2, <2>3
<1>8. CASE GivesUp(w)
  <2>1. /\ phase[w] \in {"wait", "vip"} /\ deployLock = w /\ To(w, "failed")
        /\ UNCHANGED <<dual, octavia, deployLock, part, backends, deployments, twice>>
    BY <1>8, <1>a DEF GivesUp, Deploying
  <2>2. /\ troubles' \in {troubles, troubles + 1} /\ troubles' <= MaxTroubles
        /\ provisioning = "ERROR" \/ troubles' > 0
    BY <1>8, <1>a, <1>c DEF GivesUp, Trouble
  <2>3. troubles' > 0
    BY <1>8, <1>c, <2>2 DEF GivesUp, LBInv
  <2>4. phase'[w] = "failed" /\ PartsOf(backends[w])' = PartsOf(backends[w]) /\ present' = present
    BY <2>1, <1>b DEF Phases, PartsOf, octavia
  <2>5. Deployed(w)'
    BY <1>a, <2>1, <2>4 DEF Deployed, Deploying
  <2> QED
    BY <2>1, <2>2, <2>3, <2>5, LBQuiet DEF LBInv, LoadBalancersTypeOK, Phases, Deploying
<1>9. ASSUME NEW p \in {"deployed", "idle", "dead", "monitor"}, To(w, p),
             UNCHANGED <<dual, octavia, part, backends, deployments, twice>>,
             troubles' \in {troubles, troubles + 1}, troubles' <= MaxTroubles,
             phase[w] = "wait" => troubles' > 0,
             \/ deployLock = w /\ deployLock' = "nobody"
             \/ deployLock' = deployLock /\ phase[w] \notin Deploying
      PROVE  LBInv'
  <2>1. Deployed(w)'
    BY <1>b, <1>9 DEF Deployed, Deploying, Phases
  <2> QED
    BY <1>9, <2>1, LBQuiet DEF LBInv, LoadBalancersTypeOK, Phases, Deploying
<1>10. CASE LeaveDeployment(w)
  BY <1>9, <1>10, <1>a, <1>c DEF LeaveDeployment, Deploying
<1>11. CASE DeployerDies(w)
  BY <1>9, <1>11, <1>a, <1>c DEF DeployerDies, Trouble
<1>12. CASE FindMonitor(w) \/ WithoutMonitor(w)
  BY <1>9, <1>12, <1>a, <1>c DEF FindMonitor, WithoutMonitor, Deploying
<1>13. CASE CreateMonitor(w)
  <2>1. /\ phase[w] = "monitor" /\ To(w, "idle")
        /\ UNCHANGED <<dual, present, vip6, deployLock, part, backends, deployments, troubles,
                       twice>>
    BY <1>13 DEF CreateMonitor
  <2>2. CASE UNCHANGED <<monitored, monitoring, provisioning>>
    BY <1>9, <1>a, <1>c, <2>1, <2>2 DEF octavia, Deploying
  <2>3. CASE monitored' = TRUE /\ monitoring' = TRUE /\ provisioning' = "PENDING"
    <3>1. phase'[w] = "idle" /\ phase' \in [Deployers -> Phases]
      BY <2>1, <1>b DEF Phases, To, LBInv, LoadBalancersTypeOK
    <3>2. Deployed(w)'
      BY <3>1 DEF Deployed, Deploying
    <3>3. LoadBalancersTypeOK'
      BY <2>1, <2>3, <3>1 DEF LBInv, LoadBalancersTypeOK, Phases
    <3> QED
      BY <2>1, <2>3, <3>1, <3>2, <3>3, LBMove DEF LBInv, Phases, Deploying, ReadyOrReason
  <2> QED
    BY <1>13, <2>2, <2>3 DEF CreateMonitor
<1> QED
  BY <1>1, <1>2, <1>3, <1>4, <1>6, <1>7, <1>8, <1>10, <1>11, <1>12, <1>13

\* What the deployments rely on holds throughout.
LEMMA LBInductive == LoadBalancersSpec => []LBInv
<1>1. LBInv /\ [LoadBalancersNext]_lbVars => LBInv'
  <2> SUFFICES ASSUME LBInv, [LoadBalancersNext]_lbVars PROVE LBInv'
    OBVIOUS
  <2>1. CASE UNCHANGED lbVars
    BY <2>1 DEF LBInv, LoadBalancersTypeOK, Deployed, ReadyOrReason, PartsOf, lbVars,
       octavia, deployerVars
  <2> QED
    BY <2>1, LBOctavia, LBStep DEF LoadBalancersNext
<1> QED
  BY <1>1, LBInit, PTL DEF LoadBalancersSpec

\* The state is well formed: a worker never deploys more parts than there are.
THEOREM LoadBalancersTyped == LoadBalancersSpec => []LoadBalancersTypeOK
  BY LBInductive, PTL DEF LBInv

\* What a worker asks Octavia for is accepted and is created once; and the load
\* balancer that it leaves is complete, and ready unless Octavia failed or a
\* health monitor is being added
\* (AmphoraIPv4LoadBalancerFixture, wait_for_active_members).
THEOREM DeploymentsDo == LoadBalancersSpec => []DeploymentsWork
<1>1. LBInv => DeploymentsWork
  <2> SUFFICES ASSUME LBInv PROVE DeploymentsWork
    OBVIOUS
  <2>1. ASSUME NEW w \in Deployers, phase[w] \in {"create", "leave"}, present # {}
        PROVE  provisioning = "ACTIVE" \/ monitoring \/ troubles > 0
    <3>1. \A v \in Deployers : phase[v] # "wait"
      BY <2>1 DEF LBInv, Deploying
    <3> QED
      BY <2>1, <3>1 DEF LBInv, ReadyOrReason
  <2>2. ASSUME NEW w \in Deployers, phase[w] = "create"
        PROVE  Changeable(part[w]) \/ monitoring \/ troubles > 0
    <3>1. part[w] # LB => present # {}
      <4>1. 1 .. part[w] - 1 \subseteq present /\ part[w] \in 1 .. MostParts + 1
        BY <2>2 DEF LBInv, LoadBalancersTypeOK, Deployed, Deploying
      <4>2. part[w] # 1 => 1 \in 1 .. part[w] - 1
        BY <4>1, LBNumbers
      <4> QED
        BY <4>1, <4>2, LBNumbers
    <3> QED
      BY <2>1, <2>2, <3>1 DEF Changeable
  <2>3. ASSUME NEW w \in Deployers, phase[w] = "leave"
        PROVE  /\ 1 .. PartsOf(backends[w]) \subseteq present /\ (dual => vip6)
               /\ provisioning = "ACTIVE" \/ monitoring \/ troubles > 0
    <3>1. PartsOf(backends[w]) \in 3 .. MostParts
      BY LBNumbers DEF LBInv, LoadBalancersTypeOK
    <3>2. /\ 1 .. part[w] - 1 \subseteq present /\ part[w] = PartsOf(backends[w]) + 1
          /\ (dual => vip6)
      BY <2>3 DEF LBInv, Deployed, Deploying
    <3>3. 1 .. PartsOf(backends[w]) \subseteq present /\ 1 \in 1 .. PartsOf(backends[w])
      BY <3>1, <3>2, LBNumbers
    <3> QED
      BY <2>1, <2>3, <3>2, <3>3
  <2> QED
    BY <2>2, <2>3 DEF DeploymentsWork, LBInv, InPhase
<1> QED
  BY <1>1, LBInductive, PTL
-----------------------------------------------------------------------------
(***************************************************************************)
(* The machines together (MCWaits).                                        *)
(***************************************************************************)
\* A behaviour of the machines together is a behaviour of each: what is proved of a
\* machine alone is true of it in a run that checks them together.
THEOREM EachIsItself ==
  WaitsSpec =>
    Spec /\ MonitorsSpec /\ RebootSpec /\ ServersSpec /\ ImagesSpec /\ LoadBalancersSpec
<1>1. WaitsInit =>
        /\ Init /\ MonitorsInit /\ RebootInit
        /\ ServersInit /\ ImagesInit /\ LoadBalancersInit
  BY DEF WaitsInit
<1>2. [WaitsNext]_waitsVars =>
        /\ [Next]_vars /\ [MonitorsNext]_monitorVars /\ [RebootNext]_rebootVars
        /\ [ServersNext]_serverVars /\ [ImagesNext]_imageVars /\ [LoadBalancersNext]_lbVars
  BY DEF WaitsNext, Rest, waitsVars, ofTobiko, ofTheCloud
<1> QED
  BY <1>1, <1>2, PTL
     DEF WaitsSpec, Spec, MonitorsSpec, RebootSpec, ServersSpec, ImagesSpec, LoadBalancersSpec

\* The state of the machines together is well formed.
THEOREM WaitsTyped == WaitsSpec => []WaitsTypeOK
  BY EachIsItself, RetryTyped, MonitorsTyped, RebootTyped, ServersTyped, ImagesTyped,
     LoadBalancersTyped, PTL DEF WaitsTypeOK
=============================================================================
