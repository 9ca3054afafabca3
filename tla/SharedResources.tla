-------------------------- MODULE SharedResources --------------------------
(***************************************************************************)
(* What tobiko/common/_shelves.py promises to the fixtures: for every      *)
(* resource of every shelf, a set of the test cases registered as its      *)
(* users.  A test case is registered and unregistered atomically, no call  *)
(* ever touches the registration of another test case, and the sets are    *)
(* emptied only before the test run starts.                                *)
(***************************************************************************)
CONSTANTS Shelves,    \* shelf names
          Resources,  \* resource names, the keys of a shelf
          Ids         \* test case identifiers

VARIABLES users,      \* test cases registered for a resource of a shelf
          started     \* has the test run started?

absVars == <<users, started>>

AbsTypeOK ==
  /\ users \in [Shelves -> [Resources -> SUBSET Ids]]
  /\ started \in BOOLEAN

AbsInit ==
  /\ users \in [Shelves -> [Resources -> SUBSET Ids]]
  /\ started = FALSE

Register(t, s, r) ==
  /\ started
  /\ users' = [users EXCEPT ![s][r] = @ \cup {t}]
  /\ UNCHANGED started

Unregister(t, s, r) ==
  /\ started
  /\ users' = [users EXCEPT ![s][r] = @ \ {t}]
  /\ UNCHANGED started

\* The users left over by an earlier test run are forgotten, shelf by shelf.
Forget(s) ==
  /\ ~started
  /\ users' = [users EXCEPT ![s] = [r \in Resources |-> {}]]
  /\ UNCHANGED started

Start ==
  /\ ~started
  /\ started' = TRUE
  /\ UNCHANGED users

AbsNext ==
  \/ \E t \in Ids, s \in Shelves, r \in Resources :
       Register(t, s, r) \/ Unregister(t, s, r)
  \/ \E s \in Shelves : Forget(s)
  \/ Start

AbsSpec == AbsInit /\ [][AbsNext]_absVars
=============================================================================
