---------------------------- MODULE MCHeatSetups ----------------------------
(***************************************************************************)
(* Both kinds of stack fixture: those that are set up under an             *)
(* inter-worker lock, and those that are not, for which one test of each   *)
(* worker is enough.  A behaviour is one of the kind that is chosen first. *)
(***************************************************************************)
EXTENDS MCHeatStack

VARIABLE synched

setupsVars == <<synched, vars>>

U == INSTANCE HeatStack WITH Locked <- FALSE, MaxTests <- 1

SetupsInit == synched \in BOOLEAN /\ Init

Synched(A) == synched /\ A /\ UNCHANGED synched
Unsynched(A) == ~synched /\ A /\ UNCHANGED synched

SetupsNext == Synched(Next) \/ Unsynched(U!Next)

SetupsSpec ==
  /\ SetupsInit /\ [][SetupsNext]_setupsVars
  /\ WF_setupsVars(Synched(HeatStep)) /\ WF_setupsVars(Unsynched(U!HeatStep))
  /\ \A w \in Workers : /\ WF_setupsVars(Synched(Step(w)))
                         /\ WF_setupsVars(Unsynched(U!Step(w)))
=============================================================================
