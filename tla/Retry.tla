------------------------------- MODULE Retry -------------------------------
(***************************************************************************)
(* tobiko/common/_retry.py: the loop behind every wait of tobiko, here     *)
(* waiting for something to get ready as wait_for_status and ssh_connect   *)
(* do.  Time is counted in ticks from the start of the loop.               *)
(***************************************************************************)
EXTENDS Integers

CONSTANTS None,       \* a limit that is not set
          Counts,     \* values of count
          Timeouts,   \* values of timeout
          SleepTimes, \* values of sleep_time
          Intervals,  \* values of interval
          MaxBody,    \* bound: how long the body of the loop may take
          MaxLate,    \* bound: how much a sleep may be late
          Horizon     \* bound: end of the loops that have no limit

ASSUME RetryAssumption ==
  /\ None \notin Int
  /\ Counts \subseteq Nat \cup {None}
  /\ Timeouts \subseteq Nat \cup {None}
  /\ SleepTimes \subseteq Nat \cup {None}
  /\ Intervals \subseteq Nat \cup {None}
  /\ MaxBody \in Nat \ {0} /\ MaxLate \in Nat /\ Horizon \in Nat

VARIABLES
  limit,   \* the Retry object: count, timeout, sleep_time, interval
  ready,   \* when what is awaited gets ready (external)
  clock,   \* time since start_time
  pc,      \* control point of the loop
  number,  \* attempt.number
  elapsed  \* attempt.elapsed_time, read when the attempt began

vars == <<limit, ready, clock, pc, number, elapsed>>

TypeOK ==
  /\ limit \in [count : Counts, timeout : Timeouts,
                sleep_time : SleepTimes, interval : Intervals]
  /\ ready \in Nat
  /\ clock \in Nat
  /\ pc \in {"attempt", "check", "returned", "failed", "raised"}
  /\ number \in Nat \ {0}
  /\ elapsed \in 0 .. clock

\* Variant: itertools.count().
FromZero == 0

FirstNumber == 1

Init ==
  /\ limit \in [count : Counts, timeout : Timeouts,
                sleep_time : SleepTimes, interval : Intervals]
  /\ ready \in 0 .. Horizon
  /\ clock = 0
  /\ pc = "attempt"
  /\ number = FirstNumber
  /\ elapsed = 0
-----------------------------------------------------------------------------
(***************************************************************************)
(* The body of the loop takes some time, asks once in the course of it,    *)
(* and returns when what it asks for is ready.  Any call may be broken by  *)
(* an error the loop does not catch.                                       *)
(***************************************************************************)
Unlimited == limit.count = None /\ limit.timeout = None

Body(asked) ==
  /\ pc = "attempt"
  /\ Unlimited => clock < Horizon
  /\ \E d \in 1 .. MaxBody : clock' = clock + d
  /\ asked \in clock .. clock'
  /\ UNCHANGED <<limit, ready, number, elapsed>>

Return ==
  \E asked \in elapsed .. elapsed + MaxBody :
    Body(asked) /\ asked >= ready /\ pc' = "returned"

Fail ==
  \E asked \in elapsed .. elapsed + MaxBody :
    Body(asked) /\ asked < ready /\ pc' = "check"

Raise ==
  \E asked \in elapsed .. elapsed + MaxBody : Body(asked) /\ pc' = "raised"
-----------------------------------------------------------------------------
(***************************************************************************)
(* check_limits, called by the body when it has failed and by the loop:    *)
(* the time that counts is the one when the attempt began.                 *)
(***************************************************************************)
\* Variant: one attempt too many.
CountOverLate == limit.count # None /\ number > limit.count

CountOver == limit.count # None /\ number >= limit.count

\* Variant: the loop ends when it has no time for another wait.
TimeOverEarly == limit.timeout # None /\ clock + 1 >= limit.timeout

TimeOver == limit.timeout # None /\ elapsed >= limit.timeout

IsLast == CountOver \/ TimeOver

GiveUp ==
  /\ pc = "check"
  /\ IsLast
  /\ pc' = "failed"
  /\ UNCHANGED <<limit, ready, clock, number, elapsed>>
-----------------------------------------------------------------------------
(***************************************************************************)
(* Before the next attempt the loop sleeps, for sleep_time or to the next  *)
(* multiple of interval, if that time was left when the attempt began.     *)
(***************************************************************************)
NonNegative(t) == IF t > 0 THEN t ELSE 0

Due == number * limit.interval

SleepTime ==
  IF limit.sleep_time # None THEN limit.sleep_time
  ELSE IF limit.interval # None THEN NonNegative(Due - clock)
  ELSE 0

\* Variant: the loop sleeps however little time is left.
AlwaysFits == TRUE

Fits == limit.timeout # None => limit.timeout - elapsed > SleepTime

Again ==
  /\ pc = "check"
  /\ ~IsLast
  /\ IF SleepTime > 0 /\ Fits
     THEN \E late \in 0 .. MaxLate : clock' = clock + SleepTime + late
     ELSE clock' = clock
  /\ elapsed' = clock'
  /\ number' = number + 1
  /\ pc' = "attempt"
  /\ UNCHANGED <<limit, ready>>

Ended ==
  /\ pc \in {"returned", "failed", "raised"} \/ (Unlimited /\ clock >= Horizon)
  /\ UNCHANGED vars

Next == Return \/ Fail \/ Raise \/ GiveUp \/ Again \/ Ended

Spec == Init /\ [][Next]_vars
-----------------------------------------------------------------------------
\* The loop outlives its timeout by less than one body and one late sleep
\* when it begins its last attempt (Retry.__iter__).
Deadline ==
  limit.timeout # None /\ number > 1 =>
    elapsed < limit.timeout + MaxBody + MaxLate

\* A loop with a timeout only does not give up on what was ready in time: it
\* asks once more after the timeout (check_limits).
ReadyInTimeIsSeen ==
  pc = "failed" /\ limit.count = None => ready > limit.timeout

\* No more attempts than count, and no fewer unless the time was over.
CountRespected ==
  limit.count # None /\ limit.count > 0 =>
    /\ number <= limit.count
    /\ pc = "failed" /\ limit.timeout = None => number = limit.count

\* With an interval and no timeout no attempt begins before its time, and
\* short attempts do not drift: the sleeps make up for what the bodies took.
Paced ==
  /\ limit.timeout = None /\ limit.sleep_time = None /\ limit.interval # None
  /\ pc = "attempt"
  => /\ elapsed >= (number - 1) * limit.interval
     /\ MaxBody + MaxLate <= limit.interval =>
          elapsed <= (number - 1) * limit.interval + MaxLate

\* Both together: how many attempts there are, and when they begin (check_limits,
\* Retry.__iter__).
AttemptsAsLimited == CountRespected /\ Paced
=============================================================================
