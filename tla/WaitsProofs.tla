---------------------------- MODULE WaitsProofs -----------------------------
(***************************************************************************)
(* Proofs about what tobiko does until something is so: Retry, Reboot and  *)
(* Monitors, for any limits, any time a step takes, and any number of      *)
(* runs, outages and monitors of every kind.                               *)
(***************************************************************************)
EXTENDS Retry, Reboot, Monitors, FiniteSetTheorems, WellFoundedInduction, TLAPS

(***************************************************************************)
(* The retry loop (Retry).                                                 *)
(***************************************************************************)
\* A limit that is set is a natural number.
LEMMA RetryLimits ==
  ASSUME TypeOK
  PROVE  /\ limit.count # None => limit.count \in Nat
         /\ limit.timeout # None => limit.timeout \in Nat
         /\ limit.sleep_time # None => limit.sleep_time \in Nat
         /\ limit.interval # None => limit.interval \in Nat
  BY RetryAssumption DEF TypeOK

\* What the loop sleeps is a time.
LEMMA SleepTimeIsNat ==
  ASSUME TypeOK
  PROVE  SleepTime \in Nat
<1>1. limit.interval # None => number * limit.interval \in Int
  BY RetryLimits DEF TypeOK
<1> QED
  BY <1>1, RetryLimits DEF SleepTime, NonNegative, Due, TypeOK

\* Before the next attempt time stands still, or passes by a sleep that fits.
LEMMA AgainTakes ==
  ASSUME TypeOK, Again
  PROVE  \/ clock' = clock
         \/ Fits /\ \E late \in 0 .. MaxLate : clock' = clock + SleepTime + late
  BY DEF Again

LEMMA BodyTakes ==
  ASSUME TypeOK, NEW asked, Body(asked)
  PROVE  /\ clock' \in Nat
         /\ clock <= clock'
         /\ clock' <= clock + MaxBody
         /\ asked >= clock
  BY RetryAssumption DEF Body, TypeOK

LEMMA RetryTypeInit == Init => TypeOK
  BY RetryAssumption DEF Init, TypeOK, FirstNumber

LEMMA RetryTypeStep == TypeOK /\ [Next]_vars => TypeOK'
<1> SUFFICES ASSUME TypeOK, [Next]_vars PROVE TypeOK'
  OBVIOUS
<1>1. ASSUME NEW asked, Body(asked),
             pc' \in {"returned", "check", "raised"}
      PROVE  TypeOK'
  BY <1>1, BodyTakes DEF Body, TypeOK
<1>2. CASE Return \/ Fail \/ Raise
  BY <1>1, <1>2 DEF Return, Fail, Raise
<1>3. CASE GiveUp
  BY <1>3 DEF GiveUp, TypeOK
<1>4. CASE Again
  <2>1. clock' \in Nat /\ clock <= clock'
    BY <1>4, AgainTakes, SleepTimeIsNat, RetryAssumption DEF TypeOK
  <2> QED
    BY <1>4, <2>1 DEF Again, TypeOK
<1>5. CASE Ended \/ UNCHANGED vars
  BY <1>5 DEF Ended, vars, TypeOK
<1> QED
  BY <1>2, <1>3, <1>4, <1>5 DEF Next
-----------------------------------------------------------------------------
\* The clock of an attempt and the one after its body, the limits that hold at
\* the check, and what the body has seen.
Clocks ==
  /\ pc = "attempt" => clock = elapsed
  /\ clock <= elapsed + MaxBody
  /\ pc \in {"check", "failed"} => elapsed < ready
  /\ pc = "failed" => IsLast

RetryInv == TypeOK /\ Clocks /\ Deadline

LEMMA RetryInvInit == Init => RetryInv
  BY RetryTypeInit, RetryAssumption
     DEF Init, RetryInv, Clocks, Deadline, FirstNumber, TypeOK

LEMMA RetryInvStep == RetryInv /\ [Next]_vars => RetryInv'
<1> SUFFICES ASSUME RetryInv, [Next]_vars PROVE RetryInv'
  OBVIOUS
<1>1. TypeOK /\ TypeOK'
  BY RetryTypeStep DEF RetryInv
<1>2. MaxBody \in Nat /\ MaxLate \in Nat
  BY RetryAssumption
<1>3. ASSUME NEW asked, Body(asked),
             \/ pc' \in {"returned", "raised"}
             \/ pc' = "check" /\ asked < ready
      PROVE  RetryInv'
  <2>1. clock = elapsed
    BY <1>3 DEF RetryInv, Clocks, Body
  <2>2. UNCHANGED <<limit, ready, number, elapsed>>
    BY <1>3 DEF Body
  <2>3. clock' <= elapsed' + MaxBody
    BY <1>1, <1>3, <2>1, <2>2, BodyTakes
  <2>4. pc' = "check" => elapsed' < ready'
    <3>1. asked \in clock .. clock'
      BY <1>3 DEF Body
    <3> QED
      BY <1>1, <1>3, <2>1, <2>2, <3>1 DEF TypeOK
  <2>5. Deadline'
    BY <2>2 DEF RetryInv, Deadline
  <2> QED
    BY <1>1, <1>3, <2>3, <2>4, <2>5 DEF RetryInv, Clocks
<1>4. CASE Return \/ Fail \/ Raise
  BY <1>3, <1>4 DEF Return, Fail, Raise
<1>5. CASE GiveUp
  BY <1>1, <1>5
     DEF GiveUp, RetryInv, Clocks, Deadline, IsLast, CountOver, TimeOver
<1>6. CASE Again
  <2>1. /\ elapsed' = clock' /\ pc' = "attempt" /\ limit' = limit
        /\ pc = "check" /\ ~TimeOver
    BY <1>6 DEF Again, IsLast
  <2>2. clock' <= elapsed' + MaxBody
    <3>1. clock' \in Nat
      BY <1>1 DEF TypeOK
    <3>2. \A t \in Nat : t <= t + MaxBody
      BY <1>2
    <3> QED
      BY <2>1, <3>1, <3>2
  <2>3. clock <= elapsed + MaxBody
    BY DEF RetryInv, Clocks
  <2>4. ASSUME limit.timeout # None
        PROVE  clock' < limit.timeout + MaxBody + MaxLate
    <3>1. limit.timeout \in Nat /\ elapsed < limit.timeout
      BY <1>1, <2>1, <2>4, RetryLimits DEF TimeOver, TypeOK
    <3>2. CASE clock' = clock
      BY <1>1, <1>2, <2>3, <3>1, <3>2 DEF TypeOK
    <3>3. ASSUME Fits, NEW late \in 0 .. MaxLate,
                 clock' = clock + SleepTime + late
          PROVE  clock' < limit.timeout + MaxBody + MaxLate
      <4>1. limit.timeout - elapsed > SleepTime
        BY <2>4, <3>3 DEF Fits
      <4>2. elapsed \in Nat /\ clock \in Nat /\ SleepTime \in Nat
        BY <1>1, SleepTimeIsNat DEF TypeOK
      <4> QED
        BY <1>2, <2>3, <3>1, <3>3, <4>1, <4>2
    <3> QED
      BY <1>1, <1>6, <3>2, <3>3, AgainTakes
  <2>5. Deadline'
    BY <2>1, <2>4 DEF Deadline
  <2> QED
    BY <1>1, <2>1, <2>2, <2>5 DEF RetryInv, Clocks
<1>7. CASE Ended \/ UNCHANGED vars
  BY <1>1, <1>7 DEF Ended, vars, RetryInv, Clocks, Deadline, IsLast, CountOver, TimeOver
<1> QED
  BY <1>4, <1>5, <1>6, <1>7 DEF Next
-----------------------------------------------------------------------------
\* The state is well formed: what the loop computes to sleep is never negative.
THEOREM RetryTyped == Spec => []TypeOK
  BY RetryTypeInit, RetryTypeStep, PTL DEF Spec

\* Whatever the limits, the last attempt of a loop with a timeout begins less
\* than one body and one late sleep after the timeout.
THEOREM LastAttemptIsNear == Spec => []Deadline
<1>1. RetryInv => Deadline
  BY DEF RetryInv
<1> QED
  BY <1>1, RetryInvInit, RetryInvStep, PTL DEF Spec

\* A loop that fails for its timeout alone has asked after the timeout, so it
\* fails only if what it waits for got ready later than that.
THEOREM ReadyIsSeen == Spec => []ReadyInTimeIsSeen
<1>1. RetryInv => ReadyInTimeIsSeen
  <2> SUFFICES ASSUME RetryInv, pc = "failed", limit.count = None
               PROVE  ready > limit.timeout
    BY DEF ReadyInTimeIsSeen
  <2>1. limit.timeout # None /\ elapsed >= limit.timeout /\ elapsed < ready
    BY DEF RetryInv, Clocks, IsLast, CountOver, TimeOver
  <2> QED
    BY <2>1, RetryLimits DEF RetryInv, TypeOK
<1> QED
  BY <1>1, RetryInvInit, RetryInvStep, PTL DEF Spec
-----------------------------------------------------------------------------
\* The attempts so far, and when the last of them began: with an interval the
\* sleep ends at a multiple of it, unless the body took longer.
Counted ==
  /\ limit.count # None /\ limit.count > 0 => number <= limit.count
  /\ limit.timeout = None /\ limit.sleep_time = None /\ limit.interval # None
     => /\ elapsed >= (number - 1) * limit.interval
        /\ MaxBody + MaxLate <= limit.interval =>
             elapsed <= (number - 1) * limit.interval + MaxLate

LEMMA CountedStep == RetryInv /\ Counted /\ [Next]_vars => Counted'
<1> SUFFICES ASSUME RetryInv, Counted, [Next]_vars PROVE Counted'
  OBVIOUS
<1>1. TypeOK /\ MaxBody \in Nat /\ MaxLate \in Nat
  BY RetryAssumption DEF RetryInv
<1>2. CASE UNCHANGED <<limit, number, elapsed>>
  BY <1>2 DEF Counted
<1>3. CASE Again
  <2>1. /\ limit' = limit /\ number' = number + 1 /\ elapsed' = clock'
        /\ ~IsLast /\ number \in Nat
    BY <1>1, <1>3 DEF Again, TypeOK
  <2>2. ASSUME limit.count # None, limit.count > 0 PROVE number' <= limit.count
    BY <1>1, <2>1, <2>2, RetryLimits DEF IsLast, CountOver
  <2>3. ASSUME limit.timeout = None, limit.sleep_time = None, limit.interval # None
        PROVE  /\ elapsed' >= (number' - 1) * limit.interval
               /\ MaxBody + MaxLate <= limit.interval =>
                    elapsed' <= (number' - 1) * limit.interval + MaxLate
    <3> DEFINE I == limit.interval
               D == number * I
               P == (number - 1) * I
    <3>1. I \in Nat /\ D \in Int /\ P \in Int /\ P = D - I /\ (number' - 1) * I = D
      <4>1. I \in Nat
        BY <1>1, <2>3, RetryLimits
      <4>2. number' - 1 = number
        BY <2>1
      <4> QED
        BY <2>1, <4>1, <4>2
    <3>2. /\ SleepTime = NonNegative(D - clock) /\ Fits
      BY <2>3 DEF SleepTime, Due, Fits
    <3>3. \/ D <= clock /\ clock' = clock
          \/ D > clock /\ \E late \in 0 .. MaxLate : clock' = D + late
      <4> HIDE DEF D, P, I
      <4>1. clock \in Nat
        BY <1>1 DEF TypeOK
      <4> QED
        BY <1>1, <1>3, <3>1, <3>2, <4>1 DEF Again, NonNegative
    <3>4. clock <= elapsed + MaxBody /\ elapsed \in Nat /\ clock \in Nat
      BY <1>1 DEF RetryInv, Clocks, TypeOK
    <3>5. MaxBody + MaxLate <= I => elapsed <= P + MaxLate
      BY <2>3 DEF Counted
    <3>6. elapsed' >= D /\ (MaxBody + MaxLate <= I => elapsed' <= D + MaxLate)
      <4> HIDE DEF D, P, I
      <4> QED
        BY <1>1, <2>1, <3>1, <3>3, <3>4, <3>5
    <3> QED
      BY <2>1, <3>1, <3>6
  <2> QED
    BY <2>1, <2>2, <2>3 DEF Counted
<1> QED
  BY <1>2, <1>3 DEF Next, Return, Fail, Raise, Body, GiveUp, Ended, vars

\* There are as many attempts as count, no more, and no fewer unless the time is
\* over; with an interval each begins at its time, and short ones do not drift.
THEOREM AttemptsAreCounted == Spec => []AttemptsAsLimited
<1>1. Init => Counted
  <2> SUFFICES ASSUME Init PROVE Counted
    OBVIOUS
  <2>1. TypeOK /\ number = 1 /\ elapsed = 0 /\ MaxLate \in Nat
    BY RetryTypeInit, RetryAssumption DEF Init, FirstNumber
  <2>2. ASSUME limit.interval # None PROVE (number - 1) * limit.interval = 0
    BY <2>1, <2>2, RetryLimits
  <2> QED
    BY <2>1, <2>2, RetryLimits DEF Counted
<1>2. RetryInv /\ Counted => AttemptsAsLimited
  <2> SUFFICES ASSUME RetryInv, Counted PROVE AttemptsAsLimited
    OBVIOUS
  <2>1. ASSUME pc = "failed", limit.timeout = None, limit.count # None, limit.count > 0
        PROVE  number = limit.count
    <3>1. number <= limit.count /\ number >= limit.count
      BY <2>1 DEF RetryInv, Clocks, Counted, IsLast, CountOver, TimeOver
    <3> QED
      BY <2>1, <3>1, RetryLimits DEF RetryInv, TypeOK
  <2> QED
    BY <2>1 DEF Counted, AttemptsAsLimited, CountRespected, Paced
<1> QED
  BY <1>1, <1>2, RetryInvInit, RetryInvStep, CountedStep, PTL DEF Spec
-----------------------------------------------------------------------------
(***************************************************************************)
(* The reboot of a host (Reboot).                                          *)
(***************************************************************************)
Sent == {"ping", "sleep_ping", "read", "sleep_read", "compare", "done"}

\* Until the host boots, the time of its last boot is the one it had when the
\* command was sent, and what it answers is at most one step old.
RebootInv ==
  /\ now \in Nat /\ booted \in Int /\ uptime \in Int /\ begun \in Int /\ attempt \in Nat
  /\ due.to \in Int /\ now <= due.to
  /\ started \in Nat \cup {NotSet}
  /\ stage = "send" => started \in Nat
  /\ stage \in Sent => started \in Nat
  /\ stage \in Sent /\ longUp /\ ~since => started - booted >= StepTime
  /\ stage = "compare" /\ ~since => uptime = due.to - StepTime - booted
  /\ rebooted => stage = "done" /\ (longUp => since)

LEMMA RebootTimes ==
  /\ StepTime \in Nat /\ StepTime > 0
  /\ WaitInterval \in Nat
  /\ NotSet \notin Int
  /\ FirstBoots \subseteq Int
  BY RebootAssumption

LEMMA RebootInvInit == RebootInit => RebootInv
  BY RebootTimes DEF RebootInit, RebootInv, Working, Sent

\* What a step that does not send, read or compare leaves alone.
LEMMA RebootQuiet ==
  ASSUME RebootInv, UNCHANGED <<now, booted, uptime, since, longUp>>,
         UNCHANGED rebooted \/ ~rebooted',
         begun' \in Int, attempt' \in Nat,
         started' = started, due'.to \in Int, now <= due'.to,
         stage' \in Sent => stage \in Sent, stage' \notin {"send", "compare", "done"},
         stage # "done"
  PROVE  RebootInv'
  BY DEF RebootInv, Sent

LEMMA ProceedWorks ==
  ASSUME RebootInv, NEW s, Proceed(s)
  PROVE  stage' = s /\ due'.to = now + StepTime /\ due'.to \in Int /\ now <= due'.to
  BY RebootTimes DEF Proceed, Working, RebootInv

LEMMA RebootInvStep == RebootInv /\ [RebootNext]_rebootVars => RebootInv'
<1> SUFFICES ASSUME RebootInv, [RebootNext]_rebootVars PROVE RebootInv'
  OBVIOUS
<1> USE DEF host, operation, loop, past
<1>1. CASE Tick
  BY <1>1 DEF Tick, RebootInv, Over
<1>2. CASE HostGoesDown
  BY <1>2 DEF HostGoesDown, RebootInv, Over
<1>3. CASE HostBoots
  BY <1>3 DEF HostBoots, RebootInv, Over
<1>4. CASE Wake
  <2>1. begun' \in Int /\ attempt' \in Nat
    BY <1>4 DEF Wake, RebootInv
  <2>2. ASSUME NEW s, Proceed(s), s \in {"connect", "ping", "read"},
               s \in Sent => stage \in Sent
        PROVE  RebootInv'
    BY <1>4, <2>1, <2>2, RebootQuiet, ProceedWorks DEF Wake
  <2>3. CASE stage = "sleep_connect"
    BY <1>4, <2>2, <2>3 DEF Wake, Sent
  <2>4. CASE stage = "sleep_ping"
    BY <1>4, <2>2, <2>4 DEF Wake, Sent
  <2>5. CASE stage = "sleep_read"
    BY <1>4, <2>2, <2>5 DEF Wake, Sent
  <2> QED
    BY <1>4, <2>3, <2>4, <2>5 DEF Wake
<1>5. CASE Connect
  <2>1. PICK s \in {"send", "unable"} : Proceed(s) /\ (s = "send" => started' = now)
    BY <1>5 DEF Connect
  <2> QED
    BY <1>5, <2>1, ProceedWorks DEF Connect, RebootInv, Sent
<1>6. CASE SendCommand
  <2>1. longUp' => started - booted >= StepTime
    BY <1>6, Zenon DEF SendCommand
  <2>2. /\ stage = "send" /\ Proceed("ping") /\ begun' = now /\ attempt' = 1
        /\ UNCHANGED <<now, booted, started, rebooted, uptime>>
    BY <1>6 DEF SendCommand, BeginLoop
  <2> QED
    BY <2>1, <2>2, ProceedWorks DEF RebootInv, Sent
<1>7. CASE SendFails
  <2>1. begun' \in Int /\ attempt' \in Nat
    BY <1>7 DEF SendFails, RebootInv
  <2>2. /\ stage = "send" /\ Proceed("unable")
        /\ UNCHANGED <<now, booted, uptime, since, longUp, started, rebooted>>
    BY <1>7 DEF SendFails
  <2> QED
    BY <2>1, <2>2, RebootQuiet, ProceedWorks DEF Sent
<1>8. ASSUME NEW s, Sleep(s)
      PROVE  stage' = s /\ due'.to \in Int /\ now <= due'.to
  <2>1. attempt * WaitInterval \in Int
    BY RebootTimes DEF RebootInv
  <2>2. TimeToSleep \in Int /\ TimeToSleep >= 0
    BY <2>1 DEF TimeToSleep, RebootInv
  <2> QED
    BY <1>8, <2>2 DEF Sleep, RebootInv
<1>9. ASSUME NEW s \in {"failed", "sleep_connect", "sleep_ping", "sleep_read"},
             Proceed(s) \/ Sleep(s),
             UNCHANGED <<now, booted, uptime, since, longUp, loop, started>>,
             UNCHANGED rebooted \/ ~rebooted',
             s \in Sent => stage \in Sent, stage # "done"
      PROVE  RebootInv'
  <2>1. stage' = s /\ due'.to \in Int /\ now <= due'.to
    BY <1>8, <1>9, ProceedWorks
  <2>2. begun' \in Int /\ attempt' \in Nat
    BY <1>9 DEF RebootInv
  <2> QED
    BY <1>9, <2>1, <2>2, RebootQuiet DEF Sent
<1>10. CASE ConnectAgain
  BY <1>9, <1>10 DEF ConnectAgain, Sent, Sleep
<1>11. CASE Ping
  <2>1. CASE BeginWait
    <3>1. Proceed("read") /\ begun' \in Int /\ attempt' \in Nat
      BY <2>1 DEF BeginWait, BeginLoop, RebootInv
    <3> QED
      BY <1>11, <3>1, ProceedWorks, RebootQuiet DEF Ping, Sent
  <2> QED
    BY <1>9, <1>11, <2>1 DEF Ping, Sent, Sleep
<1>12. CASE ReadUptime
  BY <1>12, ProceedWorks, RebootTimes DEF ReadUptime, RebootInv, Sent
<1>13. CASE ReadFails
  BY <1>9, <1>13 DEF ReadFails, ReadAgain, Sent, Sleep
<1>14. CASE Compare
  <2>1. CASE ~UpForLess
    <3>1. ~rebooted'
      BY <1>14, <2>1 DEF Compare
    <3>2. stage = "compare" /\ ReadAgain /\ UNCHANGED <<now, booted, started, uptime, since,
                                                        longUp>>
      BY <1>14, <2>1 DEF Compare
    <3> QED
      BY <1>9, <3>1, <3>2 DEF ReadAgain, Sent, Sleep
  <2>2. CASE UpForLess
    <3>1. longUp => since
      BY <1>14, <2>2, RebootTimes DEF Compare, UpForLess, RebootInv, Sent
    <3> QED
      BY <1>14, <2>2, <3>1, ProceedWorks DEF Compare, RebootInv, Sent
  <2> QED
    BY <2>1, <2>2
<1>15. CASE RebootEnded \/ UNCHANGED rebootVars
  BY <1>15 DEF RebootEnded, rebootVars, RebootInv
<1> QED
  BY <1>1, <1>2, <1>3, <1>4, <1>5, <1>6, <1>7, <1>10, <1>11, <1>12, <1>13, <1>14, <1>15
     DEF RebootNext, RebootStep
-----------------------------------------------------------------------------
\* Whatever the timeout, the attempts and the times that steps take: a host that
\* had been up for a step when it was told to reboot, and that is taken for
\* rebooted, has booted since (wait_for_operation).
THEOREM RebootedIsTrue == RebootSpec => []RebootedMeansBooted
<1>1. RebootInv => RebootedMeansBooted
  BY DEF RebootInv, RebootedMeansBooted
<1> QED
  BY <1>1, RebootInvInit, RebootInvStep, PTL DEF RebootSpec
-----------------------------------------------------------------------------
RebootTypedInv == RebootInv /\ RebootTypeOK

\* A timeout that is not set, or zero, is replaced by one that is neither.
LEMMA DefaultIsPositive ==
  ASSUME NEW t \in Nat \cup {NotSet}
  PROVE  OrDefault(t) \in Nat \ {0}
  BY RebootAssumption DEF OrDefault

\* The times of a step that works, begins a loop or sleeps.
LEMMA ProceedTyped ==
  ASSUME RebootTypeOK, NEW s, Proceed(s)
  PROVE  stage' = s /\ due' \in [from : Nat, to : Nat] /\ now <= due'.to
  BY RebootTimes DEF Proceed, Working, RebootTypeOK

\* The same of a step that goes to sleep.
LEMMA SleepTyped ==
  ASSUME RebootTypeOK, NEW s, Sleep(s)
  PROVE  stage' = s /\ due' \in [from : Nat, to : Nat] /\ now <= due'.to /\ UNCHANGED loop
<1>1. attempt * WaitInterval \in Nat /\ now - begun \in Nat /\ now \in Nat
  BY RebootTimes DEF RebootTypeOK
<1>2. TimeToSleep \in Nat
  BY <1>1 DEF TimeToSleep
<1> QED
  BY <1>1, <1>2 DEF Sleep

\* What has passed of a loop.
LEMMA Passed ==
  ASSUME NEW n \in Nat, NEW b \in 0 .. n
  PROVE  0 \in 0 .. n - b /\ n - b \in 0 .. n - b
<1>1. n - b \in Nat /\ n - b >= 0 /\ n - b <= n - b
  OBVIOUS
<1> QED
  BY <1>1

LEMMA RebootTypeStep == RebootTypedInv /\ [RebootNext]_rebootVars => RebootTypeOK'
<1> SUFFICES ASSUME RebootTypedInv, [RebootNext]_rebootVars PROVE RebootTypeOK'
  OBVIOUS
<1> USE DEF RebootTypedInv, host, operation, loop, past
<1>1. CASE Tick
  <2>1. /\ now' = now + 1 /\ now < due.to
        /\ UNCHANGED <<host, operation, stage, loop, due, uptime, past>>
    BY <1>1 DEF Tick
  <2>2. waited \in 0 .. now + 1 - begun /\ begun \in 0 .. now + 1
    BY DEF RebootTypeOK
  <2>3. /\ booted <= now + 1 /\ now + 1 \in Nat /\ now + 1 <= due.to
        /\ started \in {NotSet} \cup (0 .. now + 1)
    BY <2>1 DEF RebootTypeOK
  <2> QED
    BY <2>1, <2>2, <2>3 DEF RebootTypeOK
<1>2. CASE HostGoesDown \/ HostBoots
  <2>1. /\ reachable' \in BOOLEAN /\ pending' \in BOOLEAN /\ booted' \in {booted, now}
        /\ since' \in BOOLEAN /\ longUp' \in BOOLEAN
    BY <1>2 DEF HostGoesDown, HostBoots, RebootTypeOK
  <2>2. booted' \in Int /\ booted' <= now
    BY <2>1 DEF RebootTypeOK
  <2>3. UNCHANGED <<now, operation, stage, loop, due, uptime>>
    BY <1>2 DEF HostGoesDown, HostBoots
  <2> QED
    BY <2>1, <2>2, <2>3 DEF RebootTypeOK
<1>3. ASSUME NEW s \in {"connect", "send", "unable", "ping", "read", "compare", "sleep_connect",
                        "sleep_ping", "sleep_read", "done", "failed"},
             Proceed(s) \/ Sleep(s),
             UNCHANGED <<now, reachable, booted, timeout>>,
             pending' \in BOOLEAN, rebooted' \in BOOLEAN, since' \in BOOLEAN, longUp' \in BOOLEAN,
             started' \in {started, now},
             uptime' \in Nat,
             \/ Sleep(s) \/ UNCHANGED loop
             \/ /\ attempt' \in Nat \ {0} /\ waited' \in {0, now - begun'}
                /\ waitLimit' \in Nat \ {0} /\ begun' \in {begun, now}
      PROVE  RebootTypeOK'
  <2>1. stage' = s /\ due' \in [from : Nat, to : Nat] /\ now <= due'.to
    BY <1>3, ProceedTyped, SleepTyped
  <2>2. started' \in {NotSet} \cup (0 .. now)
    BY <1>3 DEF RebootTypeOK
  <2>3. /\ begun' \in 0 .. now /\ waited' \in 0 .. now - begun'
        /\ attempt' \in Nat \ {0} /\ waitLimit' \in Nat \ {0}
    <3>1. CASE UNCHANGED loop
      BY <3>1 DEF RebootTypeOK
    <3>2. CASE /\ attempt' \in Nat \ {0} /\ waited' \in {0, now - begun'}
               /\ waitLimit' \in Nat \ {0} /\ begun' \in {begun, now}
      <4>1. now \in Nat /\ begun \in 0 .. now /\ now \in 0 .. now
        BY DEF RebootTypeOK
      <4>2. begun' \in 0 .. now
        BY <3>2, <4>1
      <4>3. 0 \in 0 .. now - begun' /\ now - begun' \in 0 .. now - begun'
        BY <4>1, <4>2, Passed
      <4> QED
        BY <3>2, <4>2, <4>3
    <3> QED
      BY <1>3, <3>1, <3>2, SleepTyped
  <2> QED
    BY <1>3, <2>1, <2>2, <2>3 DEF RebootTypeOK
<1> USE DEF RebootTypeOK
<1>4. CASE Wake
  <2>1. attempt' \in Nat \ {0} /\ waited' = now - begun'
    BY <1>4 DEF Wake
  <2> QED
    BY <1>3, <1>4, <2>1 DEF Wake
<1>5. CASE Connect
  BY <1>3, <1>5 DEF Connect
<1>6. CASE SendCommand
  <2>0. (started - booted >= StepTime) \in BOOLEAN
    OBVIOUS
  <2>1. longUp' \in BOOLEAN
    BY <1>6, <2>0, Zenon DEF SendCommand
  <2>2. PingTime \in Nat \ {0} /\ 1 \in Nat \ {0}
    BY RebootAssumption
  <2> QED
    BY <1>3, <1>6, <2>1, <2>2 DEF SendCommand, BeginLoop
<1>7. CASE SendFails
  <2>1. pending' \in BOOLEAN
    BY <1>7, Zenon DEF SendFails
  <2> QED
    BY <1>3, <1>7, <2>1 DEF SendFails
<1>8. CASE ConnectAgain
  BY <1>3, <1>8 DEF ConnectAgain
<1>9. CASE Ping
  <2>1. CASE BeginWait
    <3>1. WaitTimeout \in Nat \cup {NotSet}
      <4>1. started \in Nat
        BY <1>9 DEF Ping, RebootInv, Sent
      <4> QED
        BY <4>1, RebootAssumption DEF WaitTimeout
    <3> QED
      BY <1>3, <1>9, <2>1, <3>1, DefaultIsPositive DEF Ping, BeginWait, BeginLoop
  <2> QED
    BY <1>3, <1>9, <2>1 DEF Ping
<1>10. CASE ReadUptime
  <2>1. now - booted \in Nat
    OBVIOUS
  <2> QED
    BY <1>3, <1>10, <2>1 DEF ReadUptime
<1>11. CASE ReadFails
  BY <1>3, <1>11 DEF ReadFails, ReadAgain
<1>12. CASE Compare
  <2>0. UpForLess \in BOOLEAN
    BY DEF UpForLess
  <2>1. rebooted' \in BOOLEAN
    BY <1>12, <2>0, Zenon DEF Compare
  <2> QED
    BY <1>3, <1>12, <2>1 DEF Compare, ReadAgain
<1>13. CASE RebootEnded \/ UNCHANGED rebootVars
  BY <1>13 DEF RebootEnded, rebootVars
<1> QED
  BY <1>1, <1>2, <1>4, <1>5, <1>6, <1>7, <1>8, <1>9, <1>10, <1>11, <1>12, <1>13 DEF
     RebootNext, RebootStep

\* The state is well formed: no step ends before it begins, no attempt has taken
\* longer than the loop has run, and the time of the command is in the past.
THEOREM RebootTyped == RebootSpec => []RebootTypeOK
<1>1. RebootInit => RebootTypedInv
  <2> SUFFICES ASSUME RebootInit PROVE RebootTypeOK
    BY RebootInvInit DEF RebootTypedInv
  <2>1. OrDefault(timeout) \in Nat \ {0}
    BY RebootAssumption, DefaultIsPositive DEF RebootInit
  <2>2. booted \in Int /\ booted <= 0 /\ StepTime \in Nat
    BY RebootAssumption DEF RebootInit
  <2>3. 0 \in 0 .. 0 /\ 0 \in 0 .. 0 - 0 /\ 1 \in Nat \ {0}
    OBVIOUS
  <2>4. due \in [from : Nat, to : Nat] /\ now <= due.to
    BY <2>2 DEF RebootInit, Working
  <2> QED
    BY <2>1, <2>2, <2>3, <2>4 DEF RebootInit, RebootTypeOK
<1>2. RebootTypedInv /\ [RebootNext]_rebootVars => RebootTypedInv'
  BY RebootInvStep, RebootTypeStep DEF RebootTypedInv
<1>3. RebootTypedInv => RebootTypeOK
  BY DEF RebootTypedInv
<1> QED
  BY <1>1, <1>2, <1>3, PTL DEF RebootSpec
-----------------------------------------------------------------------------
(***************************************************************************)
(* The runs of a monitor (Monitors).                                       *)
(***************************************************************************)
\* Steps that each kind of monitor takes a run through.
StepsOf(k) ==
  CASE k = "file" -> {"idle", "look", "read", "rename", "kill", "start", "confirm", "end"}
    [] k \in CommandPods -> {"idle", "look", "read", "delete", "start", "confirm", "end"}
    [] k = "iperf_pod" -> {"idle", "look", "stop", "delete", "read", "start", "confirm", "end"}
    [] k = "ping" -> {"idle", "look", "stop", "read", "start", "confirm", "end"}
    [] OTHER -> {"idle", "look", "stop", "wait", "read", "start", "confirm", "end"}

\* The pids to be killed are those of a run that has not killed them yet.
StepsInv ==
  /\ step \in StepsOf(kind)
  /\ step # "idle" => runs \in Pids
  /\ listed # {} => kind = "file" /\ step \in {"read", "rename", "kill", "end"}
  /\ lost => step = "idle"
  /\ log # {} => written
  /\ copy # {} => \/ kind = "file" /\ step = "rename"
                  \/ kind = "iperf_pod" /\ step \in {"delete", "read"}
  /\ failed => \/ step \in {"idle", "end"}
               \/ step \in {"start", "confirm"} /\ kind \in External
               \/ step \in {"delete", "read"} /\ kind = "iperf_pod"

\* The run has yet to start its monitor.
Unstarted ==
  \/ step \in {"look", "stop", "wait", "read", "kill", "delete", "start"}
  \/ step = "rename" /\ listed # {}

\* Each run starts one monitor at most; what it starts was not there before.
FreshInv ==
  /\ \A p \in Pids : (p > runs \/ (p = runs /\ Unstarted)) => monitors[p] = "unborn"
  /\ \A p \in recorded : monitors[p] # "unborn"

Still(p) == monitors[p] = "running" /\ (kind = "file" => p \in recorded)

\* Who goes on, by the time the next one is started.
SingleInv ==
  /\ kind # "iperf" => \A p, q \in Pids : Still(p) /\ Still(q) => p = q
  /\ kind = "file" /\ step \in {"read", "rename", "kill"} /\ Unstarted
     => \A p \in Pids : Still(p) => p \in listed
  /\ step = "start" /\ (kind \in Pods \cup {"file"} \/ ~failed) => \A p \in Pids : ~Still(p)
  /\ kind = "iperf_pod" /\ step = "read" => \A p \in Pids : ~Still(p)
  /\ ~failed /\ kind \in Hosted /\ (step \in {"start", "confirm"} \/ (step = "read" /\ kind # "ping"))
     => \A p \in Pids : monitors[p] # "dying"
  /\ ~failed /\ kind \in {"iperf","script"} /\ step = "read"
     => \A p \in Pids : monitors[p] # "running"

\* What was logged is in the log, or in what was read of it.
LogInv ==
  /\ reported \subseteq 1 .. outages
  /\ log \subseteq 1 .. outages
  /\ copy \subseteq 1 .. outages
  /\ kind # "pod" => log \cap reported = {} /\ copy \cap reported = {} /\ ~repeated
  /\ kind = "iperf_pod" /\ step = "read" => log = {}
  /\ step \in {"idle", "look"} => unread \subseteq log
  /\ lost => ~found \/ kind = "http_pod"
  /\ found /\ ~failed /\ kind # "http_pod" =>
       /\ step \notin {"rename", "delete"} /\ ~(kind = "iperf_pod" /\ step = "read")
          => unread \subseteq log
       /\ step = "rename" \/ (kind = "iperf_pod" /\ step \in {"delete", "read"})
          => unread \subseteq copy
       /\ kind = "pod" /\ step = "delete" => unread = {}
       /\ step = "start" /\ kind # "file" => unread = {}

MonInv ==
  /\ MonitorsTypeOK
  /\ StepsInv
  /\ FreshInv
  /\ SingleInv
  /\ LogInv

MonitorStates == {"unborn", "running", "dying", "exited", "gone"}

LEMMA InitMon == MonitorsInit => MonInv
<1> SUFFICES ASSUME MonitorsInit PROVE MonInv
  OBVIOUS
<1> USE MonitorsAssumption DEF MonitorsInit
<1>1. MonitorsTypeOK
  <2>1. 0 \in 0 .. MaxRuns /\ 0 \in 0 .. MaxOutages
    OBVIOUS
  <2>2. kind \in MonitorKinds /\ monitors \in [Pids -> MonitorStates]
    BY DEF MonitorStates
  <2> QED
    BY <2>1, <2>2 DEF MonitorsTypeOK, MonitorStates
<1>2. StepsInv
  BY DEF StepsInv, StepsOf
<1>3. FreshInv
  BY DEF FreshInv, Unstarted
<1>4. SingleInv
  BY DEF SingleInv, Still
<1>5. LogInv
  BY DEF LogInv
<1> QED
  BY <1>1, <1>2, <1>3, <1>4, <1>5 DEF MonInv

\* A monitor that a run starts is a new one.
LEMMA LaunchStep ==
  ASSUME MonInv, step = "start", NEW s, Launch(s)
  PROVE  \E new \in Pids :
           /\ monitors[new] = "unborn"
           /\ new <= runs
           /\ monitors' = [p \in Pids |-> IF p = new THEN s
                                  ELSE IF kind = "ping" /\ p \in Alive THEN "dying"
                                  ELSE monitors[p]]
<1>1. runs \in In({"unborn"}) /\ runs \in Nat
  BY DEF MonInv, StepsInv, FreshInv, Unstarted, In, Pids
<1>2. In({"unborn"}) \subseteq Nat
  BY DEF In, Pids
<1>3. PICK n \in In({"unborn"}) : \A m \in In({"unborn"}) : ~(<<m, n>> \in OpToRel(<, Nat))
  <2> HIDE DEF In
  <2> QED
    BY <1>1, <1>2, WFMin, NatLessThanWellFounded
<1>4. \A m \in In({"unborn"}) : n <= m
  <2> SUFFICES ASSUME NEW m \in In({"unborn"}), m < n PROVE FALSE
    BY <1>2
  <2>1. <<m, n>> \in OpToRel(<, Nat)
    BY <1>2 DEF OpToRel
  <2> QED
    BY <1>3, <2>1
<1> DEFINE new == CHOOSE q \in In({"unborn"}) : \A r \in In({"unborn"}) : q <= r
<1>5. new \in In({"unborn"}) /\ \A r \in In({"unborn"}) : new <= r
  BY <1>4
<1> HIDE DEF new
<1>6. new \in Pids /\ monitors[new] = "unborn" /\ new <= runs
  BY <1>1, <1>5 DEF In
<1> QED
  BY <1>6 DEF Launch, new

\* What a step leaves well formed of the run, and of the monitors.
TypeOfRun ==
  /\ step \in {"idle", "look", "stop", "wait", "read", "rename", "kill",
               "delete", "start", "confirm", "end"}
  /\ prevent \in BOOLEAN /\ found \in BOOLEAN /\ failed \in BOOLEAN
  /\ listed \in SUBSET Pids
  /\ copy \in SUBSET Outages
  /\ runs \in 0 .. MaxRuns

TypeOfLog ==
  /\ kind \in MonitorKinds
  /\ written \in BOOLEAN
  /\ log \in SUBSET Outages
  /\ outages \in 0 .. MaxOutages
  /\ unread \in SUBSET Outages /\ reported \in SUBSET Outages
  /\ lost \in BOOLEAN /\ repeated \in BOOLEAN

TypeOfMonitors ==
  /\ monitors \in [Pids -> MonitorStates]
  /\ recorded \in SUBSET Pids

\* The type invariant in three parts.
LEMMA TypeParts == MonitorsTypeOK <=> TypeOfRun /\ TypeOfLog /\ TypeOfMonitors
  BY DEF MonitorsTypeOK, TypeOfRun, TypeOfLog, TypeOfMonitors, MonitorStates

LEMMA RunTypeStep == MonInv /\ MonitorsNext => TypeOfRun'
<1> SUFFICES ASSUME MonInv, MonitorsNext PROVE TypeOfRun'
  OBVIOUS
<1> USE MonitorsAssumption, TypeParts DEF MonInv, TypeOfRun, call, Go, FailInto
<1>1. CASE BeginRun
  <2>1. runs' \in 0 .. MaxRuns
    BY <1>1 DEF BeginRun
  <2>2. /\ step' = "look" /\ prevent' \in BOOLEAN /\ found' = FALSE /\ failed' = FALSE
        /\ UNCHANGED <<listed, copy>>
    BY <1>1 DEF BeginRun
  <2> QED
    BY <2>1, <2>2
<1>2. CASE Look \/ WaitStopped \/ Confirm
  BY <1>2 DEF Look, WaitStopped, Confirm
<1>3. CASE StopPing \/ StopIperf \/ StopScript
  BY <1>3 DEF StopPing, Signal, AfterKill, StopIperf, StopScript
<1>4. CASE StorePodLog
  BY <1>4 DEF StorePodLog, TypeOfLog
<1>5. CASE CheckPing \/ CheckIperf \/ CheckScript
  BY <1>5 DEF CheckPing, CheckLog, Judge, Truncate, NothingRead, TooMany, CheckIperf,
     CheckScript
<1>6. CASE CheckStored
  BY <1>6 DEF CheckStored, Judge, TooMany
<1>7. CASE StartPing \/ StartIperf \/ StartScript \/ StartIperfPod
  BY <1>7 DEF StartPing, StartStep, Truncate, StartIperf, StartScript, StartIperfPod
<1>8. CASE ListPids
  <2>1. found' \in BOOLEAN
    BY <1>8, Zenon DEF ListPids
  <2>2. step' \in {"read", "start"} /\ failed' = failed /\ listed' = recorded \cap Running
        /\ UNCHANGED <<prevent, copy, runs>>
    BY <1>8 DEF ListPids
  <2> QED
    BY <2>1, <2>2 DEF TypeOfMonitors
<1>9. CASE ReadLog
  BY <1>9 DEF ReadLog, TypeOfLog
<1>10. CASE RenameLog
  BY <1>10 DEF RenameLog, Judge, AfterFailure, TooMany
<1>11. CASE KillListed
  BY <1>11 DEF KillListed
<1>12. CASE StartParent
  BY <1>12 DEF StartParent
<1>13. CASE LookForPod
  BY <1>13 DEF LookForPod
<1>14. CASE CheckPod
  BY <1>14 DEF CheckPod, Judge, TooMany
<1>15. CASE DeletePod
  BY <1>15 DEF DeletePod, Truncate
<1>16. CASE StartPod
  BY <1>16 DEF StartPod
<1>17. CASE EndRun
  BY <1>17 DEF EndRun
<1>18. CASE LogSuccess \/ LogOutage
  BY <1>18 DEF LogSuccess, Log, LogOutage
<1>19. CASE MonitorEnds
  BY <1>19 DEF MonitorEnds
<1> QED
  BY <1>1, <1>2, <1>3, <1>4, <1>5, <1>6, <1>7, <1>8, <1>9, <1>10, <1>11, <1>12, <1>13,
     <1>14, <1>15, <1>16, <1>17, <1>18, <1>19 DEF MonitorsNext, RunStep

LEMMA LogTypeStep == MonInv /\ MonitorsNext => TypeOfLog'
<1> SUFFICES ASSUME MonInv, MonitorsNext PROVE TypeOfLog'
  OBVIOUS
<1> USE MonitorsAssumption, TypeParts DEF MonInv, TypeOfLog, TypeOfRun, file, call, history,
   Outages
<1>1. CASE BeginRun
  BY <1>1 DEF BeginRun
<1>2. CASE Look \/ WaitStopped \/ Confirm
  BY <1>2 DEF Look, WaitStopped, Confirm
<1>3. CASE StopPing \/ StopIperf \/ StopScript
  BY <1>3 DEF StopPing, Signal, StopIperf, StopScript
<1>4. CASE StorePodLog
  BY <1>4 DEF StorePodLog
<1>5. CASE CheckPing \/ CheckIperf \/ CheckScript
  BY <1>5 DEF CheckPing, CheckLog, Judge, Truncate, NothingRead, TooMany, CheckIperf,
     CheckScript
<1>6. CASE CheckStored
  BY <1>6 DEF CheckStored, Judge, TooMany
<1>7. CASE StartPing \/ StartIperf \/ StartScript \/ StartIperfPod
  BY <1>7 DEF StartPing, StartStep, Truncate, StartIperf, StartScript, StartIperfPod
<1>8. CASE ListPids
  BY <1>8 DEF ListPids
<1>9. CASE ReadLog
  BY <1>9 DEF ReadLog
<1>10. CASE RenameLog
  BY <1>10 DEF RenameLog, Judge, Truncate, TooMany
<1>11. CASE KillListed
  BY <1>11 DEF KillListed
<1>12. CASE StartParent
  BY <1>12 DEF StartParent
<1>13. CASE LookForPod
  BY <1>13 DEF LookForPod
<1>14. CASE CheckPod
  BY <1>14 DEF CheckPod, Judge, TooMany, InCopies
<1>15. CASE DeletePod
  BY <1>15 DEF DeletePod, Truncate
<1>16. CASE StartPod
  BY <1>16 DEF StartPod
<1>17. CASE EndRun
  BY <1>17 DEF EndRun
<1>18. CASE LogSuccess \/ LogOutage
  <2>1. outages' \in 0 .. MaxOutages
    BY <1>18 DEF LogSuccess, LogOutage
  <2>2. PICK o \in SUBSET Outages : Log(o)
    BY <1>18, <2>1 DEF LogSuccess, LogOutage
  <2> QED
    BY <2>1, <2>2 DEF Log
<1>19. CASE MonitorEnds
  BY <1>19 DEF MonitorEnds, DeadStatus
<1> QED
  BY <1>1, <1>2, <1>3, <1>4, <1>5, <1>6, <1>7, <1>8, <1>9, <1>10, <1>11, <1>12, <1>13,
     <1>14, <1>15, <1>16, <1>17, <1>18, <1>19 DEF MonitorsNext, RunStep

LEMMA MonitorTypeStep == MonInv /\ MonitorsNext => TypeOfMonitors'
<1> SUFFICES ASSUME MonInv, MonitorsNext PROVE TypeOfMonitors'
  OBVIOUS
<1> USE MonitorsAssumption, TypeParts DEF MonInv, TypeOfMonitors, TypeOfRun, MonitorStates
<1>1. CASE BeginRun
  BY <1>1 DEF BeginRun
<1>2. CASE Look \/ WaitStopped \/ Confirm
  BY <1>2 DEF Look, WaitStopped, Confirm
<1>3. CASE StopPing \/ StopIperf \/ StopScript
  BY <1>3 DEF StopPing, Signal, StopIperf, StopScript
<1>4. CASE StorePodLog
  BY <1>4 DEF StorePodLog
<1>5. CASE CheckPing \/ CheckIperf \/ CheckScript
  BY <1>5 DEF CheckPing, CheckLog, Judge, Truncate, NothingRead, TooMany, CheckIperf,
     CheckScript
<1>6. CASE CheckStored
  BY <1>6 DEF CheckStored, Judge, TooMany
<1>7. CASE StartPing \/ StartIperf \/ StartScript \/ StartIperfPod
  BY LaunchStep, <1>7 DEF StartPing, StartStep, Truncate, StartIperf, StartScript,
     StartIperfPod
<1>8. CASE ListPids
  BY <1>8 DEF ListPids
<1>9. CASE ReadLog
  BY <1>9 DEF ReadLog
<1>10. CASE RenameLog
  BY <1>10 DEF RenameLog, Judge, Truncate, TooMany
<1>11. CASE KillListed
  BY <1>11 DEF KillListed
<1>12. CASE StartParent
  BY LaunchStep, <1>12 DEF StartParent
<1>13. CASE LookForPod
  BY <1>13 DEF LookForPod
<1>14. CASE CheckPod
  BY <1>14 DEF CheckPod, Judge, TooMany, InCopies
<1>15. CASE DeletePod
  BY <1>15 DEF DeletePod, Truncate
<1>16. CASE StartPod
  BY LaunchStep, <1>16 DEF StartPod
<1>17. CASE EndRun
  BY <1>17 DEF EndRun
<1>18. CASE LogSuccess \/ LogOutage
  BY <1>18 DEF LogSuccess, Log, LogOutage
<1>19. CASE MonitorEnds
  BY <1>19 DEF MonitorEnds, DeadStatus
<1> QED
  BY <1>1, <1>2, <1>3, <1>4, <1>5, <1>6, <1>7, <1>8, <1>9, <1>10, <1>11, <1>12, <1>13,
     <1>14, <1>15, <1>16, <1>17, <1>18, <1>19 DEF MonitorsNext, RunStep

LEMMA StepsStep == MonInv /\ MonitorsNext => StepsInv'
<1> SUFFICES ASSUME MonInv, MonitorsNext PROVE StepsInv'
  OBVIOUS
<1> USE MonitorsAssumption, TypeParts DEF MonInv, StepsInv, TypeOfRun, TypeOfLog, StepsOf,
   Pids, file, call, history, Go, FailInto, External, Hosted, Pods, CommandPods
<1>1. CASE BeginRun
  BY <1>1 DEF BeginRun
<1>2. CASE Look \/ WaitStopped \/ Confirm
  BY <1>2 DEF Look, WaitStopped, Confirm
<1>3. CASE StopPing \/ StopIperf \/ StopScript
  BY <1>3 DEF StopPing, Signal, AfterKill, StopIperf, StopScript
<1>4. CASE StorePodLog
  BY <1>4 DEF StorePodLog
<1>5. CASE CheckPing \/ CheckIperf \/ CheckScript
  BY <1>5 DEF CheckPing, CheckLog, Judge, Truncate, NothingRead, TooMany, CheckIperf,
     CheckScript
<1>6. CASE CheckStored
  BY <1>6 DEF CheckStored, Judge, TooMany
<1>7. CASE StartPing \/ StartIperf \/ StartScript \/ StartIperfPod
  BY <1>7 DEF StartPing, StartStep, Truncate, StartIperf, StartScript, StartIperfPod
<1>8. CASE ListPids
  BY <1>8 DEF ListPids
<1>9. CASE ReadLog
  BY <1>9 DEF ReadLog
<1>10. CASE RenameLog
  BY <1>10 DEF RenameLog, Judge, Truncate, TooMany, AfterFailure
<1>11. CASE KillListed
  BY <1>11 DEF KillListed
<1>12. CASE StartParent
  BY <1>12 DEF StartParent
<1>13. CASE LookForPod
  BY <1>13 DEF LookForPod
<1>14. CASE CheckPod
  BY <1>14 DEF CheckPod, Judge, TooMany, InCopies
<1>15. CASE DeletePod
  BY <1>15 DEF DeletePod, Truncate
<1>16. CASE StartPod
  BY <1>16 DEF StartPod
<1>17. CASE EndRun
  BY <1>17 DEF EndRun
<1>18. CASE LogSuccess \/ LogOutage
  BY <1>18 DEF LogSuccess, Log, LogOutage
<1>19. CASE MonitorEnds
  BY <1>19 DEF MonitorEnds, DeadStatus
<1> QED
  BY <1>1, <1>2, <1>3, <1>4, <1>5, <1>6, <1>7, <1>8, <1>9, <1>10, <1>11, <1>12, <1>13,
     <1>14, <1>15, <1>16, <1>17, <1>18, <1>19 DEF MonitorsNext, RunStep

LEMMA FreshStep == MonInv /\ MonitorsNext => FreshInv'
<1> SUFFICES ASSUME MonInv, MonitorsNext PROVE FreshInv'
  OBVIOUS
<1> USE MonitorsAssumption, TypeParts DEF MonInv, StepsInv, FreshInv, TypeOfRun,
   TypeOfMonitors, MonitorStates, Unstarted, StepsOf, Pids, Alive, Running, In, file, call,
   history, Go, FailInto, External, Hosted, Pods, CommandPods
<1>1. CASE BeginRun
  BY <1>1 DEF BeginRun
<1>2. CASE Look \/ WaitStopped \/ Confirm
  BY <1>2 DEF Look, WaitStopped, Confirm
<1>3. CASE StopPing \/ StopIperf \/ StopScript
  BY <1>3 DEF StopPing, Signal, AfterKill, StopIperf, StopScript
<1>4. CASE StorePodLog
  BY <1>4 DEF StorePodLog
<1>5. CASE CheckPing \/ CheckIperf \/ CheckScript
  BY <1>5 DEF CheckPing, CheckLog, Judge, Truncate, NothingRead, TooMany, CheckIperf,
     CheckScript
<1>6. CASE CheckStored
  BY <1>6 DEF CheckStored, Judge, TooMany
<1>7. CASE StartPing \/ StartIperf \/ StartScript \/ StartIperfPod
  BY LaunchStep, <1>7 DEF StartPing, StartStep, Truncate, StartIperf, StartScript,
     StartIperfPod
<1>8. CASE ListPids
  BY <1>8 DEF ListPids
<1>9. CASE ReadLog
  BY <1>9 DEF ReadLog
<1>10. CASE RenameLog
  BY <1>10 DEF RenameLog, Judge, Truncate, TooMany, AfterFailure
<1>11. CASE KillListed
  BY <1>11 DEF KillListed
<1>12. CASE StartParent
  BY LaunchStep, <1>12 DEF StartParent
<1>13. CASE LookForPod
  BY <1>13 DEF LookForPod
<1>14. CASE CheckPod
  BY <1>14 DEF CheckPod, Judge, TooMany, InCopies
<1>15. CASE DeletePod
  BY <1>15 DEF DeletePod, Truncate
<1>16. CASE StartPod
  BY LaunchStep, <1>16 DEF StartPod
<1>17. CASE EndRun
  BY <1>17 DEF EndRun
<1>18. CASE LogSuccess \/ LogOutage
  BY <1>18 DEF LogSuccess, Log, LogOutage
<1>19. CASE MonitorEnds
  BY <1>19 DEF MonitorEnds, DeadStatus
<1> QED
  BY <1>1, <1>2, <1>3, <1>4, <1>5, <1>6, <1>7, <1>8, <1>9, <1>10, <1>11, <1>12, <1>13,
     <1>14, <1>15, <1>16, <1>17, <1>18, <1>19 DEF MonitorsNext, RunStep

\* A run that reads of an outage fails.
LEMMA Judged ==
  ASSUME NEW read, Judge(read)
  PROVE  /\ failed' <=> read # {}
         /\ unread' = unread \ read
         /\ reported' = reported \cup read
         /\ repeated' => repeated \/ read \cap reported # {}
         /\ lost' = lost
<1>1. CASE read = {}
  BY <1>1 DEF Judge, TooMany
<1>2. CASE read # {}
  BY <1>2 DEF Judge, TooMany
<1> QED
  BY <1>1, <1>2

LEMMA SingleStep == MonInv /\ MonitorsNext => SingleInv'
<1> SUFFICES ASSUME MonInv, MonitorsNext PROVE SingleInv'
  OBVIOUS
<1> USE MonitorsAssumption, TypeParts DEF MonInv, StepsInv, SingleInv, FreshInv, Still,
   TypeOfRun, TypeOfMonitors, MonitorStates, Unstarted, StepsOf, Match, Alive, Running, In,
   Ambiguous, file, call, history, Go, FailInto, External, Hosted, Pods, CommandPods
<1>1. CASE BeginRun
  BY <1>1 DEF BeginRun
<1>2. CASE Look \/ WaitStopped \/ Confirm
  BY <1>2 DEF Look, WaitStopped, Confirm
<1>3. CASE StopPing \/ StopIperf \/ StopScript
  BY <1>3 DEF StopPing, Signal, AfterKill, StopIperf, StopScript
<1>4. CASE StorePodLog
  BY <1>4 DEF StorePodLog
<1>5. CASE CheckPing \/ CheckIperf \/ CheckScript
  BY <1>5, Judged DEF CheckPing, CheckLog, Judge, Truncate, NothingRead, TooMany,
     CheckIperf, CheckScript
<1>6. CASE CheckStored
  BY <1>6 DEF CheckStored, Judge, TooMany
<1>7. CASE StartPing \/ StartIperf \/ StartScript \/ StartIperfPod
  BY LaunchStep, <1>7 DEF StartPing, StartStep, Truncate, StartIperf, StartScript,
     StartIperfPod
<1>8. CASE ListPids
  BY <1>8 DEF ListPids
<1>9. CASE ReadLog
  BY <1>9 DEF ReadLog
<1>10. CASE RenameLog
  BY <1>10 DEF RenameLog, Judge, Truncate, TooMany, AfterFailure
<1>11. CASE KillListed
  BY <1>11 DEF KillListed
<1>12. CASE StartParent
  BY LaunchStep, <1>12 DEF StartParent
<1>13. CASE LookForPod
  BY <1>13 DEF LookForPod
<1>14. CASE CheckPod
  BY <1>14 DEF CheckPod, Judge, TooMany, InCopies
<1>15. CASE DeletePod
  BY <1>15 DEF DeletePod, Truncate
<1>16. CASE StartPod
  BY LaunchStep, <1>16 DEF StartPod
<1>17. CASE EndRun
  BY <1>17 DEF EndRun
<1>18. CASE LogSuccess \/ LogOutage
  BY <1>18 DEF LogSuccess, Log, LogOutage
<1>19. CASE MonitorEnds
  BY <1>19 DEF MonitorEnds, DeadStatus
<1> QED
  BY <1>1, <1>2, <1>3, <1>4, <1>5, <1>6, <1>7, <1>8, <1>9, <1>10, <1>11, <1>12, <1>13,
     <1>14, <1>15, <1>16, <1>17, <1>18, <1>19 DEF MonitorsNext, RunStep

LEMMA LogStep == MonInv /\ MonitorsNext => LogInv'
<1> SUFFICES ASSUME MonInv, MonitorsNext PROVE LogInv'
  OBVIOUS
<1> USE MonitorsAssumption, TypeParts DEF MonInv, StepsInv, SingleInv, LogInv, Still,
   TypeOfRun, TypeOfLog, TypeOfMonitors, MonitorStates, StepsOf, Match, Alive, Running, In,
   file, call, history, Go, FailInto, External, Hosted, Pods, CommandPods, Outages
<1>1. ASSUME step = "read", kind \in Hosted, Judge(log), Truncate, step' = "start",
              UNCHANGED <<kind, found, copy, outages>>
       PROVE  LogInv'
  <2>1. /\ log' = {} /\ unread' = unread \ log /\ reported' = reported \cup log
        /\ failed' <=> log # {}
        /\ repeated' => repeated \/ log \cap reported # {}
        /\ lost' = lost
    BY <1>1, Judged DEF Truncate
  <2>2. ~failed' => unread' = unread /\ log = {}
    BY <2>1
  <2>3. ~failed' /\ found => unread' = {}
    BY <1>1, <2>2
  <2>4. ~repeated' /\ log' \cap reported' = {} /\ copy' \cap reported' = {}
    BY <1>1, <2>1
  <2> QED
    BY <1>1, <2>1, <2>3, <2>4
<1>2. CASE BeginRun
  BY <1>2 DEF BeginRun
<1>3. CASE Look \/ WaitStopped \/ Confirm
  BY <1>3 DEF Look, WaitStopped, Confirm
<1>4. CASE StopPing \/ StopIperf \/ StopScript
  BY <1>4 DEF StopPing, Signal, AfterKill, StopIperf, StopScript
<1>5. CASE StorePodLog
  BY <1>5 DEF StorePodLog
<1>6. CASE CheckPing \/ CheckIperf \/ CheckScript
  <2>1. kind \in Hosted /\ CheckLog
    BY <1>6 DEF CheckPing, CheckIperf, CheckScript
  <2>2. CASE Judge(log) /\ Truncate
    BY <1>1, <2>1, <2>2 DEF CheckLog
  <2>3. ASSUME NEW wrong, NothingRead(wrong), ~wrong => ~written /\ (kind = "ping" => Alive = {})
        PROVE  LogInv'
    BY <2>1, <2>3 DEF CheckLog, NothingRead
  <2>4. CASE CheckPing
    BY <2>2, <2>3, <2>4 DEF CheckPing
  <2>5. CASE CheckIperf \/ CheckScript
    BY <2>2, <2>3, <2>5 DEF CheckIperf, CheckScript
  <2> QED
    BY <1>6, <2>4, <2>5
<1>7. CASE CheckStored
  BY <1>7 DEF CheckStored, Judge, TooMany
<1>8. CASE StartPing \/ StartIperf \/ StartScript \/ StartIperfPod
  BY <1>8 DEF StartPing, StartStep, Truncate, StartIperf, StartScript, StartIperfPod
<1>9. CASE ListPids
  BY <1>9 DEF ListPids
<1>10. CASE ReadLog
  BY <1>10 DEF ReadLog
<1>11. CASE RenameLog
  BY Judged, <1>11 DEF RenameLog, Truncate, TooMany, AfterFailure
<1>12. CASE KillListed
  BY <1>12 DEF KillListed
<1>13. CASE StartParent
  BY <1>13 DEF StartParent
<1>14. CASE LookForPod
  BY <1>14 DEF LookForPod
<1>15. CASE CheckPod
  BY Judged, <1>15 DEF CheckPod, InCopies
<1>16. CASE DeletePod
  BY <1>16 DEF DeletePod, Truncate
<1>17. CASE StartPod
  BY <1>17 DEF StartPod
<1>18. CASE EndRun
  BY <1>18 DEF EndRun
<1>19. CASE LogSuccess
  BY <1>19 DEF LogSuccess, Log
<1>20. CASE LogOutage
  <2>1. /\ outages' = outages + 1 /\ log' = log \cup {outages'}
        /\ unread' = IF step \in {"rename", "delete"} THEN unread ELSE unread \cup {outages'}
        /\ Running # {}
        /\ UNCHANGED <<kind, step, found, failed, copy, reported, lost, repeated, monitors>>
    BY <1>20 DEF LogOutage, Log, Racing
  <2>2. /\ outages' \notin reported /\ 1 .. outages \subseteq 1 .. outages'
        /\ outages' \in 1 .. outages'
    BY <2>1
  <2> QED
    BY <2>1, <2>2
<1>21. CASE MonitorEnds
  BY <1>21 DEF MonitorEnds, DeadStatus
<1> QED
  BY <1>2, <1>3, <1>4, <1>5, <1>6, <1>7, <1>8, <1>9, <1>10, <1>11, <1>12, <1>13, <1>14,
     <1>15, <1>16, <1>17, <1>18, <1>19, <1>20, <1>21 DEF MonitorsNext, RunStep

\* What the runs of a monitor rely on is kept by every step.
LEMMA MonStep == MonInv /\ [MonitorsNext]_monitorVars => MonInv'
<1>1. CASE UNCHANGED monitorVars
  BY <1>1 DEF monitorVars, file, call, history, MonInv, MonitorsTypeOK, StepsInv,
     FreshInv, SingleInv,
     LogInv, Still, Unstarted
<1>2. CASE MonitorsNext
  BY <1>2, RunTypeStep, LogTypeStep, MonitorTypeStep, StepsStep, FreshStep, SingleStep,
     LogStep, TypeParts
     DEF MonInv, TypeOfRun, TypeOfLog, TypeOfMonitors, MonitorsTypeOK, MonitorStates
<1> QED
  BY <1>1, <1>2

\* The state is well formed, for every kind of monitor.
THEOREM MonitorsTyped == MonitorsSpec => []MonitorsTypeOK
<1>1. MonInv => MonitorsTypeOK
  BY DEF MonInv
<1> QED
  BY <1>1, InitMon, MonStep, PTL DEF MonitorsSpec

\* A run that found its monitor and passed has passed over no outage that was logged
\* before it read the log, but for http pings in pods; and no outage fails two runs,
\* but for pods that keep their log (check_or_start_external_process,
\* check_or_start_tobiko_command).
THEOREM OutagesFailOneRun == MonitorsSpec => []OutagesReportedOnce
<1>1. MonInv => OutagesReportedOnce
  BY DEF MonInv, LogInv, OutagesReportedOnce
<1> QED
  BY <1>1, InitMon, MonStep, PTL DEF MonitorsSpec

\* Whatever the runs find, and whenever a monitor ends by itself: there are never two
\* of them, unless the pid of one was not recorded or an iperf3 client goes on though
\* it was told to end (check_or_start_external_process, start_parent).
THEOREM MonitorsAreNotDoubled == MonitorsSpec => []OneMonitor
<1>1. ASSUME MonInv, Cardinality(Running) > 1
      PROVE  (kind = "file" => ~(Running \subseteq recorded)) /\ kind \in {"iperf", "file"}
  <2>1. PICK p \in Running, q \in Running : p # q
    <3>1. Running # {}
      BY <1>1, FS_EmptySet
    <3>2. PICK p \in Running : TRUE
      BY <3>1
    <3>3. Running # {p}
      <4>1. Cardinality({p}) = 1
        BY FS_Singleton
      <4>2. ASSUME Running = {p} PROVE Cardinality(Running) = 1
        BY <4>1, <4>2, Zenon
      <4> QED
        BY <1>1, <4>2
    <3> QED
      BY <3>2, <3>3
  <2>2. /\ p \in Pids /\ q \in Pids /\ monitors[p] = "running" /\ monitors[q] = "running"
        /\ Running \subseteq recorded => p \in recorded /\ q \in recorded
    BY DEF Running, In
  <2>3. kind # "iperf" => ~(Still(p) /\ Still(q))
    BY <1>1, <2>1, <2>2 DEF MonInv, SingleInv
  <2> QED
    BY <1>1, <2>2, <2>3 DEF Still
<1>2. MonInv => OneMonitor
  <2> SUFFICES ASSUME MonInv PROVE OneMonitor
    OBVIOUS
  <2>1. CASE Cardinality(Running) > 1
    BY <1>1, <2>1, Zenon DEF OneMonitor
  <2>2. CASE ~(Cardinality(Running) > 1)
    BY <2>2, Zenon DEF OneMonitor
  <2> QED
    BY <2>1, <2>2
<1> QED
  BY <1>2, InitMon, MonStep, PTL DEF MonitorsSpec

\* A run that passes leaves a monitor that was not told to end, but for the processes
\* of this host (check_or_start_external_process, check_or_start_tobiko_command).
THEOREM PassedLeavesOneRunning == MonitorsSpec => PassedMeansRunning
<1> DEFINE Left == step # "end" /\ step' = "end" /\ ~failed' /\ kind # "file" => Running' # {}
<1>1. MonInv /\ [MonitorsNext]_monitorVars => [Left]_monitorVars
  <2> SUFFICES ASSUME MonInv, MonitorsNext, step # "end", step' = "end", ~failed', kind # "file"
               PROVE  Running' # {}
    OBVIOUS
  <2>1. ASSUME Running # {}, UNCHANGED monitors PROVE Running' # {}
    BY <2>1 DEF Running, In
  <2>2. CASE Confirm
    <3>1. Match # {} /\ step = "confirm" /\ ~failed /\ kind \in External /\ UNCHANGED monitors
      BY <2>2 DEF Confirm, FailInto, Go
    <3>2. kind \in Hosted => \A p \in Pids : monitors[p] # "dying"
      BY <3>1 DEF MonInv, SingleInv
    <3>3. Running # {}
      BY <3>1, <3>2 DEF Match, Alive, Running, In, External
    <3> QED
      BY <2>1, <3>1, <3>3
  <2>3. CASE CheckPod
    BY <2>1, <2>3 DEF CheckPod, FailInto
  <2> QED
    BY <2>2, <2>3 DEF MonitorsNext, RunStep, MonInv, StepsInv, StepsOf, Go, FailInto,
       BeginRun, Look, StopPing, StopIperf, StopScript, Signal, AfterKill, WaitStopped, StorePodLog,
       CheckLog, CheckPing, CheckIperf, CheckScript, CheckStored, StartPing, StartIperf, StartScript,
       StartIperfPod, ListPids, ReadLog, RenameLog, KillListed, StartParent, LookForPod, DeletePod,
       StartPod, EndRun, LogSuccess, LogOutage, Log, MonitorEnds, call
<1> QED
  BY <1>1, InitMon, MonStep, PTL DEF MonitorsSpec, PassedMeansRunning
=============================================================================
