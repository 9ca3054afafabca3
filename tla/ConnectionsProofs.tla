------------------------- MODULE ConnectionsProofs --------------------------
(***************************************************************************)
(* Proofs about SSHClients, for any hosts and any way to them, about       *)
(* Topology, for any plan, machines, addresses and routes, and about the   *)
(* fixtures of MCFixtures together.                                        *)
(***************************************************************************)
EXTENDS MCFixtures, ResourceFixtureProofs, TestRunsProofs

(***************************************************************************)
(* SSH clients (SSHClients).                                               *)
(***************************************************************************)
\* What the assumptions say of hosts and bounds.
LEMMA SSHConstants ==
  /\ NoHost \notin Hosts /\ \A h \in Hosts : Proxied(h) <=> ProxyOf[h] \in Hosts
  /\ Attempts \in Nat /\ Attempts >= 2 /\ Tries \in Nat /\ Tries >= 1 /\ Logins \in Nat /\ Logins >= 1
  /\ MaxLosses \in Nat
  BY SSHClientsAssumption DEF Proxied

\* A set of hosts that every proxy of one of them is in.
Closed(S) == \A x \in S : Proxied(x) => ProxyOf[x] \in S

LEMMA ChainIsClosed ==
  ASSUME NEW h \in Hosts
  PROVE  h \in Chain(h) /\ Chain(h) \subseteq Hosts /\ Closed(Chain(h))
<1>1. ASSUME NEW x \in Chain(h), Proxied(x) PROVE ProxyOf[x] \in Chain(h)
  <2>1. ProxyOf[x] \in Hosts /\ x \in Hosts
    BY <1>1, SSHConstants DEF Chain
  <2> QED
    BY <1>1, <2>1 DEF Chain
<1> QED
  BY <1>1 DEF Chain, Closed

\* The way to a host is part of every set with the host that is closed.
LEMMA ChainIsLeast ==
  ASSUME NEW h \in Hosts, NEW S \in SUBSET Hosts, h \in S, Closed(S)
  PROVE  Chain(h) \subseteq S
  BY DEF Chain, Closed

LEMMA ChainOfChain ==
  ASSUME NEW h \in Hosts, NEW g \in Chain(h)
  PROVE  g \in Hosts /\ Chain(g) \subseteq Chain(h)
  BY ChainIsClosed, ChainIsLeast

LEMMA ChainUnfolds ==
  ASSUME NEW h \in Hosts, NEW g \in Chain(h), g # h
  PROVE  Proxied(h) /\ ProxyOf[h] \in Hosts /\ g \in Chain(ProxyOf[h])
<1>1. Proxied(h)
  <2> SUFFICES ASSUME ~Proxied(h) PROVE FALSE
    OBVIOUS
  <2>1. Chain(h) \subseteq {h}
    BY ChainIsLeast DEF Closed
  <2> QED
    BY <2>1
<1>2. ProxyOf[h] \in Hosts
  BY <1>1, SSHConstants
<1>3. Chain(h) \subseteq {h} \cup Chain(ProxyOf[h])
  <2>1. Closed({h} \cup Chain(ProxyOf[h])) /\ {h} \cup Chain(ProxyOf[h]) \in SUBSET Hosts
    BY <1>2, ChainIsClosed DEF Closed
  <2> QED
    BY <2>1, ChainIsLeast
<1> QED
  BY <1>1, <1>2, <1>3

\* No host is on the way to its own proxies.
LEMMA ChainHasNoCycle ==
  ASSUME NEW h \in Hosts, NEW g \in Chain(h), g # h
  PROVE  h \notin Chain(g)
<1> SUFFICES ASSUME h \in Chain(g) PROVE FALSE
  OBVIOUS
<1> DEFINE S == {y \in Hosts : h \in Chain(y)}
<1>1. ASSUME NEW y \in S PROVE ProxyOf[y] \in S
  <2>1. CASE y # h
    BY <2>1, ChainUnfolds
  <2>2. CASE y = h
    <3>1. Proxied(h) /\ ProxyOf[h] \in Hosts /\ g \in Chain(ProxyOf[h])
      BY ChainUnfolds
    <3>2. h \in Chain(ProxyOf[h])
      BY <3>1, ChainOfChain
    <3> QED
      BY <2>2, <3>1, <3>2
  <2> QED
    BY <2>1, <2>2
<1>2. h \in S
  BY ChainIsClosed
<1> HIDE DEF S
<1>3. S \in SUBSET Hosts
  BY DEF S
<1> QED
  BY <1>1, <1>2, <1>3, SSHClientsAssumption
-----------------------------------------------------------------------------
\* Each call is for the proxy of the one before.
Chained == \A i \in 1 .. Len(calls) - 1 : ProxyOf[calls[i]] = calls[i + 1]

\* A host waits for its proxy only while it is not connected.
Connecting ==
  /\ \A i \in 1 .. Len(calls) - 1 : calls[i] \notin connected
  /\ at \in {"login", "dial", "failed"} => Current \notin connected
  /\ at = "connected" => Current \in connected

\* Nothing fails on the way of an undisturbed call, but the first attempt of a
\* client that was dead before.
Smooth ==
  /\ Chain(calls[1]) \subseteq up
  /\ \A i \in 1 .. Len(calls) : calls[i] \in Chain(calls[1])
  /\ \A g \in Chain(calls[1]) \ {calls[1]} : g \in connected => g \in alive
  /\ calls[1] \in connected => calls[1] \in alive \/ attempt = 1
  /\ at # "failed"
  /\ at = "dial" /\ Proxied(Current) => ProxyOf[Current] \in alive

SSHInv ==
  /\ SSHTypeOK
  /\ Chained /\ Connecting /\ NoChannelLeaks
  /\ at # "idle" /\ ~trouble /\ ~stale => Smooth
  /\ FailsOnlyInTrouble

\* The types, one by one.
LEMMA SSHFacts ==
  ASSUME SSHInv, at # "idle"
  PROVE  /\ calls \in Seq(Hosts) /\ Len(calls) \in Nat /\ Len(calls) >= 1
         /\ \A i \in 1 .. Len(calls) : calls[i] \in Hosts
         /\ \A i, j \in 1 .. Len(calls) : i < j => calls[i] # calls[j]
         /\ Current \in Hosts /\ Current = calls[Len(calls)]
<1>1. calls \in Seq(Hosts) /\ Len(calls) \in Nat /\ calls # <<>>
  BY DEF SSHInv, SSHTypeOK
<1>2. Len(calls) >= 1 /\ \A i \in 1 .. Len(calls) : calls[i] \in Hosts
  BY <1>1
<1>3. ASSUME NEW i \in 1 .. Len(calls), NEW j \in 1 .. Len(calls), i < j, calls[i] = calls[j]
      PROVE  FALSE
  <2> DEFINE S == {calls[k] : k \in i .. j - 1}
  <2>1. S \in SUBSET Hosts /\ calls[i] \in S
    BY <1>1, <1>2, <1>3
  <2>2. ASSUME NEW k \in i .. j - 1 PROVE ProxyOf[calls[k]] \in S
    <3>1. k \in 1 .. Len(calls) - 1
      BY <1>1, <1>3
    <3>2. ProxyOf[calls[k]] = calls[k + 1]
      BY <3>1 DEF SSHInv, Chained
    <3>3. CASE k + 1 = j
      BY <1>3, <2>1, <3>2, <3>3
    <3>4. CASE k + 1 # j
      <4>1. k + 1 \in i .. j - 1
        BY <1>3, <3>4
      <4> QED
        BY <3>2, <4>1
    <3> QED
      BY <3>3, <3>4
  <2>3. \A h \in S : ProxyOf[h] \in S
    BY <2>2
  <2> HIDE DEF S
  <2> QED
    BY <2>1, <2>3, SSHClientsAssumption
<1>4. Current \in Hosts /\ Current = calls[Len(calls)]
  BY <1>1, <1>2 DEF Current
<1> QED
  BY <1>1, <1>2, <1>3, <1>4

\* The one who calls.
LEMMA SSHCaller ==
  ASSUME SSHInv, at # "idle", ~Outermost
  PROVE  /\ Len(calls) >= 2 /\ Caller \in Hosts /\ Caller = calls[Len(calls) - 1]
         /\ ProxyOf[Caller] = Current /\ Proxied(Caller) /\ Caller # Current
         /\ Caller \notin connected
         /\ Current # calls[1]
         /\ Return \in Seq(Hosts) /\ Len(Return) = Len(calls) - 1 /\ Return # <<>>
         /\ \A i \in 1 .. Len(calls) - 1 : Return[i] = calls[i]
         /\ Return[Len(Return)] = Caller
<1>1. Len(calls) \in Nat /\ Len(calls) >= 2
  <2>1. Len(calls) \in Nat /\ Len(calls) >= 1
    BY SSHFacts
  <2>2. Len(calls) # 1
    BY DEF Outermost
  <2> QED
    BY <2>1, <2>2
<1>2. Len(calls) - 1 \in 1 .. Len(calls) /\ Len(calls) - 1 \in 1 .. Len(calls) - 1
      /\ Len(calls) \in 1 .. Len(calls) /\ 1 \in 1 .. Len(calls) /\ (Len(calls) - 1) + 1 = Len(calls)
  BY <1>1
<1>3. /\ Caller \in Hosts /\ Caller = calls[Len(calls) - 1] /\ Caller # Current /\ Current # calls[1]
  BY <1>1, <1>2, SSHFacts DEF Caller
<1>4. ProxyOf[Caller] = Current /\ Proxied(Caller) /\ Caller \notin connected
  BY <1>2, <1>3, SSHFacts, SSHConstants DEF SSHInv, Chained, Connecting
<1>5. /\ Return \in Seq(Hosts) /\ Len(Return) = Len(calls) - 1
      /\ \A i \in 1 .. Len(calls) - 1 : Return[i] = calls[i]
  BY <1>1, SSHFacts DEF Return
<1> QED
  BY <1>1, <1>2, <1>3, <1>4, <1>5

\* Hosts and connections that get lost.
LEMMA SSHNetwork ==
  ASSUME SSHInv, NEW h \in Hosts, LoseConnection(h) \/ GoDown(h) \/ ComeUp(h)
  PROVE  SSHInv'
<1>1. /\ UNCHANGED <<connected, socks, calls, at, counters, outcome, stale>>
      /\ UNCHANGED <<alive, losses, trouble>> \/ Disturb(h)
  BY DEF LoseConnection, GoDown, ComeUp, Disturb
<1>2. SSHTypeOK'
  <2>1. losses' \in 0 .. MaxLosses
    BY <1>1, SSHConstants DEF SSHInv, SSHTypeOK, Disturb
  <2>2. alive' \in SUBSET connected' /\ trouble' \in BOOLEAN
    BY <1>1 DEF SSHInv, SSHTypeOK, Disturb
  <2>3. up' \in SUBSET Hosts
    BY DEF LoseConnection, GoDown, ComeUp, SSHInv, SSHTypeOK
  <2> QED
    BY <1>1, <2>1, <2>2, <2>3 DEF SSHInv, SSHTypeOK, counters
<1>3. Chained' /\ Connecting' /\ NoChannelLeaks'
  BY <1>1 DEF SSHInv, Chained, Connecting, NoChannelLeaks, Current
<1>4. trouble => trouble'
  BY <1>1 DEF Disturb
<1>5. ASSUME at # "idle", ~trouble', ~stale PROVE Smooth'
  <2>1. Smooth /\ calls[1] \in Hosts /\ Current \in Hosts
    BY <1>4, <1>5, SSHFacts DEF SSHInv
  <2>2. Chain(calls[1]) \subseteq Hosts
    BY <2>1, ChainIsClosed
  <2>3. Chain(calls[1]) \subseteq up'
    BY <1>1, <1>5, <2>1 DEF Smooth, LoseConnection, GoDown, ComeUp, Disturb, InCall
  <2>4. \A g \in Chain(calls[1]) : g \in alive => g \in alive'
    <3> TAKE g \in Chain(calls[1])
    <3>1. CASE Disturb(h)
      <4>1. h \notin Chain(calls[1])
        BY <1>5, <3>1 DEF Disturb, InCall
      <4>2. Chain(g) \subseteq Chain(calls[1])
        BY <2>1, ChainOfChain
      <4> QED
        BY <3>1, <4>1, <4>2 DEF Disturb, Broken
    <3> QED
      BY <1>1, <3>1
  <2>5. at = "dial" /\ Proxied(Current) => ProxyOf[Current] \in alive'
    <3> SUFFICES ASSUME at = "dial", Proxied(Current) PROVE ProxyOf[Current] \in alive'
      OBVIOUS
    <3>1. Current \in Chain(calls[1])
      <4>1. Len(calls) \in 1 .. Len(calls)
        BY <1>5, SSHFacts
      <4> QED
        BY <2>1, <4>1, <1>5, SSHFacts DEF Smooth
    <3>2. ProxyOf[Current] \in Chain(calls[1])
      BY <2>1, <3>1, ChainIsClosed DEF Closed
    <3> QED
      BY <2>1, <2>4, <3>2 DEF Smooth
  <2>6. calls' = calls /\ connected' = connected /\ at' = at /\ attempt' = attempt /\ Current' = Current
    BY <1>1 DEF Current, counters
  <2>7. /\ \A g \in Chain(calls[1]) \ {calls[1]} : g \in connected => g \in alive'
        /\ calls[1] \in connected => calls[1] \in alive' \/ attempt = 1
    BY <2>1, <2>4, ChainIsClosed DEF Smooth
  <2> QED
    BY <2>1, <2>3, <2>5, <2>6, <2>7 DEF Smooth
<1> QED
  BY <1>1, <1>2, <1>3, <1>4, <1>5 DEF SSHInv, FailsOnlyInTrouble

\* A client that is closed: it is not connected, and has no channel.
LEMMA ClosedClient ==
  ASSUME SSHInv, at \in {"failed", "connected"}, CloseConnection(Current)
  PROVE  /\ connected' \in SUBSET Hosts /\ alive' \in SUBSET connected' /\ up' = up
         /\ socks' \in [Hosts -> Nat] /\ connected' = connected \ {Current}
         /\ \A h \in Hosts : socks'[h] = IF Proxied(h) /\ h \in connected' THEN 1 ELSE 0
         /\ ~trouble /\ ~stale /\ Current = calls[1] =>
              \A g \in Chain(calls[1]) \ {calls[1]} : g \in connected' => g \in alive'
<1>1. /\ connected' = connected \ {Current} /\ alive' = alive \ Broken(Current)
      /\ socks' = [socks EXCEPT ![Current] = 0] /\ up' = up
  BY DEF CloseConnection
<1>2. Current \in Hosts /\ Current \in Chain(Current)
  BY SSHFacts, ChainIsClosed
<1>3. alive' \in SUBSET connected' /\ connected' \in SUBSET Hosts
  BY <1>1, <1>2 DEF SSHInv, SSHTypeOK, Broken
<1>4. /\ socks' \in [Hosts -> Nat]
      /\ \A h \in Hosts : socks'[h] = IF h = Current THEN 0 ELSE socks[h]
  BY <1>1, <1>2 DEF SSHInv, SSHTypeOK
<1>5. \A h \in Hosts : socks[h] = IF Proxied(h) /\ h \in connected THEN 1 ELSE 0
  BY DEF SSHInv, NoChannelLeaks
<1>6. \A h \in Hosts : socks'[h] = IF Proxied(h) /\ h \in connected' THEN 1 ELSE 0
  BY <1>1, <1>4, <1>5
<1>7. ASSUME ~trouble, ~stale, Current = calls[1], NEW g \in Chain(calls[1]) \ {calls[1]},
             g \in connected'
      PROVE  g \in alive'
  <2>1. g \in alive
    BY <1>1, <1>7 DEF SSHInv, Smooth
  <2>2. Current \notin Chain(g)
    BY <1>2, <1>7, ChainHasNoCycle
  <2> QED
    BY <1>1, <2>1, <2>2 DEF Broken
<1> QED
  BY <1>1, <1>3, <1>4, <1>6, <1>7

LEMMA SSHCloses ==
  ASSUME SSHInv, NEW h \in Hosts, CloseClient(h)
  PROVE  SSHInv'
<1>1. /\ at = "idle" /\ connected' = connected \ {h} /\ alive' = alive \ Broken(h)
      /\ socks' = [socks EXCEPT ![h] = 0] /\ up' = up
      /\ UNCHANGED <<calls, at, counters, outcome, losses, trouble, stale>>
  BY DEF CloseClient, CloseConnection
<1>2. h \in Chain(h)
  BY ChainIsClosed
<1>3. SSHTypeOK'
  BY <1>1, <1>2 DEF SSHInv, SSHTypeOK, Broken, counters
<1>4. Chained' /\ Connecting'
  BY <1>1 DEF SSHInv, Chained, Connecting
<1>5. NoChannelLeaks'
  BY <1>1 DEF SSHInv, SSHTypeOK, NoChannelLeaks
<1> QED
  BY <1>1, <1>3, <1>4, <1>5 DEF SSHInv, FailsOnlyInTrouble

\* The command is executed once the client is connected.
LEMMA SSHExecutes ==
  ASSUME SSHInv, NEW h \in Hosts, ExecuteOn(h)
  PROVE  SSHInv'
<1>1. /\ at = "idle" /\ calls' = <<h>> /\ at' = "connect" /\ attempt' = 1
      /\ tries' = [tries EXCEPT ![h] = 1] /\ outcome' = "none"
      /\ trouble' = ~(Chain(h) \subseteq up)
      /\ stale' = (\E g \in Chain(h) \ {h} : g \in connected \ alive)
      /\ UNCHANGED <<wires, logins, losses>>
  BY DEF ExecuteOn
<1>2. Len(calls') = 1 /\ calls' \in Seq(Hosts) /\ calls'[1] = h /\ calls' # <<>>
  BY <1>1
<1>3. trouble' \in BOOLEAN /\ stale' \in BOOLEAN
  BY <1>1
<1>4. 1 \in 1 .. Attempts /\ 1 \in 1 .. Tries
  BY SSHConstants
<1>5. SSHTypeOK'
  BY <1>1, <1>2, <1>3, <1>4 DEF SSHInv, SSHTypeOK, wires
<1>6. Chained' /\ Connecting'
  BY <1>1, <1>2 DEF Chained, Connecting
<1>7. NoChannelLeaks'
  BY <1>1 DEF SSHInv, NoChannelLeaks, wires
<1>8. ASSUME ~trouble', ~stale' PROVE Smooth'
  <2>1. Chain(h) \subseteq up /\ \A g \in Chain(h) \ {h} : g \in connected => g \in alive
    BY <1>1, <1>8
  <2>2. h \in Chain(h)
    BY ChainIsClosed
  <2> QED
    BY <1>1, <1>2, <2>1, <2>2 DEF Smooth, wires
<1> QED
  BY <1>1, <1>5, <1>6, <1>7, <1>8 DEF SSHInv, FailsOnlyInTrouble

\* The end of a call, with or without an error.
LEMMA SSHEnds ==
  ASSUME SSHInv, at' = "idle", calls' = << >>, outcome' \in {"done", "failed"},
         outcome' = "failed" => trouble \/ stale,
         UNCHANGED <<counters, losses, trouble, stale, up>>,
         connected' \in SUBSET Hosts, alive' \in SUBSET connected', socks' \in [Hosts -> Nat],
         \A h \in Hosts : socks'[h] = IF Proxied(h) /\ h \in connected' THEN 1 ELSE 0
  PROVE  SSHInv'
<1>1. Len(calls') = 0 /\ calls' \in Seq(Hosts)
  OBVIOUS
<1>2. SSHTypeOK'
  BY <1>1 DEF SSHInv, SSHTypeOK, counters
<1>3. Chained' /\ Connecting' /\ NoChannelLeaks'
  BY <1>1 DEF Chained, Connecting, NoChannelLeaks
<1> QED
  BY <1>2, <1>3 DEF SSHInv, FailsOnlyInTrouble

\* An attempt that failed closes the client and begins again, or gives up.
LEMMA SSHCreatesAgain ==
  ASSUME SSHInv, at \in {"failed", "connected"}, Outermost, CreateAgain,
         at = "connected" => Current \notin alive
  PROVE  SSHInv'
<1>1. CloseConnection(Current) /\ UNCHANGED <<logins, losses, trouble, stale>>
  BY DEF CreateAgain, CloseBroken
<1>2. Len(calls) = 1 /\ calls[1] = Current /\ Current \in Hosts /\ calls \in Seq(Hosts)
  BY SSHFacts DEF Outermost
<1>3. /\ connected' \in SUBSET Hosts /\ alive' \in SUBSET connected' /\ up' = up
      /\ socks' \in [Hosts -> Nat] /\ connected' = connected \ {Current}
      /\ \A h \in Hosts : socks'[h] = IF Proxied(h) /\ h \in connected' THEN 1 ELSE 0
      /\ ~trouble /\ ~stale =>
           \A g \in Chain(calls[1]) \ {calls[1]} : g \in connected' => g \in alive'
  BY <1>1, <1>2, ClosedClient
<1>4. attempt \in Nat
  BY SSHConstants DEF SSHInv, SSHTypeOK
<1>5. ~trouble /\ ~stale => attempt = 1 /\ at = "connected"
  BY <1>2 DEF SSHInv, Smooth, Connecting
<1>6. CASE attempt < Attempts
  <2>1. /\ attempt' = attempt + 1 /\ tries' = [tries EXCEPT ![Current] = 1] /\ at' = "connect"
        /\ UNCHANGED <<calls, outcome>>
    BY <1>6 DEF CreateAgain
  <2>2. attempt' \in 1 .. Attempts /\ 1 \in 1 .. Tries
    BY <1>4, <1>6, <2>1, SSHConstants
  <2>3. SSHTypeOK'
    BY <1>1, <1>2, <1>3, <2>1, <2>2 DEF SSHInv, SSHTypeOK
  <2>4. Chained' /\ Connecting'
    <3>1. calls' = calls /\ at' = "connect"
      BY <2>1
    <3>2. 1 .. Len(calls) - 1 = {}
      BY <1>2
    <3> QED
      BY <3>1, <3>2 DEF Chained, Connecting
  <2>5. NoChannelLeaks'
    BY <1>3, <2>1 DEF NoChannelLeaks
  <2>6. ~trouble /\ ~stale => Smooth'
    <3> SUFFICES ASSUME ~trouble, ~stale PROVE Smooth'
      OBVIOUS
    <3>1. Smooth
      BY DEF SSHInv
    <3>2. calls' = calls /\ at' = "connect" /\ up' = up
      BY <1>3, <2>1
    <3> QED
      BY <1>2, <1>3, <3>1, <3>2 DEF Smooth
  <2> QED
    BY <1>1, <2>1, <2>3, <2>4, <2>5, <2>6 DEF SSHInv, FailsOnlyInTrouble
<1>7. CASE ~(attempt < Attempts)
  <2>1. at' = "idle" /\ calls' = << >> /\ outcome' = "failed" /\ UNCHANGED <<attempt, tries>>
    BY <1>7 DEF CreateAgain
  <2>2. trouble \/ stale
    BY <1>4, <1>5, <1>7, SSHConstants
  <2> QED
    BY <1>1, <1>3, <2>1, <2>2, SSHEnds DEF counters
<1> QED
  BY <1>6, <1>7

\* Steps of the innermost call that leave the clients as they are.
LEMMA SSHPasses ==
  ASSUME SSHInv, Connect \/ Login \/ FailChannel \/ ProxyFails \/ OpenSession
  PROVE  SSHInv'
<1>a. /\ UNCHANGED <<wires, losses, trouble, stale, attempt>> /\ at # "idle"
  BY DEF Connect, Login, FailChannel, ProxyFails, OpenSession, counters
<1>b. /\ calls \in Seq(Hosts) /\ Len(calls) \in Nat /\ Len(calls) >= 1 /\ calls # <<>>
      /\ Current \in Hosts /\ Current = calls[Len(calls)]
      /\ SSHTypeOK /\ Chained /\ Connecting /\ NoChannelLeaks
  BY <1>a, SSHFacts DEF SSHInv, SSHTypeOK
<1>c. 1 \in 1 .. Logins /\ 1 \in 1 .. Tries
  BY SSHConstants
<1>d. Len(calls) \in 1 .. Len(calls) /\ 1 \in 1 .. Len(calls)
  BY <1>b
<1>1. CASE Connect
  <2>1. /\ at = "connect" /\ at' = (IF Current \in connected THEN "connected" ELSE "login")
        /\ logins' = [logins EXCEPT ![Current] = 1]
        /\ UNCHANGED <<wires, calls, attempt, tries, outcome, losses, trouble, stale>>
        /\ Current' = Current
    BY <1>1 DEF Connect, Current
  <2>2. SSHTypeOK'
    BY <1>b, <1>c, <2>1 DEF SSHTypeOK, wires
  <2>3. Chained' /\ Connecting' /\ NoChannelLeaks'
    BY <1>b, <2>1 DEF Chained, Connecting, NoChannelLeaks, wires
  <2>4. Smooth => Smooth'
    BY <2>1 DEF Smooth, wires
  <2> QED
    BY <1>a, <2>1, <2>2, <2>3, <2>4 DEF SSHInv, FailsOnlyInTrouble
<1>2. CASE Login
  <2>1. CASE ~Proxied(Current)
    <3>1. /\ at = "login" /\ at' = "dial" /\ Current' = Current
          /\ UNCHANGED <<wires, calls, counters, outcome, losses, trouble, stale>>
      BY <1>2, <2>1 DEF Login, Current, counters
    <3>2. SSHTypeOK'
      BY <1>b, <3>1 DEF SSHTypeOK, wires, counters
    <3>3. Chained' /\ Connecting' /\ NoChannelLeaks'
      BY <1>b, <2>1, <3>1 DEF Chained, Connecting, NoChannelLeaks, wires
    <3>4. Smooth => Smooth'
      BY <2>1, <3>1 DEF Smooth, wires, counters
    <3> QED
      BY <1>a, <3>1, <3>2, <3>3, <3>4 DEF SSHInv, FailsOnlyInTrouble
  <2>2. CASE Proxied(Current)
    <3>1. /\ at = "login" /\ at' = "connect" /\ calls' = Append(calls, ProxyOf[Current])
          /\ tries' = [tries EXCEPT ![ProxyOf[Current]] = 1]
          /\ UNCHANGED <<wires, attempt, logins, outcome, losses, trouble, stale>>
      BY <1>2, <2>2 DEF Login
    <3>2. ProxyOf[Current] \in Hosts
      BY <1>b, <2>2, SSHConstants
    <3>3. /\ calls' \in Seq(Hosts) /\ Len(calls') = Len(calls) + 1 /\ calls' # <<>>
          /\ \A i \in 1 .. Len(calls) : calls'[i] = calls[i]
          /\ calls'[Len(calls) + 1] = ProxyOf[Current]
      BY <1>b, <3>1, <3>2
    <3>4. SSHTypeOK'
      BY <1>b, <1>c, <3>1, <3>3 DEF SSHTypeOK, wires
    <3>5. ASSUME NEW i \in 1 .. Len(calls') - 1
          PROVE  ProxyOf[calls'[i]] = calls'[i + 1] /\ calls'[i] \notin connected
      <4>1. CASE i = Len(calls)
        BY <1>b, <1>d, <3>1, <3>3, <4>1 DEF Connecting
      <4>2. CASE i # Len(calls)
        <5>1. i \in 1 .. Len(calls) - 1 /\ i \in 1 .. Len(calls) /\ i + 1 \in 1 .. Len(calls)
          BY <1>b, <3>3, <4>2
        <5> QED
          BY <1>b, <3>3, <5>1 DEF Chained, Connecting
      <4> QED
        BY <4>1, <4>2
    <3>6. Chained' /\ Connecting'
      BY <3>1, <3>5 DEF Chained, Connecting, wires
    <3>7. NoChannelLeaks'
      BY <1>b, <3>1 DEF NoChannelLeaks, wires
    <3>8. Smooth => Smooth'
      <4> SUFFICES ASSUME Smooth PROVE Smooth'
        OBVIOUS
      <4>1. calls'[1] = calls[1] /\ calls[1] \in Hosts
        BY <1>b, <1>d, <3>3
      <4>2. Current \in Chain(calls[1])
        BY <1>b, <1>d DEF Smooth
      <4>3. ProxyOf[Current] \in Chain(calls[1])
        BY <2>2, <4>1, <4>2, ChainIsClosed DEF Closed
      <4>4. \A i \in 1 .. Len(calls') : calls'[i] \in Chain(calls[1])
        <5> TAKE i \in 1 .. Len(calls')
        <5>1. i = Len(calls) + 1 \/ i \in 1 .. Len(calls)
          BY <1>b, <3>3
        <5> QED
          BY <3>3, <4>3, <5>1 DEF Smooth
      <4> QED
        BY <3>1, <4>1, <4>4 DEF Smooth, wires
    <3> QED
      BY <1>a, <3>1, <3>4, <3>6, <3>7, <3>8 DEF SSHInv, FailsOnlyInTrouble
  <2> QED
    BY <2>1, <2>2
<1>3. CASE FailChannel \/ ProxyFails
  <2>1. /\ at' = "failed" /\ calls' = Return /\ ~Outermost
        /\ UNCHANGED <<wires, counters, outcome, losses, trouble, stale>>
        /\ at = "failed" \/ (at = "connected" /\ Current \notin alive)
    BY <1>3 DEF FailChannel, ProxyFails
  <2>2. /\ Len(calls) >= 2 /\ Caller \notin connected /\ Current # calls[1]
        /\ Return \in Seq(Hosts) /\ Len(Return) = Len(calls) - 1 /\ Return # <<>>
        /\ \A i \in 1 .. Len(calls) - 1 : Return[i] = calls[i]
        /\ Return[Len(Return)] = Caller
    BY <1>a, <2>1, SSHCaller
  <2>3. Current' = Caller
    BY <2>1, <2>2 DEF Current
  <2>4. SSHTypeOK'
    BY <1>b, <2>1, <2>2 DEF SSHTypeOK, wires, counters
  <2>5. Chained' /\ Connecting'
    <3>1. \A i \in 1 .. Len(calls') - 1 :
            i \in 1 .. Len(calls) - 1 /\ calls'[i] = calls[i] /\ calls'[i + 1] = calls[i + 1]
      BY <1>b, <2>1, <2>2
    <3> QED
      BY <1>b, <2>1, <2>2, <2>3, <3>1 DEF Chained, Connecting, wires
  <2>6. NoChannelLeaks'
    BY <1>b, <2>1 DEF NoChannelLeaks, wires
  <2>7. trouble \/ stale
    <3> SUFFICES ASSUME ~trouble, ~stale PROVE FALSE
      OBVIOUS
    <3>1. Smooth
      BY <1>a DEF SSHInv
    <3>2. Current \in Chain(calls[1]) \ {calls[1]}
      BY <1>b, <1>d, <2>2, <3>1 DEF Smooth
    <3> QED
      BY <1>b, <2>1, <3>1, <3>2 DEF Smooth, Connecting
  <2> QED
    BY <1>a, <2>1, <2>4, <2>5, <2>6, <2>7 DEF SSHInv, FailsOnlyInTrouble
<1>4. CASE OpenSession
  <2>1. /\ at' = "idle" /\ calls' = << >> /\ outcome' = "done" /\ at = "connected"
        /\ UNCHANGED <<wires, counters, losses, trouble, stale>>
    BY <1>4 DEF OpenSession
  <2> QED
    BY <1>b, <2>1, SSHEnds DEF wires, SSHTypeOK, NoChannelLeaks
<1> QED
  BY <1>1, <1>2, <1>3, <1>4

\* Steps of the innermost call that change its client, or the channel to it.
LEMMA SSHConnects ==
  ASSUME SSHInv, OpenChannel \/ LogIn \/ LoginFails \/ ConnectAgain
  PROVE  SSHInv'
<1>a. UNCHANGED <<losses, trouble, stale, attempt, outcome>> /\ at # "idle"
  BY DEF OpenChannel, LogIn, LoginFails, ConnectAgain, counters
<1>b. /\ calls \in Seq(Hosts) /\ Len(calls) \in Nat /\ Len(calls) >= 1 /\ calls # <<>>
      /\ Current \in Hosts /\ Current = calls[Len(calls)]
      /\ \A i, j \in 1 .. Len(calls) : i < j => calls[i] # calls[j]
      /\ SSHTypeOK /\ Chained /\ Connecting /\ NoChannelLeaks /\ socks \in [Hosts -> Nat]
  BY <1>a, SSHFacts DEF SSHInv, SSHTypeOK
<1>d. Len(calls) \in 1 .. Len(calls) /\ 1 \in 1 .. Len(calls)
  BY <1>b
<1>e. ~trouble /\ ~stale => Smooth
  BY <1>a DEF SSHInv
<1>1. CASE OpenChannel
  <2>1. /\ at = "connected" /\ ~Outermost /\ Current \in alive
        /\ socks' = [socks EXCEPT ![Caller] = @ + 1] /\ calls' = Return /\ at' = "dial"
        /\ UNCHANGED <<up, connected, alive, counters, outcome, losses, trouble, stale>>
    BY <1>1 DEF OpenChannel
  <2>2. /\ Len(calls) >= 2 /\ Caller \in Hosts /\ Caller \notin connected /\ Proxied(Caller)
        /\ ProxyOf[Caller] = Current
        /\ Return \in Seq(Hosts) /\ Len(Return) = Len(calls) - 1 /\ Return # <<>>
        /\ \A i \in 1 .. Len(calls) - 1 : Return[i] = calls[i]
        /\ Return[Len(Return)] = Caller
    BY <1>a, <2>1, SSHCaller
  <2>3. Current' = Caller
    BY <2>1, <2>2 DEF Current
  <2>4. SSHTypeOK'
    <3>1. socks' \in [Hosts -> Nat]
      BY <1>b, <2>1, <2>2
    <3> QED
      BY <1>b, <2>1, <2>2, <3>1 DEF SSHTypeOK, counters
  <2>5. Chained' /\ Connecting'
    <3>a. calls' = Return
      BY <2>1
    <3>1. \A i \in 1 .. Len(calls') - 1 :
            i \in 1 .. Len(calls) - 1 /\ calls'[i] = calls[i] /\ calls'[i + 1] = calls[i + 1]
      <4>1. /\ Len(calls) \in Nat /\ Len(calls') = Len(calls) - 1
            /\ \A i \in 1 .. Len(calls) - 1 : calls'[i] = calls[i]
        BY <1>b, <2>2, <3>a
      <4> TAKE i \in 1 .. Len(calls') - 1
      <4>2. i \in 1 .. Len(calls) - 1 /\ i + 1 \in 1 .. Len(calls) - 1
        BY <4>1
      <4> QED
        BY <4>1, <4>2
    <3> QED
      BY <1>b, <2>1, <2>2, <2>3, <3>1 DEF Chained, Connecting
  <2>6. NoChannelLeaks'
    <3>1. \A h \in Hosts : socks'[h] = IF h = Caller THEN socks[h] + 1 ELSE socks[h]
      BY <1>b, <2>1, <2>2
    <3>2. socks[Caller] = 0
      BY <1>b, <2>1, <2>2 DEF NoChannelLeaks
    <3> QED
      BY <1>b, <2>1, <2>2, <2>3, <3>1, <3>2 DEF NoChannelLeaks
  <2>7. Smooth => Smooth'
    <3>1. /\ calls'[1] = calls[1] /\ \A i \in 1 .. Len(calls') : i \in 1 .. Len(calls) /\ calls'[i] = calls[i]
      BY <1>b, <2>1, <2>2
    <3> QED
      BY <2>1, <2>2, <2>3, <3>1 DEF Smooth, counters
  <2> QED
    BY <1>a, <1>e, <2>1, <2>4, <2>5, <2>6, <2>7 DEF SSHInv, FailsOnlyInTrouble
<1>2. CASE LogIn
  <2>1. /\ at = "dial" /\ Reachable(Current)
        /\ connected' = connected \cup {Current} /\ alive' = alive \cup {Current}
        /\ at' = "connected" /\ Current' = Current
        /\ UNCHANGED <<up, socks, calls, counters, outcome, losses, trouble, stale>>
    BY <1>2 DEF LogIn, Current
  <2>2. SSHTypeOK'
    BY <1>b, <2>1 DEF SSHTypeOK, counters
  <2>3. Chained'
    BY <1>b, <2>1 DEF Chained
  <2>4. Connecting'
    <3>1. \A i \in 1 .. Len(calls) - 1 : calls[i] # Current
      BY <1>b
    <3> QED
      BY <1>b, <2>1, <3>1 DEF Connecting
  <2>5. NoChannelLeaks'
    BY <1>b, <2>1 DEF NoChannelLeaks
  <2>6. Smooth => Smooth'
    BY <2>1 DEF Smooth, counters
  <2> QED
    BY <1>a, <1>e, <2>1, <2>2, <2>3, <2>4, <2>5, <2>6 DEF SSHInv, FailsOnlyInTrouble
<1>3. CASE LoginFails
  <2>1. /\ at = "dial" /\ ~Reachable(Current) /\ socks' = [socks EXCEPT ![Current] = 0]
        /\ Current' = Current
        /\ \/ logins[Current] < LoginLimit /\ logins' = [logins EXCEPT ![Current] = @ + 1] /\ at' = "login"
           \/ logins' = logins /\ at' = "failed"
        /\ UNCHANGED <<up, connected, alive, calls, attempt, tries, outcome, losses, trouble,
                       stale>>
    BY <1>3 DEF LoginFails, ChannelClosed, Current
  <2>2. SSHTypeOK'
    <3>1. logins' \in [Hosts -> 1 .. Logins]
      <4>1. LoginLimit <= Logins /\ LoginLimit \in Nat
        BY SSHConstants DEF LoginLimit
      <4>2. logins \in [Hosts -> 1 .. Logins] /\ logins[Current] \in 1 .. Logins
        BY <1>b DEF SSHTypeOK
      <4>3. logins[Current] < LoginLimit => logins[Current] + 1 \in 1 .. Logins
        BY <4>1, <4>2, SSHConstants
      <4> QED
        BY <2>1, <4>2, <4>3
    <3> QED
      BY <1>b, <2>1, <3>1 DEF SSHTypeOK
  <2>3. Chained' /\ Connecting'
    BY <1>b, <2>1 DEF Chained, Connecting
  <2>4. NoChannelLeaks'
    BY <1>b, <2>1 DEF NoChannelLeaks, Connecting
  <2>5. trouble \/ stale
    <3> SUFFICES ASSUME Smooth PROVE FALSE
      BY <1>e
    <3>1. Current \in up
      BY <1>b, <1>d DEF Smooth
    <3> QED
      BY <2>1, <3>1 DEF Smooth, Reachable
  <2> QED
    BY <1>a, <2>1, <2>2, <2>3, <2>4, <2>5 DEF SSHInv, FailsOnlyInTrouble
<1>4. CASE ConnectAgain
  <2>1. /\ at = "failed" /\ CloseConnection(Current) /\ at' = "connect"
        /\ tries' = [tries EXCEPT ![Current] = IF @ < Tries THEN @ + 1 ELSE @]
        /\ UNCHANGED <<calls, attempt, logins, outcome, losses, trouble, stale>>
    BY <1>4 DEF ConnectAgain
  <2>2. /\ connected' \in SUBSET Hosts /\ alive' \in SUBSET connected' /\ up' = up
        /\ socks' \in [Hosts -> Nat] /\ connected' = connected \ {Current}
        /\ \A h \in Hosts : socks'[h] = IF Proxied(h) /\ h \in connected' THEN 1 ELSE 0
    BY <2>1, ClosedClient
  <2>3. SSHTypeOK'
    <3>1. tries' \in [Hosts -> 1 .. Tries]
      BY <1>b, <2>1, SSHConstants DEF SSHTypeOK
    <3> QED
      BY <1>b, <2>1, <2>2, <3>1 DEF SSHTypeOK
  <2>4. Chained' /\ Connecting'
    BY <1>b, <2>1, <2>2 DEF Chained, Connecting
  <2>5. NoChannelLeaks'
    BY <2>1, <2>2 DEF NoChannelLeaks
  <2>6. trouble \/ stale
    BY <1>e, <2>1 DEF Smooth
  <2> QED
    BY <1>a, <2>1, <2>3, <2>4, <2>5, <2>6 DEF SSHInv, FailsOnlyInTrouble
<1> QED
  BY <1>1, <1>2, <1>3, <1>4

LEMMA SSHBegins == SSHInit => SSHInv
<1> SUFFICES ASSUME SSHInit PROVE SSHInv
  OBVIOUS
<1>1. 1 \in 1 .. Attempts /\ 1 \in 1 .. Tries /\ 1 \in 1 .. Logins /\ 0 \in 0 .. MaxLosses
  BY SSHConstants
<1>2. calls = << >> /\ Len(calls) = 0 /\ calls \in Seq(Hosts)
  BY DEF SSHInit
<1>3. SSHTypeOK
  BY <1>1, <1>2 DEF SSHInit, SSHTypeOK
<1>4. Chained /\ Connecting /\ NoChannelLeaks
  BY <1>2 DEF SSHInit, Chained, Connecting, NoChannelLeaks
<1> QED
  BY <1>3, <1>4 DEF SSHInit, SSHInv, FailsOnlyInTrouble

LEMMA SSHStep == SSHInv /\ [SSHNext]_sshVars => SSHInv'
<1> SUFFICES ASSUME SSHInv, [SSHNext]_sshVars PROVE SSHInv'
  OBVIOUS
<1>1. CASE UNCHANGED sshVars
  <2>1. UNCHANGED <<up, connected, alive, socks, calls, at, attempt, tries, logins, outcome,
                    losses,
                    trouble, stale, Current>>
    BY <1>1 DEF sshVars, wires, counters, Current
  <2> QED
    BY <2>1 DEF SSHInv, SSHTypeOK, Chained, Connecting, NoChannelLeaks, Smooth,
       FailsOnlyInTrouble
<1>2. CASE FailSession
  BY <1>2, SSHCreatesAgain DEF FailSession
<1>3. CASE ConnectFails
  BY <1>3, SSHCreatesAgain DEF ConnectFails
<1> QED
  BY <1>1, <1>2, <1>3, SSHNetwork, SSHCloses, SSHExecutes, SSHPasses, SSHConnects DEF
     SSHNext, CallStep

\* What the calls rely on holds throughout.
LEMMA SSHInductive == SSHSpec => []SSHInv
  BY SSHBegins, SSHStep, PTL DEF SSHSpec

\* The state is well formed: no loop makes more attempts than it may.
THEOREM SSHTyped == SSHSpec => []SSHTypeOK
  BY SSHInductive, PTL DEF SSHInv

\* Whatever fails on the way: a channel through a proxy is held by a client that is
\* connected, or by the call that is about to connect it
\* (SSHClientFixture.setup_ssh_client, cleanup_ssh_client).
THEOREM ChannelsDoNotLeak == SSHSpec => []NoChannelLeaks
  BY SSHInductive, PTL DEF SSHInv

\* A command fails only if a host on its way was down or a connection was lost during
\* the call, or the client of a proxy was dead before (create_process, connect).
THEOREM CommandsFailOnlyInTrouble == SSHSpec => []FailsOnlyInTrouble
  BY SSHInductive, PTL DEF SSHInv
-----------------------------------------------------------------------------
(***************************************************************************)
(* The discovery of nodes (Topology).                                      *)
(***************************************************************************)
\* The node that a host gets.
NodeOf(h) == [name |-> <<h, "short">>, host |-> h, addresses |-> AddressesOf(h)]

Entries == [hostname : {<<>>} \cup HostNames, addresses : SUBSET Addresses,
            group : Groups \cup {"none"}, optional : BOOLEAN]

\* An entry of the plan is about this host.
About(e, h) ==
  /\ \A a \in e.addresses : OwnerOf[a] = h
  /\ e.hostname # NoName => e.hostname[1] = h
  /\ e.hostname # NoName \/ e.addresses # {}

InPlace(e) ==
  \/ e.optional
  \/ \E n \in nodes : /\ \/ n.host \in {OwnerOf[a] : a \in e.addresses}
                         \/ e.hostname # NoName /\ n.name = NodeName(e.hostname)
                      /\ e.group # "none" => n.name \in groups[e.group]

RegistryInv ==
  /\ \A n \in nodes : n.host \in Machines /\ n = NodeOf(n.host)
  /\ \A n \in nodes : \A a \in n.addresses : byAddress[a] = n.name
  /\ \A a \in Addresses :
       byAddress[a] # NoName => byAddress[a] = <<OwnerOf[a], "short">> /\ byAddress[a] \in Names
  /\ \A g \in Groups : groups[g] \subseteq Names

ProgressInv ==
  /\ stage # "idle" => next <= Len(Plan) /\ ~ready
  /\ stage # "idle" => \A i \in 1 .. next - 1 : InPlace(Plan[i])
  /\ ready => \A i \in 1 .. Len(Plan) : InPlace(Plan[i])
  /\ stage = "named" => Wanted.hostname # NoName
  /\ stage \in {"proxied", "add"} => About(Wanted, reached)

RoutesInv ==
  /\ \A a \in Addresses : clients[a] \in {"none", NoMachine}
  /\ \A a \in Addresses : connections[<<a, NoMachine>>] # "untried" => clients[a] = NoMachine
  /\ \A a \in Addresses : connections[<<a, NoMachine>>] = "failed" =>
       <<a, NoMachine>> \notin Routes \/ OwnerOf[a] \in wasDown
  /\ stage \in {"proxy", "unreachable"} =>
       \A a \in Wanted.addresses : connections[<<a, NoMachine>>] = "failed"

TopoInv == TopologyTypeOK /\ RegistryInv /\ ProgressInv /\ RoutesInv

\* What the assumptions say of the plan and the machines.
LEMMA TopoConstants ==
  /\ NoMachine \notin Machines /\ "none" \notin Machines /\ NoMachine # "none"
  /\ Plan \in Seq(Entries) /\ Len(Plan) \in Nat \ {0} /\ DOMAIN Plan = 1 .. Len(Plan)
  /\ \A i \in 1 .. Len(Plan) : Plan[i] \in Entries
  /\ \A i \in 1 .. Len(Plan) : \E h \in Machines :
       /\ \A a \in Plan[i].addresses : OwnerOf[a] = h
       /\ Plan[i].hostname # NoName => Plan[i].hostname[1] = h
  /\ \A a \in Addresses : OwnerOf[a] \in Machines
  /\ NoName \notin HostNames
  /\ \A h \in Machines, f \in {"short", "full"} : <<h, f>> # NoName /\ <<h, f>> \in HostNames
  /\ \A h \in HostNames : h[1] \in Machines /\ NodeName(h) \in HostNames
  /\ MaxOutages \in Nat /\ "none" \notin Groups
<1>1. Plan \in Seq(Entries) /\ Len(Plan) \in Nat /\ DOMAIN Plan = 1 .. Len(Plan) /\ Plan # <<>>
  BY TopologyAssumption DEF Entries, HostNames
<1>2. Len(Plan) # 0
  BY <1>1
<1>3. \A i \in 1 .. Len(Plan) : Plan[i] \in Entries
  BY <1>1
<1>4. \A h \in HostNames : h # NoName /\ h[1] \in Machines /\ <<h[1], "short">> \in HostNames
  BY DEF HostNames, NoName
<1> QED
  BY <1>1, <1>2, <1>3, <1>4, TopologyAssumption DEF NoName, HostNames, NodeName

LEMMA TopoInit == TopologyInit => TopoInv
<1> SUFFICES ASSUME TopologyInit PROVE TopoInv
  OBVIOUS
<1>1. TopologyTypeOK
  <2>1. 1 \in 1 .. Len(Plan) + 1 /\ 0 \in 0 .. MaxOutages
    BY TopoConstants
  <2> QED
    BY <2>1, TopoConstants DEF TopologyInit, TopologyTypeOK, Key
<1>2. RegistryInv
  BY DEF TopologyInit, RegistryInv
<1>3. ProgressInv
  BY DEF TopologyInit, ProgressInv
<1>4. RoutesInv
  BY DEF TopologyInit, RoutesInv, Key
<1> QED
  BY <1>1, <1>2, <1>3, <1>4 DEF TopoInv

\* What the registry held is kept: an entry of the plan stays in place.
LEMMA StillInPlace ==
  ASSUME TopologyTypeOK, nodes \subseteq nodes', \A g \in Groups : groups[g] \subseteq groups'[g],
         NEW i \in 1 .. Len(Plan), InPlace(Plan[i])
  PROVE  InPlace(Plan[i])'
<1>1. Plan[i] \in Entries
  BY TopoConstants
<1> QED
  BY <1>1 DEF InPlace, Entries

\* The registry without its steps: nothing that is registered changes.
LEMMA TopoKeep ==
  ASSUME TopoInv, UNCHANGED registry
  PROVE  RegistryInv' /\ \A i \in 1 .. Len(Plan) : InPlace(Plan[i]) => InPlace(Plan[i])'
<1>1. RegistryInv'
  BY DEF TopoInv, RegistryInv, registry, Names
<1>2. \A i \in 1 .. Len(Plan) : InPlace(Plan[i]) => InPlace(Plan[i])'
  BY StillInPlace DEF TopoInv, registry
<1> QED
  BY <1>1, <1>2

\* Machines go down and come back, and who asks for nodes.
LEMMA TopoWorld ==
  ASSUME TopoInv, NEW h \in Machines, GoesDown(h) \/ ComesUp(h)
  PROVE  TopoInv'
<1>1. /\ UNCHANGED <<registry, known, ready, wasCleaned, progress>>
      /\ wasDown \subseteq wasDown'
  BY DEF GoesDown, ComesUp
<1>2. TopologyTypeOK'
  <2>1. outages' \in 0 .. MaxOutages
    BY TopoConstants DEF GoesDown, ComesUp, TopoInv, TopologyTypeOK
  <2>2. /\ running' \in SUBSET Machines /\ wasDown' \in SUBSET Machines
        /\ Machines \ running' \subseteq wasDown'
    BY DEF GoesDown, ComesUp, TopoInv, TopologyTypeOK
  <2> QED
    BY <1>1, <2>1, <2>2 DEF TopoInv, TopologyTypeOK, registry, known, progress
<1>3. ProgressInv'
  BY <1>1, TopoKeep DEF TopoInv, TopologyTypeOK, ProgressInv, About, Wanted, progress
<1>4. RoutesInv'
  BY <1>1 DEF TopoInv, RoutesInv, known, progress, Wanted
<1> QED
  BY <1>1, <1>2, <1>3, <1>4, TopoKeep DEF TopoInv

\* A step that registers nothing and goes on with the same entry of the plan.
LEMMA TopoSameEntry ==
  ASSUME TopoInv, UNCHANGED <<world, registry, ready, next>>, stage # "idle",
         stage' \in {"find", "named", "direct", "proxy", "proxied", "add", "unreachable"},
         wasCleaned' \in BOOLEAN, proxies' \in SUBSET Machines,
         reached' \in Machines \cup {NoMachine},
         stage' = "named" => Wanted.hostname # NoName,
         stage' \in {"proxied", "add"} => reached' \in Machines /\ About(Wanted, reached'),
         connections' \in [Key -> {"untried", "valid", "failed"}],
         clients' \in [Addresses -> Machines \cup {NoMachine, "none"}], RoutesInv'
  PROVE  TopoInv'
<1>1. TopologyTypeOK'
  BY TopoConstants DEF TopoInv, TopologyTypeOK, world, registry
<1>2. ProgressInv'
  BY TopoKeep DEF TopoInv, TopologyTypeOK, ProgressInv, About, Wanted
<1> QED
  BY <1>1, <1>2, TopoKeep DEF TopoInv

\* One attempt to connect.  No address is tried through a proxy before it was tried
\* without, so that every client does without.
LEMMA TopoTry ==
  ASSUME TopoInv, NEW as \in SUBSET Addresses, NEW p \in Machines \cup {NoMachine},
         NEW found \in {"add", "proxied"}, TryConnecting(as, p, found),
         UNCHANGED <<world, next>>, stage \in {"direct", "proxy", "proxied"},
         p # NoMachine => \A a \in as : connections[<<a, NoMachine>>] = "failed"
  PROVE  /\ connections' \in [Key -> {"untried", "valid", "failed"}]
         /\ clients' \in [Addresses -> Machines \cup {NoMachine, "none"}]
         /\ RoutesInv'
         /\ \/ stage' = stage /\ reached' = reached
            \/ stage' = found /\ reached' \in {OwnerOf[a] : a \in as}
<1>a. /\ TopologyTypeOK /\ RoutesInv
      /\ connections \in [Key -> {"untried", "valid", "failed"}]
      /\ clients \in [Addresses -> Machines \cup {NoMachine, "none"}]
  BY DEF TopoInv, TopologyTypeOK
<1>1. CASE Valid(as, p) # {}
  BY <1>1, <1>a DEF TryConnecting, known, world, Remembered, Valid, RoutesInv, Wanted
<1>2. CASE Valid(as, p) = {}
  <2>1. PICK a \in Untried(as, p) :
          /\ clients' = [clients EXCEPT ![a] = ClientProxy(a, p)]
          /\ IF CanReach(a, ClientProxy(a, p))
             THEN /\ connections' = [connections EXCEPT ![<<a, p>>] = "valid"]
                  /\ reached' = OwnerOf[a]
                  /\ stage' = found
             ELSE /\ connections' = [connections EXCEPT ![<<a, p>>] = "failed"]
                  /\ UNCHANGED <<reached, stage>>
    BY <1>2 DEF TryConnecting
  <2>2. a \in as /\ a \in Addresses /\ <<a, p>> \in Key /\ <<a, NoMachine>> \in Key
        /\ connections[<<a, p>>] = "untried"
    BY <2>1 DEF Untried, Key
  <2>3. ClientProxy(a, p) = NoMachine
    BY <1>a, <2>2, TopoConstants DEF ClientProxy, RoutesInv
  <2>4. /\ connections' \in [Key -> {"untried", "valid", "failed"}]
        /\ clients' \in [Addresses -> Machines \cup {NoMachine, "none"}]
        /\ clients'[a] = NoMachine /\ \A b \in Addresses : b # a => clients'[b] = clients[b]
        /\ \A k \in Key : k # <<a, p>> => connections'[k] = connections[k]
    BY <1>a, <2>1, <2>2, <2>3
  <2>5. ASSUME NEW b \in Addresses, connections'[<<b, NoMachine>>] # "untried"
        PROVE  clients'[b] = NoMachine
    <3>1. CASE b = a
      BY <2>4, <3>1
    <3>2. CASE b # a
      <4>1. connections'[<<b, NoMachine>>] = connections[<<b, NoMachine>>]
        BY <2>4, <3>2 DEF Key
      <4> QED
        BY <1>a, <2>4, <2>5, <3>2, <4>1 DEF RoutesInv
    <3> QED
      BY <3>1, <3>2
  <2>6. ASSUME NEW b \in Addresses, connections'[<<b, NoMachine>>] = "failed"
        PROVE  <<b, NoMachine>> \notin Routes \/ OwnerOf[b] \in wasDown
    <3>1. CASE b = a /\ p = NoMachine
      <4>1. ~CanReach(a, NoMachine)
        BY <1>a, <2>1, <2>2, <2>3, <2>6, <3>1
      <4> QED
        BY <1>a, <3>1, <4>1, TopoConstants DEF CanReach, TopologyTypeOK
    <3>2. CASE ~(b = a /\ p = NoMachine)
      <4>1. connections'[<<b, NoMachine>>] = connections[<<b, NoMachine>>]
        BY <2>4, <3>2 DEF Key
      <4> QED
        BY <1>a, <2>6, <4>1 DEF RoutesInv
    <3> QED
      BY <3>1, <3>2
  <2>7. stage' \in {"proxy", "unreachable"} =>
          \A b \in Plan[next].addresses : connections'[<<b, NoMachine>>] = "failed"
    <3> SUFFICES ASSUME stage' \in {"proxy", "unreachable"}, NEW b \in Plan[next].addresses
                 PROVE  connections'[<<b, NoMachine>>] = "failed"
      OBVIOUS
    <3>1. connections[<<b, NoMachine>>] = "failed"
      BY <1>a, <2>1 DEF RoutesInv, Wanted
    <3>2. Plan[next].addresses \subseteq Addresses
      <4>1. next \in 1 .. Len(Plan)
        BY <1>a, TopoConstants DEF TopoInv, ProgressInv, TopologyTypeOK
      <4> QED
        BY <4>1, TopoConstants DEF Entries
    <3>3. <<b, NoMachine>> \in Key /\ <<b, NoMachine>> # <<a, p>>
      BY <2>2, <3>1, <3>2 DEF Key
    <3> QED
      BY <2>4, <3>1, <3>3
  <2>8. RoutesInv'
    <3>1. \A b \in Addresses : clients'[b] \in {"none", NoMachine}
      BY <1>a, <2>4 DEF RoutesInv
    <3> QED
      BY <2>5, <2>6, <2>7, <3>1 DEF RoutesInv, Wanted, world
  <2> QED
    BY <2>1, <2>2, <2>4, <2>8
<1> QED
  BY <1>1, <1>2

\* The node is added to its group and the plan goes on.
LEMMA TopoAdvance ==
  ASSUME TopoInv, Advance, UNCHANGED <<world, known>>, stage # "idle",
         TopologyTypeOK', RegistryInv', NEW e \in Entries, e = Wanted, InPlace(e)',
         nodes \subseteq nodes', \A g \in Groups : groups[g] \subseteq groups'[g]
  PROVE  TopoInv'
<1>1. /\ next \in 1 .. Len(Plan) /\ ~ready /\ \A i \in 1 .. next - 1 : InPlace(Plan[i])
      /\ Len(Plan) \in Nat
  BY TopoConstants DEF TopoInv, ProgressInv, TopologyTypeOK
<1>2. \A i \in 1 .. next : InPlace(Plan[i])'
  <2> TAKE i \in 1 .. next
  <2>1. CASE i = next
    BY <2>1 DEF Wanted, InPlace
  <2>2. CASE i # next
    <3>1. i \in 1 .. next - 1 /\ i \in 1 .. Len(Plan)
      BY <1>1, <2>2
    <3> QED
      BY <1>1, <3>1, StillInPlace DEF TopoInv
  <2> QED
    BY <2>1, <2>2
<1>3. /\ next' = next + 1 /\ stage' = (IF next = Len(Plan) THEN "idle" ELSE "find")
      /\ ready' = (next = Len(Plan))
  BY DEF Advance
<1>4. ProgressInv'
  <2>1. CASE next = Len(Plan)
    <3>1. stage' = "idle" /\ next' - 1 = Len(Plan)
      BY <1>1, <1>3, <2>1
    <3> QED
      BY <1>2, <2>1, <3>1 DEF ProgressInv
  <2>2. CASE next # Len(Plan)
    <3>1. stage' = "find" /\ ~ready'
      BY <1>3, <2>2
    <3>2. next' - 1 = next /\ next' <= Len(Plan)
      BY <1>1, <1>3, <2>2
    <3> QED
      BY <1>2, <3>1, <3>2 DEF ProgressInv
  <2> QED
    BY <2>1, <2>2
<1>5. RoutesInv'
  BY <1>3 DEF TopoInv, RoutesInv, world, known
<1> QED
  BY <1>4, <1>5 DEF TopoInv

\* What is registered when a step of the discovery begins.
LEMMA TopoEntry ==
  ASSUME TopoInv, stage # "idle"
  PROVE  /\ Wanted \in Entries /\ next \in 1 .. Len(Plan) /\ Len(Plan) \in Nat
         /\ Wanted.addresses \subseteq Addresses
         /\ Wanted.hostname # NoName => Wanted.hostname \in HostNames
         /\ \E h \in Machines :
              /\ \A a \in Wanted.addresses : OwnerOf[a] = h
              /\ Wanted.hostname # NoName => Wanted.hostname[1] = h
<1>1. next \in 1 .. Len(Plan)
  BY TopoConstants DEF TopoInv, ProgressInv, TopologyTypeOK
<1>2. Wanted \in Entries
  BY <1>1, TopoConstants DEF Wanted
<1> QED
  BY <1>1, <1>2, TopoConstants DEF Wanted, Entries, NoName

\* The same of the type invariant.
LEMMA TopoAdvanceTyped ==
  ASSUME TopoInv, Advance, UNCHANGED <<world, known>>, stage # "idle",
         nodes' \in SUBSET [name : HostNames, host : Machines, addresses : SUBSET Addresses],
         byAddress' \in [Addresses -> HostNames \cup {NoName}],
         groups' \in [Groups -> SUBSET HostNames]
  PROVE  TopologyTypeOK'
<1>1. next' \in 1 .. Len(Plan) + 1
  BY TopoEntry DEF Advance
<1>2. /\ stage' \in {"idle", "find"} /\ ready' \in BOOLEAN /\ wasCleaned' \in BOOLEAN
      /\ proxies' = {} /\ reached' = NoMachine
  BY DEF Advance, TopoInv, TopologyTypeOK
<1> QED
  BY <1>1, <1>2 DEF TopoInv, TopologyTypeOK, world, known

\* The steps that find the node of an entry by name or address.
LEMMA TopoKnown ==
  ASSUME TopoInv, AlreadyKnown
  PROVE  TopoInv'
<1>1. stage = "find" /\ Advance /\ UNCHANGED <<world, nodes, byAddress, known>>
  BY DEF AlreadyKnown
<1>2. PICK name \in Matching : JoinGroup(name)
  BY DEF AlreadyKnown
<1>3. /\ Wanted \in Entries /\ Wanted.addresses \subseteq Addresses
      /\ Wanted.hostname # NoName => Wanted.hostname \in HostNames
  BY <1>1, TopoEntry
<1>4. PICK n \in nodes :
        /\ n.name = name
        /\ \/ n.host \in {OwnerOf[a] : a \in Wanted.addresses}
           \/ Wanted.hostname # NoName /\ n.name = NodeName(Wanted.hostname)
  <2>1. CASE Wanted.hostname # NoName /\ NodeName(Wanted.hostname) \in Names
    BY <1>2, <2>1 DEF Matching, Names
  <2>2. CASE ~(Wanted.hostname # NoName /\ NodeName(Wanted.hostname) \in Names)
    <3>1. PICK a \in Wanted.addresses : byAddress[a] = name /\ name # NoName
      BY <1>2, <2>2 DEF Matching
    <3>2. name = <<OwnerOf[a], "short">> /\ name \in Names /\ a \in Addresses
      BY <1>3, <3>1 DEF TopoInv, RegistryInv
    <3>3. PICK n \in nodes : n.name = name
      BY <3>2 DEF Names
    <3>4. n.name = <<n.host, "short">>
      BY DEF TopoInv, RegistryInv, NodeOf
    <3> QED
      BY <3>1, <3>2, <3>3, <3>4
  <2> QED
    BY <2>1, <2>2
<1>5. name \in HostNames /\ name \in Names
  BY <1>4 DEF TopoInv, TopologyTypeOK, Names
<1>6. /\ groups' \in [Groups -> SUBSET HostNames]
      /\ \A g \in Groups : groups[g] \subseteq groups'[g] /\ groups'[g] \subseteq groups[g] \cup {name}
      /\ Wanted.group # "none" => name \in groups'[Wanted.group]
  BY <1>2, <1>3, <1>5 DEF JoinGroup, TopoInv, TopologyTypeOK, Entries
<1>7. TopologyTypeOK'
  BY <1>1, <1>6, TopoAdvanceTyped DEF TopoInv, TopologyTypeOK
<1>8. RegistryInv'
  BY <1>1, <1>5, <1>6 DEF TopoInv, RegistryInv, Names
<1>9. ASSUME NEW e \in Entries, e = Wanted PROVE InPlace(e)'
  BY <1>1, <1>4, <1>6, <1>9 DEF InPlace
<1> QED
  BY <1>1, <1>3, <1>6, <1>7, <1>8, <1>9, TopoAdvance

\* The step that registers a node.
LEMMA TopoAdd ==
  ASSUME TopoInv, AddNode
  PROVE  TopoInv'
<1> DEFINE name == <<reached, "short">>
           all == AddressesOf(reached)
<1>1. stage = "add" /\ Advance /\ UNCHANGED <<world, known>>
  BY DEF AddNode
<1>2. /\ Wanted \in Entries /\ Wanted.addresses \subseteq Addresses
      /\ Wanted.hostname # NoName => Wanted.hostname \in HostNames
  BY <1>1, TopoEntry
<1>3. About(Wanted, reached) /\ reached \in Machines
  BY <1>1 DEF TopoInv, ProgressInv, TopologyTypeOK
<1>4. /\ Wanted.addresses \cup AddressesOf(reached) = all
      /\ NodeName(IF Wanted.hostname # NoName THEN Wanted.hostname ELSE <<reached, "short">>) = name
  BY <1>2, <1>3 DEF About, AddressesOf, NodeName
<1>5. name \in HostNames /\ name # NoName /\ all \in SUBSET Addresses /\ \A a \in all : OwnerOf[a] = reached
  BY <1>3, TopoConstants DEF AddressesOf
<1>6. /\ nodes' = (IF name \in Names THEN nodes ELSE nodes \cup {NodeOf(reached)})
      /\ byAddress' = [a \in Addresses |-> IF a \in all /\ byAddress[a] = NoName
                                            THEN name ELSE byAddress[a]]
      /\ JoinGroup(name)
  BY <1>4 DEF AddNode, NodeOf
<1> HIDE DEF name, all
<1>7. /\ groups' \in [Groups -> SUBSET HostNames]
      /\ \A g \in Groups : groups[g] \subseteq groups'[g] /\ groups'[g] \subseteq groups[g] \cup {name}
      /\ Wanted.group # "none" => name \in groups'[Wanted.group]
  BY <1>2, <1>5, <1>6 DEF JoinGroup, TopoInv, TopologyTypeOK, Entries
<1>8. PICK n \in nodes' : n = NodeOf(reached)
  <2>1. CASE name \in Names
    <3>1. PICK n \in nodes : n.name = name
      BY <2>1 DEF Names
    <3>2. n = NodeOf(n.host)
      BY DEF TopoInv, RegistryInv
    <3>3. n.host = reached
      BY <3>1, <3>2 DEF NodeOf, name
    <3> QED
      BY <1>6, <2>1, <3>2, <3>3
  <2> QED
    BY <1>6, <2>1
<1>9. /\ nodes' \subseteq nodes \cup {n} /\ nodes \subseteq nodes'
      /\ n.name = name /\ n.host = reached /\ n.addresses = all
  BY <1>6, <1>8 DEF NodeOf, name, all
<1>10. /\ byAddress' \in [Addresses -> HostNames \cup {NoName}]
       /\ \A a \in Addresses : byAddress[a] # NoName => byAddress'[a] = byAddress[a]
       /\ \A a \in Addresses : byAddress[a] = NoName => byAddress'[a] \in {NoName, name}
       /\ \A a \in Addresses : byAddress'[a] = name /\ byAddress[a] = NoName => a \in all
       /\ \A a \in all : byAddress'[a] # NoName
  BY <1>5, <1>6 DEF TopoInv, TopologyTypeOK
<1>11. \A a \in Addresses : byAddress'[a] # NoName => byAddress'[a] = <<OwnerOf[a], "short">>
                                                  /\ (byAddress'[a] \in Names \/ byAddress'[a] = name)
  BY <1>5, <1>10 DEF TopoInv, RegistryInv, name
<1>12. RegistryInv'
  <2>1. \A a \in all : byAddress'[a] = name
    BY <1>5, <1>10, <1>11 DEF name
  <2>2. Names' = Names \cup {name}
    BY <1>8, <1>9 DEF Names
  <2>3. \A m \in nodes' : m.host \in Machines /\ m = NodeOf(m.host)
    BY <1>3, <1>8, <1>9 DEF TopoInv, RegistryInv
  <2>4. \A m \in nodes' : \A a \in m.addresses : byAddress'[a] = m.name
    <3> TAKE m \in nodes'
    <3>1. CASE m = n
      BY <1>9, <2>1, <3>1
    <3>2. CASE m # n
      <4>1. m \in nodes /\ m.addresses \subseteq Addresses /\ m.name \in HostNames
        BY <1>9, <3>2 DEF TopoInv, TopologyTypeOK
      <4>2. \A a \in m.addresses : byAddress[a] = m.name /\ m.name # NoName
        BY <4>1, TopoConstants DEF TopoInv, RegistryInv
      <4> QED
        BY <1>10, <4>1, <4>2
    <3> QED
      BY <3>1, <3>2
  <2>5. \A g \in Groups : groups'[g] \subseteq Names'
    BY <1>7, <2>2 DEF TopoInv, RegistryInv
  <2> QED
    BY <1>11, <2>2, <2>3, <2>4, <2>5 DEF RegistryInv, NodeOf, AddressesOf
<1>13. TopologyTypeOK'
  <2>1. n \in [name : HostNames, host : Machines, addresses : SUBSET Addresses]
    BY <1>3, <1>5, <1>8, <1>9 DEF NodeOf
  <2>2. nodes' \in SUBSET [name : HostNames, host : Machines, addresses : SUBSET Addresses]
    BY <1>9, <2>1 DEF TopoInv, TopologyTypeOK
  <2> QED
    BY <1>1, <1>7, <1>10, <2>2, TopoAdvanceTyped
<1>14. ASSUME NEW e \in Entries, e = Wanted PROVE InPlace(e)'
  <2>1. \/ n.host \in {OwnerOf[a] : a \in e.addresses}
        \/ e.hostname # NoName /\ n.name = NodeName(e.hostname)
    BY <1>3, <1>4, <1>9, <1>14 DEF About
  <2>2. e.group # "none" => n.name \in groups'[e.group]
    BY <1>7, <1>9, <1>14
  <2> QED
    BY <2>1, <2>2 DEF InPlace
<1> QED
  BY <1>1, <1>2, <1>7, <1>9, <1>12, <1>13, <1>14, TopoAdvance

\* The steps that look for a connection.
LEMMA TopoConnect ==
  ASSUME TopoInv,
         \/ NotKnown \/ ConnectByName \/ ConnectDirectly \/ LookForProxies \/ NoProxyLeft
         \/ DoWithoutProxy \/ \E p \in Machines : ConnectByProxy(p) \/ NextProxy(p)
  PROVE  TopoInv'
<1>a. stage # "idle" /\ UNCHANGED <<world, registry, ready, next, wasCleaned>>
  BY DEF NotKnown, ConnectByName, ConnectDirectly, LookForProxies, NoProxyLeft,
     DoWithoutProxy,
         ConnectByProxy, NextProxy
<1>b. /\ TopologyTypeOK /\ wasCleaned' \in BOOLEAN /\ proxies \in SUBSET Machines
      /\ reached \in Machines \cup {NoMachine}
      /\ connections \in [Key -> {"untried", "valid", "failed"}]
      /\ clients \in [Addresses -> Machines \cup {NoMachine, "none"}]
      /\ stage \in {"proxied", "add"} => reached \in Machines /\ About(Wanted, reached)
  BY <1>a DEF TopoInv, TopologyTypeOK, ProgressInv
<1>c. /\ Wanted.addresses \subseteq Addresses
      /\ Wanted.hostname # NoName => Wanted.hostname[1] \in Machines
      /\ \A a \in Wanted.addresses : About(Wanted, OwnerOf[a]) /\ OwnerOf[a] \in Machines
      /\ Wanted.hostname # NoName => About(Wanted, Wanted.hostname[1])
  BY <1>a, TopoEntry, TopoConstants DEF About
<1>d. ASSUME UNCHANGED known,
             stage' \in {"proxy", "unreachable"} =>
               \A a \in Wanted.addresses : connections[<<a, NoMachine>>] = "failed"
      PROVE  RoutesInv'
  BY <1>a, <1>d DEF TopoInv, RoutesInv, known, world, Wanted
<1>1. CASE NotKnown
  BY <1>1, <1>a, <1>b, <1>d, TopoSameEntry DEF NotKnown, known
<1>2. CASE ConnectByName
  <2>1. Wanted.hostname # NoName
    BY <1>2 DEF ConnectByName, TopoInv, ProgressInv
  <2>2. /\ UNCHANGED known /\ proxies' = proxies
        /\ \/ stage' = "add" /\ reached' = Wanted.hostname[1]
           \/ stage' = "direct" /\ reached' = reached
    BY <1>2 DEF ConnectByName
  <2>3. reached' \in Machines \cup {NoMachine} /\ (stage' = "add" => About(Wanted, reached'))
    BY <1>b, <1>c, <2>1, <2>2
  <2> QED
    BY <1>a, <1>b, <1>c, <1>d, <2>1, <2>2, <2>3, TopoSameEntry DEF known
<1>3. CASE ConnectDirectly
  <2>1. TryConnecting(Wanted.addresses, NoMachine, "add") /\ stage = "direct" /\ proxies' = proxies
    BY <1>3 DEF ConnectDirectly
  <2>2. /\ connections' \in [Key -> {"untried", "valid", "failed"}]
        /\ clients' \in [Addresses -> Machines \cup {NoMachine, "none"}]
        /\ RoutesInv'
        /\ \/ stage' = stage /\ reached' = reached
           \/ stage' = "add" /\ reached' \in {OwnerOf[a] : a \in Wanted.addresses}
    BY <1>a, <1>c, <2>1, TopoTry
  <2> QED
    BY <1>a, <1>b, <1>c, <2>1, <2>2, TopoSameEntry
<1>4. CASE LookForProxies
  <2>1. {n.host : n \in nodes} \in SUBSET Machines
    BY <1>b DEF TopologyTypeOK
  <2>2. \A a \in Wanted.addresses : connections[<<a, NoMachine>>] = "failed"
    <3> TAKE a \in Wanted.addresses
    <3>1. <<a, NoMachine>> \in Key
      BY <1>c DEF Key
    <3> QED
      BY <1>4, <1>b, <3>1 DEF LookForProxies, Hopeless, Valid, Untried
  <2> QED
    BY <1>4, <1>a, <1>b, <1>d, <2>1, <2>2, TopoSameEntry DEF LookForProxies, known
<1>5. CASE NoProxyLeft
  <2>1. \A a \in Wanted.addresses : connections[<<a, NoMachine>>] = "failed"
    BY <1>5 DEF NoProxyLeft, TopoInv, RoutesInv
  <2> QED
    BY <1>5, <1>a, <1>b, <1>d, <2>1, TopoSameEntry DEF NoProxyLeft, known
<1>6. CASE DoWithoutProxy
  <2>1. stage = "proxied" /\ proxies' = proxies /\ reached \in Machines /\ About(Wanted, reached)
    BY <1>6, <1>b DEF DoWithoutProxy
  <2>2. CASE Hopeless(AddressesOf(reached), NoMachine)
    BY <1>6, <1>a, <1>b, <1>d, <2>1, <2>2, TopoSameEntry DEF DoWithoutProxy, known
  <2>3. CASE ~Hopeless(AddressesOf(reached), NoMachine)
    <3>1. TryConnecting(AddressesOf(reached), NoMachine, "add")
      BY <1>6, <2>3 DEF DoWithoutProxy
    <3>2. /\ AddressesOf(reached) \in SUBSET Addresses
          /\ {OwnerOf[a] : a \in AddressesOf(reached)} \subseteq {reached}
      BY DEF AddressesOf
    <3>3. /\ connections' \in [Key -> {"untried", "valid", "failed"}]
          /\ clients' \in [Addresses -> Machines \cup {NoMachine, "none"}]
          /\ RoutesInv'
          /\ \/ stage' = stage /\ reached' = reached
             \/ stage' = "add" /\ reached' \in {OwnerOf[a] : a \in AddressesOf(reached)}
      BY <1>a, <2>1, <3>1, <3>2, TopoTry
    <3> QED
      BY <1>a, <1>b, <2>1, <3>2, <3>3, TopoSameEntry
  <2> QED
    BY <2>2, <2>3
<1>7. ASSUME NEW p \in Machines, ConnectByProxy(p) PROVE TopoInv'
  <2>1. TryConnecting(Wanted.addresses, p, "proxied") /\ stage = "proxy" /\ proxies' = proxies
    BY <1>7 DEF ConnectByProxy
  <2>2. \A a \in Wanted.addresses : connections[<<a, NoMachine>>] = "failed"
    BY <2>1 DEF TopoInv, RoutesInv
  <2>3. /\ connections' \in [Key -> {"untried", "valid", "failed"}]
        /\ clients' \in [Addresses -> Machines \cup {NoMachine, "none"}]
        /\ RoutesInv'
        /\ \/ stage' = stage /\ reached' = reached
           \/ stage' = "proxied" /\ reached' \in {OwnerOf[a] : a \in Wanted.addresses}
    BY <1>a, <1>c, <2>1, <2>2, TopoTry
  <2> QED
    BY <1>a, <1>b, <1>c, <2>1, <2>3, TopoSameEntry
<1>8. ASSUME NEW p \in Machines, NextProxy(p) PROVE TopoInv'
  <2>1. \A a \in Wanted.addresses : connections[<<a, NoMachine>>] = "failed"
    BY <1>8 DEF NextProxy, TopoInv, RoutesInv
  <2> QED
    BY <1>8, <1>a, <1>b, <1>d, <2>1, TopoSameEntry DEF NextProxy, known
<1> QED
  BY <1>1, <1>2, <1>3, <1>4, <1>5, <1>6, <1>7, <1>8

\* The steps that end a discovery.
LEMMA TopoEnds ==
  ASSUME TopoInv, Discover \/ CleanUpTopology \/ SkipNode \/ FailDiscovery
  PROVE  TopoInv'
<1>a. TopologyTypeOK /\ RegistryInv /\ RoutesInv /\ ProgressInv
  BY DEF TopoInv
<1>b. ASSUME Forget PROVE RegistryInv'
  BY <1>b DEF Forget, RegistryInv
<1>c. ASSUME Forget
      PROVE  /\ nodes' \in SUBSET [name : HostNames, host : Machines, addresses : SUBSET Addresses]
             /\ byAddress' \in [Addresses -> HostNames \cup {NoName}]
             /\ groups' \in [Groups -> SUBSET HostNames]
  BY <1>c DEF Forget
<1>1. CASE Discover
  <2>1. /\ next' = 1 /\ stage' = "find" /\ proxies' = {} /\ reached' = NoMachine
        /\ ~ready /\ UNCHANGED <<world, registry, known, ready, wasCleaned>>
    BY <1>1 DEF Discover
  <2>2. 1 \in 1 .. Len(Plan) + 1 /\ 1 <= Len(Plan) /\ 1 .. next' - 1 = {}
    BY <2>1, TopoConstants
  <2>3. TopologyTypeOK'
    BY <1>a, <2>1, <2>2 DEF TopologyTypeOK, world, registry, known
  <2>4. ProgressInv'
    BY <2>1, <2>2 DEF ProgressInv
  <2>5. RoutesInv'
    BY <1>a, <2>1 DEF RoutesInv, world, known
  <2> QED
    BY <2>1, <2>3, <2>4, <2>5, TopoKeep DEF TopoInv
<1>2. CASE CleanUpTopology
  <2>1. /\ stage = "idle" /\ Forget /\ ready' = FALSE /\ wasCleaned' = TRUE
        /\ UNCHANGED <<world, known, progress>>
    BY <1>2 DEF CleanUpTopology
  <2>2. TopologyTypeOK'
    BY <1>a, <1>c, <2>1 DEF TopologyTypeOK, world, known, progress
  <2>3. ProgressInv' /\ RoutesInv'
    BY <1>a, <2>1 DEF ProgressInv, RoutesInv, world, known, progress, Wanted
  <2> QED
    BY <1>b, <2>1, <2>2, <2>3 DEF TopoInv
<1>3. CASE SkipNode
  <2>1. stage = "unreachable" /\ Wanted.optional /\ Advance /\ UNCHANGED <<world, registry,
                                                                           known>>
    BY <1>3 DEF SkipNode, MayBeMissing
  <2>2. TopologyTypeOK'
    BY <1>a, <2>1, TopoAdvanceTyped DEF TopologyTypeOK, registry
  <2>3. ASSUME NEW e \in Entries, e = Wanted PROVE InPlace(e)'
    BY <2>1, <2>3 DEF InPlace
  <2> QED
    BY <2>1, <2>2, <2>3, TopoAdvance, TopoKeep, TopoEntry DEF registry
<1>4. CASE FailDiscovery
  <2>1. /\ stage # "idle" /\ wasCleaned' = TRUE /\ stage' = "idle" /\ ~ready
        /\ UNCHANGED <<world, known, ready, next, proxies, reached>>
        /\ UNCHANGED registry \/ Forget
    BY <1>4, <1>a DEF FailDiscovery, ProgressInv
  <2>2. TopologyTypeOK'
    BY <1>a, <1>c, <2>1 DEF TopologyTypeOK, world, known, registry
  <2>3. ProgressInv' /\ RoutesInv'
    BY <1>a, <2>1 DEF ProgressInv, RoutesInv, world, known, Wanted
  <2> QED
    BY <1>b, <2>1, <2>2, <2>3, TopoKeep DEF TopoInv
<1> QED
  BY <1>1, <1>2, <1>3, <1>4

LEMMA TopoStep == TopoInv /\ [TopologyNext]_topologyVars => TopoInv'
<1> SUFFICES ASSUME TopoInv, [TopologyNext]_topologyVars PROVE TopoInv'
  OBVIOUS
<1>1. CASE UNCHANGED topologyVars
  <2>1. UNCHANGED <<running, registry, known, ready, wasCleaned, progress, outages, wasDown>>
    BY <1>1 DEF topologyVars
  <2>2. TopologyTypeOK'
    BY <2>1 DEF TopoInv, TopologyTypeOK, registry, known, progress
  <2>3. ProgressInv' /\ RoutesInv'
    BY <2>1, TopoKeep DEF TopoInv, TopologyTypeOK, ProgressInv, RoutesInv, About, Wanted,
       progress, known
  <2> QED
    BY <2>1, <2>2, <2>3, TopoKeep DEF TopoInv
<1> QED
  BY <1>1, TopoWorld, TopoKnown, TopoAdd, TopoConnect, TopoEnds DEF TopologyNext

\* What the discovery relies on holds throughout.
LEMMA TopoInductive == TopologySpec => []TopoInv
  BY TopoInit, TopoStep, PTL DEF TopologySpec

\* The state is well formed: what is registered are nodes, names and addresses.
THEOREM TopologyTyped == TopologySpec => []TopologyTypeOK
  BY TopoInductive, PTL DEF TopoInv

\* Whatever the plan and however often the discovery is interrupted and begun
\* again, nodes, groups and addresses name each other
\* (OpenStackTopology.add_node, _set_node_addresses).
THEOREM IndexesDoAgree == TopologySpec => []IndexesAgree
<1>1. TopoInv => IndexesAgree
  BY DEF TopoInv, RegistryInv, IndexesAgree, Names, NodeOf
<1> QED
  BY <1>1, TopoInductive, PTL

\* A host is given up only if none of its addresses can be reached directly, or it
\* has been down before (connect, _ssh_connect).
THEOREM GivenUpForAReason == TopologySpec => []UnreachableIsReal
<1>1. TopoInv => UnreachableIsReal
  <2> SUFFICES ASSUME TopoInv, stage = "unreachable", NEW a \in Wanted.addresses,
                      <<a, NoMachine>> \in Routes
               PROVE  OwnerOf[a] \in wasDown
    BY DEF UnreachableIsReal
  <2>1. connections[<<a, NoMachine>>] = "failed" /\ a \in Addresses
    BY TopoEntry DEF TopoInv, RoutesInv
  <2> QED
    BY <2>1 DEF TopoInv, RoutesInv
<1> QED
  BY <1>1, TopoInductive, PTL

\* Once the topology is set up, every node that it was asked for is registered in
\* its group, but for the optional ones (OpenStackTopology.discover_nodes).
THEOREM NothingIsMissing == TopologySpec => []NothingMissing
<1>1. TopoInv => NothingMissing
  BY TopoConstants DEF TopoInv, ProgressInv, InPlace, NothingMissing
<1> QED
  BY <1>1, TopoInductive, PTL
-----------------------------------------------------------------------------
(***************************************************************************)
(* The fixtures together (MCFixtures).                                     *)
(***************************************************************************)
FixturesInv == TypeOK /\ TypedInv /\ TopoInv /\ SSHInv

\* A resource that is at rest is well formed.
LEMMA AtRest == ResourceAtRest => TypeOK
<1> SUFFICES ASSUME ResourceAtRest PROVE TypeOK
  OBVIOUS
<1>1. "between" \in Control /\ "between" \notin Synched
  BY DEF Control, Synched
<1>2. 0 \in 0 .. 0 /\ MaxTests \in 0 .. MaxTests /\ {} \subseteq 1 .. 0
  BY ResourceAssumption
<1>3. kind \in Kinds /\ canFail \in Failing /\ lastId = 0 /\ live = {} /\ whole = {}
  BY RestAssumption DEF ResourceAtRest
<1>4. /\ pc \in [Workers -> Control] /\ \A w \in Workers : pc[w] \notin Synched
      /\ mine \in [Workers -> 0 .. 0] /\ made \in [Workers -> 0 .. 0]
      /\ tests \in [Workers -> 0 .. MaxTests]
  BY <1>1, <1>2 DEF ResourceAtRest
<1>5. /\ setupDone \in [Workers -> BOOLEAN] /\ cleanupDone \in [Workers -> BOOLEAN]
      /\ failing \in [Workers -> BOOLEAN]
      /\ users \subseteq Workers /\ holder \in Workers \cup {NoWorker}
  BY DEF ResourceAtRest
<1> QED
  BY <1>2, <1>3, <1>4, <1>5 DEF TypeOK

\* The state of the fixtures together is well formed, and what is proved of each of
\* them alone is true of it in a run that checks them together.
THEOREM FixturesTyped == FixturesSpec => []FixturesTypeOK
<1>1. FixturesInit => FixturesInv
  BY TypeInit, AtRest, InitTyped, TopoInit, SSHBegins DEF FixturesInit, FixturesInv
<1>2. FixturesInv /\ [FixturesNext]_fixturesVars => FixturesInv'
  <2>1. [FixturesNext]_fixturesVars =>
          /\ [Next]_vars /\ [TestRunsNext]_testRunVars
          /\ [TopologyNext]_topologyVars /\ [SSHNext]_sshVars
    BY DEF FixturesNext, OfResource, OfSSH, Rest, fixturesVars
  <2> QED
    BY <2>1, TypeStep, TypedStep, TopoStep, SSHStep DEF FixturesInv
<1>3. FixturesInv => FixturesTypeOK
  BY TypedMeansTypeOK DEF FixturesInv, FixturesTypeOK, TopoInv, SSHInv
<1> QED
  BY <1>1, <1>2, <1>3, PTL DEF FixturesSpec
=============================================================================
