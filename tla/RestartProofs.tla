--------------------------- MODULE RestartProofs ----------------------------
(***************************************************************************)
(* Proofs about what crashes and restarts interrupt: the shortcut between  *)
(* two nodes, the generations of the daemon, and the commands behind the   *)
(* policy rules.                                                           *)
(***************************************************************************)
EXTENDS ShortcutPair, GenerationSupervisor, PolicyRules, TLAPS

-------------------------------------------------------------------------------
(***************************************************************************)
(* ShortcutPair                                                            *)
(*                                                                         *)
(* BothHaveTicket for any number of leases, losses, crashes and failures.  *)
(***************************************************************************)

\* The inductive invariant: an end holds sessions only of tickets it has
\* received, a datagram was sent by an end that has the ticket, and an end is
\* routed only to a lease whose ticket the other end has.
PairInv ==
    /\ PairTypeOK
    /\ \A n \in End : sessions[n] \subseteq accepted[n]
    /\ \A m \in network : m.lease \in accepted[Other(m.to)]
    /\ BothHaveTicket

\* No number lies between one and the next.
LEMMA NextNumber ==
    \A a, g \in Nat : g # a + 1 => (g > a + 1 <=> g > a) /\ (g <= a + 1 <=> g <= a)
OBVIOUS

\* The other end's other end is the end itself.
LEMMA OtherEnd ==
    ASSUME NEW n \in End
    PROVE  Other(n) \in End /\ Other(Other(n)) = n
BY PairAssumption DEF End, Other

\* No lease has the number that stands for the base path.
LEMMA LeaseNumbers == Lease \subseteq Nat /\ NoRoute \notin Lease
BY PairAssumption DEF Lease, NoRoute

\* A message an end sends for a lease it has received keeps the network's
\* part of the invariant.
LEMMA MessageTyped ==
    ASSUME NEW n \in End, NEW l \in Lease
    PROVE  /\ Initiation(n, l) \in Datagram /\ Initiation(n, l).lease = l
           /\ Response(n, l) \in Datagram /\ Response(n, l).lease = l
           /\ Initiation(n, l).to = Other(n) /\ Response(n, l).to = Other(n)
BY OtherEnd DEF Initiation, Response, Datagram

\* Forgetting sessions keeps types, and takes away sessions and routes only
\* (state.rs: fail, expire).
LEMMA ForgetShrinks ==
    ASSUME PairTypeOK, NEW n \in End, NEW S \in SUBSET Lease, NEW W \in SUBSET Lease,
           Forget(n, S, W)
    PROVE  /\ sessions' \in [End -> SUBSET Lease]
           /\ waiting' \in [End -> SUBSET Lease]
           /\ route' \in [End -> Lease \cup {NoRoute}]
           /\ \A k \in End : sessions'[k] \subseteq sessions[k]
           /\ \A k \in End : route'[k] \in {route[k], NoRoute}
BY DEF PairTypeOK, Forget

\* What a handshake event does to an end: it holds no new session, and is
\* routed to the lease of the handshake, or as before, or not at all
\* (state.rs: authenticated_handshake).
LEMMA AuthenticatedEffect ==
    ASSUME PairTypeOK, NEW n \in End, NEW l \in Lease, NEW W \in SUBSET Lease,
           Authenticated(n, l, W)
    PROVE  /\ sessions' \in [End -> SUBSET Lease]
           /\ waiting' \in [End -> SUBSET Lease]
           /\ route' \in [End -> Lease \cup {NoRoute}]
           /\ \A k \in End : sessions'[k] \subseteq sessions[k]
           /\ \A k \in End : route'[k] \in {route[k], NoRoute} \/ (k = n /\ route'[k] = l)
<1>1. CASE now >= ExpiresAt[l]
  BY Zenon, <1>1, ForgetShrinks DEF Authenticated
<1>2. CASE ~(now >= ExpiresAt[l])
  BY <1>2 DEF Authenticated, PairTypeOK
<1> QED BY <1>1, <1>2

\* Init establishes the invariant.
LEMMA PairInitial == PairInit => PairInv
BY PairAssumption DEF PairInit, PairInv, PairTypeOK, BothHaveTicket

\* Every step preserves the invariant.
LEMMA PairStep == PairInv /\ [PairNext]_pairVars => PairInv'
<1> SUFFICES ASSUME PairInv, [PairNext]_pairVars PROVE PairInv'
  OBVIOUS
<1>t. PairTypeOK
  BY DEF PairInv
<1>1. ASSUME NEW n \in End, NEW l \in Lease, Accept(n, l) PROVE PairInv'
  <2>1. network' = network \cup {Initiation(n, l)} /\ route' = route /\ now' = now
    BY <1>1 DEF Accept
  <2>2. PairTypeOK'
    BY <1>1, <1>t, <2>1, MessageTyped DEF Accept, PairTypeOK
  <2>3. \A k \in End : accepted[k] \subseteq accepted'[k]
    BY <1>1, <1>t DEF Accept, PairTypeOK
  <2>4. l \in accepted'[n]
    BY <1>1, <1>t DEF Accept, PairTypeOK
  <2>5. \A k \in End : sessions'[k] \subseteq accepted'[k]
    BY <1>1, <1>t, <2>3, <2>4 DEF Accept, PairTypeOK, PairInv
  <2>6. \A m \in network' : m.lease \in accepted'[Other(m.to)]
    <3>1. ASSUME NEW m \in network PROVE m.lease \in accepted'[Other(m.to)]
      BY <2>3, <1>t, OtherEnd DEF PairInv, PairTypeOK, Datagram
    <3>2. Initiation(n, l).lease \in accepted'[Other(Initiation(n, l).to)]
      BY <2>4, OtherEnd, MessageTyped
    <3> QED BY <2>1, <3>1, <3>2
  <2>7. BothHaveTicket'
    BY <2>1, <2>3, OtherEnd DEF PairInv, BothHaveTicket
  <2> QED BY <2>2, <2>5, <2>6, <2>7 DEF PairInv
<1>2. ASSUME NEW n \in End, NEW l \in Lease, Retry(n, l) PROVE PairInv'
  <2>1. /\ network' = network \cup {Initiation(n, l)}
        /\ UNCHANGED <<now, sessions, route, waiting, accepted>>
        /\ l \in sessions[n]
    BY <1>2 DEF Retry
  <2>2. PairTypeOK'
    BY <1>t, <2>1, MessageTyped DEF PairTypeOK
  <2>3. Initiation(n, l).lease \in accepted[Other(Initiation(n, l).to)]
    BY <2>1, OtherEnd, MessageTyped DEF PairInv
  <2> QED BY <2>1, <2>2, <2>3 DEF PairInv, BothHaveTicket
<1>3. ASSUME NEW n \in End, NEW m \in network, OnInitiation(n, m) PROVE PairInv'
  <2>1. m \in Datagram /\ m.lease \in Lease /\ m.to = n
    BY <1>3, <1>t DEF PairTypeOK, Datagram, OnInitiation
  <2>2. m.lease \in sessions[n]
    BY <1>3 DEF OnInitiation, Unusable
  <2>3. /\ network' = (network \ {m}) \cup {Response(n, m.lease)}
        /\ UNCHANGED <<now, accepted>>
    BY <1>3 DEF OnInitiation
  <2>4. PICK W \in {waiting[n], waiting[n] \ {m.lease}} : Authenticated(n, m.lease, W)
    BY <1>3 DEF OnInitiation
  <2>5. W \in SUBSET Lease
    BY <2>4, <1>t DEF PairTypeOK
  <2>6. /\ sessions' \in [End -> SUBSET Lease]
        /\ waiting' \in [End -> SUBSET Lease]
        /\ route' \in [End -> Lease \cup {NoRoute}]
        /\ \A k \in End : sessions'[k] \subseteq sessions[k]
        /\ \A k \in End : route'[k] \in {route[k], NoRoute} \/ (k = n /\ route'[k] = m.lease)
    BY <1>t, <2>1, <2>4, <2>5, AuthenticatedEffect
  <2>7. PairTypeOK'
    BY <1>t, <2>1, <2>3, <2>6, MessageTyped DEF PairTypeOK
  <2>8. Response(n, m.lease).lease \in accepted[Other(Response(n, m.lease).to)]
    BY <2>1, <2>2, OtherEnd, MessageTyped DEF PairInv
  <2>9. BothHaveTicket'
    BY <2>1, <2>3, <2>6 DEF PairInv, BothHaveTicket
  <2> QED BY <2>3, <2>6, <2>7, <2>8, <2>9 DEF PairInv
<1>4. ASSUME NEW n \in End, NEW m \in network, OnResponse(n, m) PROVE PairInv'
  <2>1. m \in Datagram /\ m.lease \in Lease /\ m.to = n
    BY <1>4, <1>t DEF PairTypeOK, Datagram, OnResponse
  <2>2. network' = network \ {m} /\ UNCHANGED <<now, accepted>>
    BY <1>4 DEF OnResponse
  <2>3. /\ sessions' \in [End -> SUBSET Lease]
        /\ waiting' \in [End -> SUBSET Lease]
        /\ route' \in [End -> Lease \cup {NoRoute}]
        /\ \A k \in End : sessions'[k] \subseteq sessions[k]
        /\ \A k \in End : route'[k] \in {route[k], NoRoute} \/ (k = n /\ route'[k] = m.lease)
    <3>1. CASE m.lease \in waiting[n]
      <4>1. waiting[n] \ {m.lease} \in SUBSET Lease
        BY <1>t DEF PairTypeOK
      <4>2. Authenticated(n, m.lease, waiting[n] \ {m.lease})
        BY <1>4, <3>1 DEF OnResponse
      <4> QED BY <1>t, <2>1, <4>1, <4>2, AuthenticatedEffect
    <3>2. CASE m.lease \notin waiting[n]
      BY <1>4, <1>t, <3>2 DEF OnResponse, PairTypeOK
    <3> QED BY <3>1, <3>2
  <2>4. PairTypeOK'
    BY <1>t, <2>2, <2>3 DEF PairTypeOK
  <2>5. BothHaveTicket'
    BY <2>1, <2>2, <2>3 DEF PairInv, BothHaveTicket
  <2> QED BY <2>2, <2>3, <2>4, <2>5 DEF PairInv
<1>5. ASSUME NEW n \in End, NEW m \in network, Discard(n, m) PROVE PairInv'
  BY <1>5, <1>t DEF Discard, PairInv, PairTypeOK, BothHaveTicket
<1>6. ASSUME NEW n \in End, NEW S \in SUBSET Lease, NEW W \in SUBSET Lease,
             Forget(n, S, W), UNCHANGED <<now, network, accepted>>
      PROVE  PairInv'
  <2>1. /\ sessions' \in [End -> SUBSET Lease]
        /\ waiting' \in [End -> SUBSET Lease]
        /\ route' \in [End -> Lease \cup {NoRoute}]
        /\ \A k \in End : sessions'[k] \subseteq sessions[k]
        /\ \A k \in End : route'[k] \in {route[k], NoRoute}
    BY Zenon, <1>6, <1>t, ForgetShrinks
  <2>2. PairTypeOK'
    BY <1>6, <1>t, <2>1 DEF PairTypeOK
  <2>3. BothHaveTicket'
    BY <1>6, <2>1 DEF PairInv, BothHaveTicket
  <2> QED BY <1>6, <2>1, <2>2, <2>3 DEF PairInv
<1>7. ASSUME NEW n \in End, Expire(n) PROVE PairInv'
  <2>1. {l \in sessions[n] : now >= ExpiresAt[l]} \in SUBSET Lease /\ waiting[n] \in SUBSET Lease
    BY <1>t DEF PairTypeOK
  <2> QED BY <1>6, <1>7, <2>1 DEF Expire
<1>8. ASSUME NEW n \in End, NEW l \in Lease, DeviceFails(n, l) PROVE PairInv'
  <2>1. {l} \in SUBSET Lease /\ waiting[n] \in SUBSET Lease
    BY <1>t DEF PairTypeOK
  <2> QED BY <1>6, <1>8, <2>1 DEF DeviceFails
<1>9. ASSUME NEW n \in End, CrashEnd(n) PROVE PairInv'
  BY <1>6, <1>9 DEF CrashEnd
<1>10. ASSUME NEW m \in network, Lose(m) PROVE PairInv'
  BY <1>10, <1>t DEF Lose, PairInv, PairTypeOK, BothHaveTicket
<1>11. CASE Tick
  <2>1. now' \in 0 .. MaxNow
    BY <1>11, <1>t, PairAssumption DEF Tick, PairTypeOK
  <2> QED BY <1>11, <1>t, <2>1 DEF Tick, PairInv, PairTypeOK, BothHaveTicket
<1>12. CASE UNCHANGED pairVars
  BY <1>12, <1>t DEF pairVars, PairInv, PairTypeOK, BothHaveTicket
<1> QED BY <1>1, <1>2, <1>3, <1>4, <1>5, <1>7, <1>8, <1>9, <1>10, <1>11, <1>12 DEF PairNext, Deliver

\* The invariant holds in every reachable state.
THEOREM PairInvariant == PairSpec => []PairInv
BY PairInitial, PairStep, PTL DEF PairSpec

\* For any number of leases and any losses, crashes and failures: no endpoint
\* is diverted to a lease whose ticket the other end never received.
THEOREM DivertedTogether == PairSpec => []BothHaveTicket
<1>1. PairInv => BothHaveTicket
  BY DEF PairInv
<1> QED BY <1>1, PairInvariant, PTL

-------------------------------------------------------------------------------
(***************************************************************************)
(* GenerationSupervisor                                                    *)
(*                                                                         *)
(* The supervisor's key and its generation agree, and generations follow   *)
(* one another in order, for any number of generations, configurations,    *)
(* failures and changes of the interface (GenerationSupervisor).           *)
(***************************************************************************)

(* The supervisor's own steps *)

\* A generation is spawned when none is held or the one held has finished.
LEMMA SpawnKeepsInv ==
    ASSUME SupervisorInv, NEW k \in Snapshots, Spawn(k), new_key' \in Keys,
           generation # 0 => stage[generation] = "finished"
    PROVE  SupervisorInv'
<1> DEFINE n == started + 1
<1>1. /\ started \in Nat /\ MaxGeneration \in Nat /\ n \in Generations /\ n <= MaxGeneration
      /\ generation \in 0 .. started
  BY SupervisorAssumption DEF SupervisorInv, KeyMatchesGeneration, SupervisorTypeOK, Spawn, Generations
<1>2. k \in Keys /\ k # NoKey
  BY SupervisorAssumption DEF Keys
<1>3. /\ stage' = [stage EXCEPT ![n] = "setup"] /\ key' = [key EXCEPT ![n] = k]
      /\ started' = n /\ generation' = n /\ active_key' = k /\ supervisor' = "check"
      /\ UNCHANGED <<config, readable, roamed, allowed_ips, cancelled, failed, task>>
  BY DEF Spawn, wgVars
<1>4. stage \in [Generations -> Stage] /\ key \in [Generations -> Keys]
  BY DEF SupervisorInv, KeyMatchesGeneration, SupervisorTypeOK
<1> HIDE DEF n
<1>5. /\ stage' \in [Generations -> Stage] /\ key' \in [Generations -> Keys]
      /\ stage'[n] = "setup" /\ key'[n] = k
      /\ \A g \in Generations \ {n} : stage'[g] = stage[g]
  BY <1>1, <1>2, <1>3, <1>4 DEF Stage
<1>6. SupervisorTypeOK'
  BY <1>1, <1>2, <1>3, <1>5 DEF SupervisorInv, KeyMatchesGeneration, SupervisorTypeOK, n
<1>7. KeyMatchesGeneration'
  BY <1>1, <1>2, <1>3, <1>5, <1>6 DEF KeyMatchesGeneration, n
<1>8. \A g \in Generations : g <= started => stage[g] = "finished"
  BY <1>1 DEF SupervisorInv, Generations
<1>9. ASSUME NEW g \in Generations
      PROVE  /\ stage'[g] = "none" <=> g > started'
             /\ g <= started' /\ g # generation' => stage'[g] = "finished"
             /\ stage'[g] \in {"grace", "finished"} /\ g \notin failed' =>
                   \A t \in Task : task'[g][t] = "ended"
  <2>1. g \in Nat /\ n = started + 1
    BY DEF Generations, n
  <2>2. CASE g = n
    BY <1>1, <1>3, <1>5, <2>1, <2>2
  <2>3. CASE g # n
    <3>1. stage'[g] = stage[g] /\ task' = task /\ failed' = failed
      BY Zenon, <1>3, <1>5, <2>3
    <3>2. started \in Nat /\ started' = n
      BY Zenon, <1>1, <1>3
    <3>3. (g > started' <=> g > started) /\ (g <= started' <=> g <= started)
      BY ZenonT(30), <2>1, <2>3, <3>2, NextNumber
    <3> QED  BY Zenon, <1>8, <3>1, <3>3 DEF SupervisorInv
  <2> QED  BY <2>2, <2>3
<1> QED  BY <1>3, <1>7, <1>9 DEF SupervisorInv

\* The supervisor reads, compares, waits and checks; the interface changes.
LEMMA SupervisorKeepsInv ==
    ASSUME SupervisorInv,
           ReadAllowed \/ ReadFails \/ ReadPeers \/ Replace \/ Check \/ ChangeWireGuard
    PROVE  SupervisorInv'
<1> USE DEF SupervisorInv, KeyMatchesGeneration, SupervisorTypeOK
<1>1. CASE ReadAllowed \/ ReadFails
  BY <1>1 DEF ReadAllowed, ReadFails, wgVars, genVars
<1>2. CASE ChangeWireGuard
  BY Zenon, <1>2 DEF ChangeWireGuard, mainVars, genVars
<1>3. CASE Check
  <2>1. NoKey \in Keys /\ 0 \in 0 .. started
    BY SupervisorAssumption DEF Keys
  <2>2. /\ supervisor' = "read"
        /\ UNCHANGED <<config, readable, roamed, allowed_ips, new_key, started, stage, key, cancelled, failed, task>>
    BY Zenon, <1>3 DEF Check, wgVars, genVars
  <2>3. CASE generation # 0 /\ stage[generation] = "finished"
    <3>1. generation' = 0 /\ active_key' = NoKey
      BY Zenon, <1>3, <2>3 DEF Check
    <3>2. \A g \in Generations : g <= started /\ g # 0 => stage[g] = "finished"
      BY Zenon, <2>3
    <3>3. {new_key', active_key'} \subseteq Keys
      BY <2>1, <2>2, <3>1
    <3>4. SupervisorTypeOK'
      BY Zenon, <2>1, <2>2, <3>1, <3>3
    <3>5. KeyMatchesGeneration'
      BY Zenon, <3>1, <3>4
    <3> HIDE DEF KeyMatchesGeneration
    <3> QED  BY Zenon, <2>2, <3>1, <3>2, <3>5
  <2>4. CASE ~(generation # 0 /\ stage[generation] = "finished")
    <3>1. UNCHANGED <<generation, active_key>>
      BY Zenon, <1>3, <2>4 DEF Check
    <3> QED  BY Zenon, <2>2, <3>1
  <2> QED  BY Zenon, <2>3, <2>4
<1>4. CASE Replace
  BY ZenonT(30), <1>4, SpawnKeepsInv DEF Replace, Keys
<1>5. CASE ReadPeers
  <2> DEFINE k == KeyOf(allowed_ips, config)
  <2>1. k \in Snapshots
    BY DEF Snapshots
  <2>2. k \in Keys /\ k # NoKey
    BY Zenon, <2>1, SupervisorAssumption DEF Keys
  <2> HIDE DEF k
  <2>3. CASE k = active_key
    <3>1. supervisor' = "check" /\ UNCHANGED <<wgVars, allowed_ips, new_key, active_key, generation, started, genVars>>
      BY Zenon, <1>5, <2>3 DEF ReadPeers, k
    <3> QED  BY Zenon, <3>1 DEF wgVars, genVars
  <2>4. CASE k # active_key /\ generation = 0
    <3>1. Spawn(k) /\ UNCHANGED new_key
      BY Zenon, <1>5, <2>4 DEF ReadPeers, k
    <3> QED  BY Zenon, <2>1, <2>4, <3>1, SpawnKeepsInv
  <2>5. CASE k # active_key /\ generation # 0
    <3>1. /\ cancelled' = cancelled \cup {generation} /\ new_key' = k /\ supervisor' = "replace"
          /\ UNCHANGED <<wgVars, allowed_ips, active_key, generation, started, stage, key, failed, task>>
      BY <1>5, <2>5 DEF ReadPeers, k
    <3>2. generation \in Generations
      <4>1. generation \in 0 .. started /\ started \in 0 .. MaxGeneration
        BY Zenon
      <4> HIDE DEF SupervisorInv, KeyMatchesGeneration, SupervisorTypeOK
      <4> QED  BY <2>5, <4>1, SupervisorAssumption DEF Generations
    <3>3. {new_key', active_key'} \subseteq Keys
      BY <2>2, <3>1
    <3>4. SupervisorTypeOK'
      BY ZenonT(30), <3>1, <3>2, <3>3 DEF wgVars
    <3> QED  BY Zenon, <2>2, <2>5, <3>1, <3>4
  <2> QED  BY <2>3, <2>4, <2>5
<1> QED  BY <1>1, <1>2, <1>3, <1>4, <1>5

-------------------------------------------------------------------------------
(* The generations' steps *)

\* What the steps of a generation and of its tasks have in common: only that
\* generation moves on, and it comes past its loop with an error or with all
\* its tasks ended.
LEMMA GenerationKeepsInv ==
    ASSUME SupervisorInv, NEW g \in 1 .. started, stage[g] # "finished" \/ UNCHANGED stage,
           UNCHANGED <<mainVars, key, config, readable>>, roamed' \in BOOLEAN,
           NEW st \in Stage \ {"none"}, stage' = [stage EXCEPT ![g] = st],
           cancelled' \subseteq Generations, failed \subseteq failed', failed' \subseteq Generations,
           task' \in [Generations -> [Task -> {"none", "runs", "blocked", "ended"}]],
           \A h \in Generations \ {g} : task'[h] = task[h],
           st \in {"grace", "finished"} /\ g \notin failed' => \A t \in Task : task'[g][t] = "ended"
    PROVE  SupervisorInv'
<1> USE DEF SupervisorInv, KeyMatchesGeneration, SupervisorTypeOK
<1>1. g \in Generations /\ started \in Nat /\ g <= started
  BY SupervisorAssumption DEF Generations
<1>2. UNCHANGED <<supervisor, allowed_ips, new_key, active_key, generation, started, key, config, readable>>
  BY DEF mainVars
<1>3. stage[g] # "none"
  BY <1>1
<1>4. stage' \in [Generations -> Stage] /\ stage'[g] = st /\ \A h \in Generations \ {g} : stage'[h] = stage[h]
  BY <1>1
<1>5. g # generation => stage[g] = "finished" /\ stage'[g] = stage[g]
  BY <1>1
<1>6. KeyMatchesGeneration'
  BY <1>2, <1>4
<1>7. ASSUME NEW h \in Generations
      PROVE  /\ stage'[h] = "none" <=> h > started'
             /\ h <= started' /\ h # generation' => stage'[h] = "finished"
             /\ stage'[h] \in {"grace", "finished"} /\ h \notin failed' =>
                   \A t \in Task : task'[h][t] = "ended"
  <2>1. CASE h = g
    BY <1>1, <1>2, <1>3, <1>4, <1>5, <2>1 DEF Generations
  <2>2. CASE h # g
    BY <1>2, <1>4, <2>2
  <2> QED  BY Zenon, <2>1, <2>2
<1> QED  BY <1>2, <1>6, <1>7

\* run_generation goes on, fails or ends.
LEMMA RunKeepsInv ==
    ASSUME SupervisorInv, NEW g \in 1 .. started, NEW T \in SpawnedBefore,
           \/ SetupDone(g) \/ SetupFails(g, T) \/ Poll(g) \/ LoopFails(g) \/ LeaveLoop(g)
           \/ Drained(g) \/ DrainFails(g) \/ Finish(g)
    PROVE  SupervisorInv'
<1> DEFINE States == {"none", "runs", "blocked", "ended"}
<1>1. g \in Generations /\ stage[g] # "finished"
  BY SupervisorAssumption
  DEF Generations, SupervisorInv, KeyMatchesGeneration, SupervisorTypeOK,
      SetupDone, SetupFails, Poll, LoopFails, LeaveLoop, Drained, DrainFails, Finish
<1>2. /\ task \in [Generations -> [Task -> States]] /\ stage \in [Generations -> Stage]
      /\ cancelled \subseteq Generations /\ failed \subseteq Generations /\ roamed \in BOOLEAN
  BY DEF SupervisorInv, KeyMatchesGeneration, SupervisorTypeOK
<1>3. ASSUME NEW U, SetTasks(g, U, "runs")
      PROVE  /\ task' \in [Generations -> [Task -> States]]
             /\ \A h \in Generations \ {g} : task'[h] = task[h]
  <2> DEFINE row == [t \in Task |-> IF t \in U THEN "runs" ELSE task[g][t]]
  <2>1. row \in [Task -> States]
    BY <1>1, <1>2
  <2>2. task' = [task EXCEPT ![g] = row]
    BY <1>3 DEF SetTasks
  <2> HIDE DEF row, States
  <2> QED  BY <1>1, <1>2, <2>1, <2>2
<1>4. CASE SetupDone(g)
  <2>1. /\ stage' = [stage EXCEPT ![g] = "running"] /\ SetTasks(g, Task, "runs") /\ roamed' = FALSE
        /\ UNCHANGED <<config, readable, mainVars, key, cancelled, failed>>
    BY <1>4 DEF SetupDone
  <2> QED  BY Zenon, <1>1, <1>2, <1>3, <2>1, GenerationKeepsInv DEF Stage
<1>5. CASE SetupFails(g, T)
  <2>1. /\ stage' = [stage EXCEPT ![g] = "grace"] /\ SetTasks(g, T, "runs")
        /\ cancelled' = cancelled \cup {g} /\ failed' = failed \cup {g}
        /\ UNCHANGED <<config, readable, roamed, mainVars, key>>
    BY <1>5 DEF SetupFails, Return, wgVars
  <2> QED  BY Zenon, <1>1, <1>2, <1>3, <2>1, GenerationKeepsInv DEF Stage
<1>6. CASE Poll(g)
  <2>1. /\ roamed' = FALSE /\ stage' = [stage EXCEPT ![g] = "running"]
        /\ UNCHANGED <<config, readable, mainVars, key, cancelled, failed, task>>
    BY <1>1, <1>2, <1>6 DEF Poll, genVars
  <2> QED  BY Zenon, <1>1, <1>2, <2>1, GenerationKeepsInv DEF Stage
<1>7. CASE LoopFails(g) \/ DrainFails(g)
  <2>1. /\ stage' = [stage EXCEPT ![g] = "grace"]
        /\ cancelled' = cancelled \cup {g} /\ failed' = failed \cup {g}
        /\ UNCHANGED <<config, readable, roamed, mainVars, key, task>>
    BY <1>7 DEF LoopFails, DrainFails, Return, wgVars
  <2> QED  BY Zenon, <1>1, <1>2, <2>1, GenerationKeepsInv DEF Stage
<1>8. CASE LeaveLoop(g)
  <2>1. /\ stage' = [stage EXCEPT ![g] = "draining"] /\ cancelled' = cancelled \cup {g}
        /\ UNCHANGED <<config, readable, roamed, mainVars, key, failed, task>>
    BY <1>8 DEF LeaveLoop, wgVars
  <2> QED  BY Zenon, <1>1, <1>2, <2>1, GenerationKeepsInv DEF Stage
<1>9. CASE Drained(g)
  <2>1. /\ stage' = [stage EXCEPT ![g] = "grace"] /\ \A t \in Task : task[g][t] = "ended"
        /\ UNCHANGED <<config, readable, roamed, mainVars, key, cancelled, failed, task>>
    BY <1>9 DEF Drained, wgVars
  <2> QED  BY Zenon, <1>1, <1>2, <2>1, GenerationKeepsInv DEF Stage
<1>10. CASE Finish(g)
  <2>1. /\ stage' = [stage EXCEPT ![g] = "finished"] /\ stage[g] = "grace"
        /\ UNCHANGED <<config, readable, roamed, mainVars, key, cancelled, failed, task>>
    BY Zenon, <1>10 DEF Finish, wgVars
  <2>2. g \notin failed => \A t \in Task : task[g][t] = "ended"
    BY <1>1, <2>1 DEF SupervisorInv
  <2> QED  BY Zenon, <1>1, <1>2, <2>1, <2>2, GenerationKeepsInv DEF Stage
<1> QED  BY ZenonT(30), <1>4, <1>5, <1>6, <1>7, <1>8, <1>9, <1>10

\* A task ends, blocks, goes on or fails: one that has ended stays so.
LEMMA TaskKeepsInv ==
    ASSUME SupervisorInv, NEW g \in 1 .. started, NEW t \in Task,
           TaskEnds(g, t) \/ TaskBlocks(g, t) \/ TaskUnblocks(g, t) \/ TaskFails(g, t)
    PROVE  SupervisorInv'
<1> DEFINE States == {"none", "runs", "blocked", "ended"}
<1>1. g \in Generations /\ g <= started /\ started \in Nat
  BY SupervisorAssumption
  DEF Generations, SupervisorInv, KeyMatchesGeneration, SupervisorTypeOK
<1>2. /\ task \in [Generations -> [Task -> States]] /\ stage \in [Generations -> Stage]
      /\ cancelled \subseteq Generations /\ failed \subseteq Generations /\ roamed \in BOOLEAN
  BY DEF SupervisorInv, KeyMatchesGeneration, SupervisorTypeOK
<1>3. PICK state \in States : /\ task[g][t] # "ended" /\ task' = [task EXCEPT ![g][t] = state]
                              /\ UNCHANGED <<wgVars, mainVars, stage, key, cancelled, failed>>
  BY DEF TaskEnds, TaskBlocks, TaskUnblocks, TaskFails, SetTask
<1>4. stage[g] # "none" /\ stage' = [stage EXCEPT ![g] = stage[g]] /\ stage[g] \in Stage
  BY <1>1, <1>2, <1>3 DEF SupervisorInv
<1>5. task' \in [Generations -> [Task -> States]] /\ \A h \in Generations \ {g} : task'[h] = task[h]
  <2> HIDE DEF States
  <2> QED  BY <1>1, <1>2, <1>3
<1>6. stage[g] \in {"grace", "finished"} => g \in failed
  BY <1>1, <1>3 DEF SupervisorInv
<1> QED  BY Zenon, <1>1, <1>2, <1>3, <1>4, <1>5, <1>6, GenerationKeepsInv DEF wgVars

-------------------------------------------------------------------------------
\* SupervisorInv holds initially.
LEMMA SupervisorInvInit == SupervisorInit => SupervisorInv
<1> SUFFICES ASSUME SupervisorInit
             PROVE  SupervisorInv
  OBVIOUS
<1>1. /\ stage \in [Generations -> Stage] /\ key \in [Generations -> Keys]
      /\ task \in [Generations -> [Task -> {"none", "runs", "blocked", "ended"}]]
  BY DEF SupervisorInit, Stage, Keys
<1>2. 0 \in 0 .. 0 /\ 0 \in 0 .. MaxGeneration /\ \A g \in Generations : g > 0
  BY SupervisorAssumption DEF Generations
<1>3. SupervisorTypeOK
  BY Zenon, <1>1, <1>2 DEF SupervisorInit, SupervisorTypeOK, Keys
<1>4. KeyMatchesGeneration
  BY <1>3 DEF SupervisorInit, KeyMatchesGeneration
<1>5. \A g \in Generations : stage[g] = "none" /\ g > started /\ ~(g <= started)
  BY <1>2 DEF SupervisorInit, Generations
<1> QED  BY <1>4, <1>5 DEF SupervisorInit, SupervisorInv

\* Every step keeps SupervisorInv.
LEMMA SupervisorInvStep == SupervisorInv /\ [SupervisorNext]_superVars => SupervisorInv'
<1> SUFFICES ASSUME SupervisorInv, [SupervisorNext]_superVars
             PROVE  SupervisorInv'
  OBVIOUS
<1>1. CASE ReadAllowed \/ ReadFails \/ ReadPeers \/ Replace \/ Check \/ ChangeWireGuard
  BY <1>1, SupervisorKeepsInv
<1>2. ASSUME NEW g \in 1 .. started, NEW T \in SpawnedBefore,
             \/ SetupDone(g) \/ SetupFails(g, T) \/ Poll(g) \/ LoopFails(g) \/ LeaveLoop(g)
             \/ Drained(g) \/ DrainFails(g) \/ Finish(g)
      PROVE  SupervisorInv'
  BY <1>2, RunKeepsInv
<1>3. ASSUME NEW g \in 1 .. started, NEW t \in Task,
             TaskEnds(g, t) \/ TaskBlocks(g, t) \/ TaskUnblocks(g, t) \/ TaskFails(g, t)
      PROVE  SupervisorInv'
  BY Zenon, <1>3, TaskKeepsInv
<1>4. CASE UNCHANGED superVars
  BY <1>4 DEF superVars, wgVars, mainVars, genVars, SupervisorInv, KeyMatchesGeneration, SupervisorTypeOK
<1>5. SpawnedBefore # {}
  BY Zenon DEF SpawnedBefore
<1> QED  BY <1>1, <1>2, <1>3, <1>4, <1>5 DEF SupervisorNext

LEMMA SupervisorInvAlways == SupervisorSpec => []SupervisorInv
<1> QED  BY SupervisorInvInit, SupervisorInvStep, PTL DEF SupervisorSpec

\* A key is active exactly while a generation with that key is held, whatever
\* fails and however the interface changes (main.rs:92-106, 112-123).
THEOREM KeyMatchesTheGeneration == SupervisorSpec => []KeyMatchesGeneration
<1>1. SupervisorInv => KeyMatchesGeneration
  BY Zenon DEF SupervisorInv
<1> QED  BY <1>1, SupervisorInvAlways, PTL

\* When a generation is set up, every task of an earlier one that returned no
\* error has ended (main.rs:95, 448-475).
THEOREM HandoverIsOrderly == SupervisorSpec => []OrderlyHandover
<1>1. SupervisorInv => OrderlyHandover
  <2> SUFFICES ASSUME SupervisorInv, NEW g \in Generations, NEW h \in Generations,
                      g < h, stage[h] # "none", g \notin failed
               PROVE  \A t \in Task : task[g][t] = "ended"
    BY DEF OrderlyHandover
  <2>1. /\ g \in Nat /\ h \in Nat /\ started \in Nat
        /\ generation # 0 => generation = started
    BY DEF Generations, SupervisorInv, KeyMatchesGeneration, SupervisorTypeOK
  <2>2. h <= started
    BY <2>1 DEF SupervisorInv
  <2>3. g <= started /\ g # generation
    BY <2>1, <2>2 DEF Generations
  <2> QED  BY <2>3 DEF SupervisorInv
<1> QED  BY <1>1, SupervisorInvAlways, PTL

-------------------------------------------------------------------------------
(***************************************************************************)
(* PolicyRules                                                             *)
(*                                                                         *)
(* CleanStart, BypassHeld and ForeignKept for any selectors, priorities    *)
(* and rules of other programs, and any number of crashes and failures.    *)
(*                                                                         *)
(* `ip rule del` is given a priority and a table, and the priorities of    *)
(* selectors collide, so the rule a command deletes need not be the one it *)
(* was issued for.  What holds while they are deleted is a matching:       *)
(* at every priority the managed rules and the commands to come pair off.  *)
(***************************************************************************)

ManagedOf(R, f) == {x \in R : x.family = f /\ parse_managed_rule(x)}
At(p, S) == {x \in S : x.priority = p}

Fresh == step.at \notin {"down", "up"} => installed = {}

\* Two sets pair off.
Matched(S, T) ==
    \E h \in [S -> T] : /\ \A a, b \in S : h[a] = h[b] => a = b
                       /\ \A t \in T : \E a \in S : h[a] = t

\* While the listed rules of a family are deleted.
Counted ==
    step.at = "delete" =>
        /\ \A x \in todo : x.family = step.family /\ parse_managed_rule(x)
        /\ \A p \in Nat : Matched(At(p, todo), At(p, ManagedOf(rules, step.family)))

\* What the loops of the start have done so far.
Cleaned ==
    /\ step.at \in {"list", "delete"} /\ step.family = "-6" => ManagedOf(rules, "-4") = {}
    /\ step.at \in {"bypass", "open"} => \A f \in Family : ManagedOf(rules, f) = {}

Bypassed ==
    /\ step.at = "bypass" /\ step.family = "-6" => Bypass("-4") \in rules
    /\ step.at \in {"open", "up"} => \A f \in Family : Bypass(f) \in rules

PolicyInv ==
    /\ PolicyTypeOK
    /\ ForeignKept
    /\ Fresh
    /\ Counted
    /\ Cleaned
    /\ Bypassed
    /\ CleanStart

-------------------------------------------------------------------------------
\* A selector's rule is managed, and no other selector's.
LEMMA OwnRules ==
    /\ \A s \in Destination : /\ RuleOf(s) \in RuleType
                           /\ parse_managed_rule(RuleOf(s))
                           /\ RuleOf(s).match = s
                           /\ RuleOf(s).table = OurTable
BY Zenon, PolicyAssumption DEF RuleOf, RuleType, parse_managed_rule

\* The bypass rules are not managed, and not another program's.
LEMMA BypassRules ==
    \A f \in Family : /\ Bypass(f) \in RuleType
                      /\ Bypass(f).table = "main"
                      /\ Bypass(f).family = f
                      /\ ~parse_managed_rule(Bypass(f))
                      /\ Bypass(f) \notin Foreign
BY PolicyAssumption DEF Bypass, RuleType, parse_managed_rule, Family

\* No rule of another program is managed.
LEMMA ForeignRules == \A x \in Foreign : ~parse_managed_rule(x)
BY PolicyAssumption DEF parse_managed_rule

\* A set is matched with itself.
LEMMA SelfMatched == ASSUME NEW S PROVE Matched(S, S)
<1> DEFINE g == [z \in S |-> z]
<1>1. g \in [S -> S] /\ (\A a \in S : g[a] = a)
  OBVIOUS
<1> HIDE DEF g
<1> QED BY Zenon, <1>1 DEF Matched

\* What is matched with no element is empty.
LEMMA MatchedWithNone == ASSUME NEW T, Matched({}, T) PROVE T = {}
BY Zenon DEF Matched

\* Matched sets stay matched when each of them loses an element, whichever two
\* those are: the partner of y takes the partner of x.
LEMMA MatchedWithout ==
    ASSUME NEW S, NEW T, Matched(S, T), NEW x \in S, NEW y \in T
    PROVE  Matched(S \ {x}, T \ {y})
<1>1. PICK h \in [S -> T] : /\ \A a, b \in S : h[a] = h[b] => a = b
                            /\ \A t \in T : \E a \in S : h[a] = t
  BY Zenon DEF Matched
<1> DEFINE g == [z \in S \ {x} |-> IF h[z] = y THEN h[x] ELSE h[z]]
<1>2. \A a \in S \ {x} : g[a] = IF h[a] = y THEN h[x] ELSE h[a]
  OBVIOUS
<1>3. g \in [S \ {x} -> T \ {y}]
  BY <1>1
<1> HIDE DEF g
<1>4. \A a, b \in S \ {x} : g[a] = g[b] => a = b
  BY <1>1, <1>2
<1>5. \A t \in T \ {y} : \E a \in S \ {x} : g[a] = t
  <2> SUFFICES ASSUME NEW t \in T \ {y} PROVE \E a \in S \ {x} : g[a] = t
    OBVIOUS
  <2>1. PICK a \in S : h[a] = t
    BY <1>1
  <2>2. PICK b \in S : h[b] = y
    BY <1>1
  <2>3. CASE a # x
    BY <1>2, <2>1, <2>3
  <2>4. CASE a = x
    BY <1>2, <2>1, <2>2, <2>4
  <2> QED BY <2>3, <2>4
<1> QED BY Zenon, <1>3, <1>4, <1>5 DEF Matched

\* Init establishes the invariant.
LEMMA PolicyInitial == PolicyInit => PolicyInv
<1> SUFFICES ASSUME PolicyInit PROVE PolicyInv
  OBVIOUS
<1>1. step.at = "down" /\ step.family = "-4" /\ step \in Steps
  BY Zenon DEF PolicyInit, Down, Steps, Family
<1> QED BY Zenon, <1>1, PolicyAssumption
        DEF PolicyInit, PolicyInv, PolicyTypeOK, ForeignKept, Fresh, Counted, Cleaned, Bypassed, CleanStart

\* A step that leaves the rules, or that takes the process down, has nothing
\* to disturb (main.rs: run_generation returns).
LEMMA DownSafe ==
    ASSUME PolicyInv, PolicyTypeOK', step' = Down, rules' = rules, todo' = {}
    PROVE  PolicyInv'
<1>1. step'.at = "down" /\ step'.family = "-4"
  BY Zenon DEF Down
<1> QED BY <1>1 DEF PolicyInv, ForeignKept, Fresh, Counted, Cleaned, Bypassed, CleanStart

\* The start begins with an empty route manager.
LEMMA BeginStep == PolicyInv /\ Begin => PolicyInv'
<1> SUFFICES ASSUME PolicyInv, Begin PROVE PolicyInv'
  OBVIOUS
<1>1. step'.at = "unbypass" /\ step'.family = "-4" /\ step' \in Steps
  BY Zenon DEF Begin, Steps, Family
<1> QED BY <1>1 DEF Begin, PolicyInv, PolicyTypeOK, ForeignKept, Fresh, Counted, Cleaned, Bypassed, CleanStart

\* remove_control_bypass.
LEMMA RemoveBypassStep == PolicyInv /\ RemoveBypass => PolicyInv'
<1> SUFFICES ASSUME PolicyInv, RemoveBypass PROVE PolicyInv'
  OBVIOUS
<1>1. step'.at \in {"unbypass", "list"} /\ step' \in Steps
      /\ (step'.at = "list" => step'.family = "-4")
  BY DEF RemoveBypass, After, Steps, Family
<1>3. step.family \in Family /\ todo = {}
  BY Zenon DEF PolicyInv, PolicyTypeOK, Steps, RemoveBypass
<1>4. ForeignKept'
  BY Zenon, <1>3, BypassRules DEF RemoveBypass, PolicyInv, ForeignKept
<1>5. PolicyTypeOK'
  BY <1>1, <1>3 DEF RemoveBypass, PolicyInv, PolicyTypeOK
<1> QED BY <1>1, <1>4, <1>5 DEF RemoveBypass, PolicyInv, Fresh, Counted, Cleaned, Bypassed, CleanStart

\* cleanup_stale lists exactly the managed rules of the family.
LEMMA ListStep == PolicyInv /\ List => PolicyInv'
<1> SUFFICES ASSUME PolicyInv, List PROVE PolicyInv'
  OBVIOUS
<1>1. step'.at = "delete" /\ step'.family = step.family /\ step' \in Steps
  BY ZenonT(30) DEF List, PolicyInv, PolicyTypeOK, Steps
<1>2. rules' = rules /\ todo' = ManagedOf(rules, step.family)
  BY DEF List, ManagedOf
<1>3. todo' \subseteq rules
  BY <1>2 DEF ManagedOf
<1>4. PolicyTypeOK'
  BY Zenon, <1>1, <1>2, <1>3 DEF List, PolicyInv, PolicyTypeOK
<1>5. Counted'
  <2>1. \A x \in todo' : x.family = step'.family /\ parse_managed_rule(x)
    BY Zenon, <1>1, <1>2 DEF ManagedOf
  <2>2. ManagedOf(rules', step'.family) = todo'
    BY Zenon, <1>1, <1>2
  <2> QED BY Zenon, <1>1, <2>1, <2>2, SelfMatched DEF Counted
<1>6. Cleaned' /\ Fresh' /\ ForeignKept' /\ Bypassed' /\ CleanStart'
  BY <1>1, <1>2 DEF List, PolicyInv, Cleaned, Fresh, ForeignKept, Bypassed, CleanStart
<1> QED BY <1>4, <1>5, <1>6 DEF PolicyInv

\* A deletion keeps the count: one managed rule and one command less at the
\* same priority, whichever rule the kernel picks.
LEMMA DeleteListedStep ==
    ASSUME PolicyInv, NEW x \in todo, NEW y \in rules, DeleteListed(x, y)
    PROVE  PolicyInv'
<1>1. /\ step' = step /\ step.at = "delete" /\ step.family \in Family
      /\ rules' = rules \ {y} /\ todo' = todo \ {x}
  BY ZenonT(30) DEF DeleteListed, PolicyInv, PolicyTypeOK, Steps
<1>2. y.family = step.family /\ parse_managed_rule(y) /\ y.priority = x.priority
  BY <1>1 DEF DeleteListed, PolicyInv, Counted, parse_managed_rule
<1>4. PolicyTypeOK'
  BY Zenon, <1>1 DEF DeleteListed, PolicyInv, PolicyTypeOK
<1>5. ForeignKept'
  BY ZenonT(30), <1>1, <1>2, ForeignRules DEF PolicyInv, ForeignKept
<1> DEFINE M == ManagedOf(rules, step.family)
<1>6. ManagedOf(rules', step.family) = M \ {y} /\ y \in M
  BY <1>1, <1>2 DEF ManagedOf
<1>7. \A p \in Nat : Matched(At(p, todo \ {x}), At(p, M \ {y}))
  <2> SUFFICES ASSUME NEW p \in Nat
               PROVE  Matched(At(p, todo \ {x}), At(p, M \ {y}))
    OBVIOUS
  <2>1. Matched(At(p, todo), At(p, M))
    BY Zenon, <1>1 DEF PolicyInv, Counted
  <2>2. CASE x.priority = p
    <3>1. At(p, M \ {y}) = At(p, M) \ {y} /\ y \in At(p, M)
      BY <1>2, <1>6, <2>2 DEF At
    <3>2. At(p, todo \ {x}) = At(p, todo) \ {x} /\ x \in At(p, todo)
      BY <2>2 DEF At
    <3>3. Matched(At(p, todo) \ {x}, At(p, M) \ {y})
      BY Zenon, <2>1, <3>1, <3>2, MatchedWithout
    <3> QED BY ZenonT(30), <3>1, <3>2, <3>3
  <2>3. CASE x.priority # p
    <3>1. At(p, M \ {y}) = At(p, M)
      BY <1>2, <2>3 DEF At
    <3>2. At(p, todo \ {x}) = At(p, todo)
      BY <2>3 DEF At
    <3> QED BY Zenon, <2>1, <3>1, <3>2
  <2> QED BY Zenon, <2>2, <2>3
<1>8. Counted'
  BY Zenon, <1>1, <1>6, <1>7 DEF PolicyInv, Counted
<1>9. Cleaned'
  BY <1>1 DEF PolicyInv, Cleaned, ManagedOf
<1>10. Fresh' /\ Bypassed' /\ CleanStart'
  BY <1>1 DEF DeleteListed, PolicyInv, Fresh, Bypassed, CleanStart
<1> QED BY <1>4, <1>5, <1>8, <1>9, <1>10 DEF PolicyInv

\* When no command is left, no managed rule of the family is.
LEMMA FlushStep == PolicyInv /\ Flush => PolicyInv'
<1> SUFFICES ASSUME PolicyInv, Flush PROVE PolicyInv'
  OBVIOUS
<1>1. /\ step.at = "delete" /\ step.family \in Family /\ todo = {}
      /\ rules' = rules /\ todo' = todo /\ installed' = installed
  BY DEF Flush, PolicyInv, PolicyTypeOK, Steps
<1>2. ManagedOf(rules, step.family) = {}
  <2> DEFINE M == ManagedOf(rules, step.family)
  <2>1. SUFFICES ASSUME NEW x \in M PROVE FALSE
    OBVIOUS
  <2>2. x \in rules /\ x.priority \in Nat
    BY DEF ManagedOf, PolicyInv, PolicyTypeOK, RuleType
  <2> DEFINE p == x.priority
  <2>3. At(p, todo) = {}
    BY <1>1 DEF At
  <2>4. Matched({}, At(p, M))
    BY Zenon, <1>1, <2>2, <2>3 DEF PolicyInv, Counted
  <2>5. x \in At(p, M)
    BY DEF At
  <2> QED BY Zenon, <2>4, <2>5, MatchedWithNone
<1>3. /\ step' \in Steps
      /\ step.family = "-4" => step'.at = "list" /\ step'.family = "-6"
      /\ step.family # "-4" => step'.at = "bypass" /\ step'.family = "-4"
  BY <1>1 DEF Flush, After, Steps, Family
<1>4. PolicyTypeOK'
  BY <1>1, <1>3 DEF Flush, PolicyInv, PolicyTypeOK
<1>5. Cleaned'
  BY Zenon, <1>1, <1>2, <1>3 DEF PolicyInv, Cleaned, Family
<1>6. Counted' /\ Fresh' /\ ForeignKept' /\ Bypassed' /\ CleanStart'
  BY <1>1, <1>3 DEF PolicyInv, Counted, Fresh, ForeignKept, Bypassed, CleanStart, Family
<1> QED BY <1>4, <1>5, <1>6 DEF PolicyInv

\* A rule that is not managed leaves the managed ones as they are.
LEMMA UnmanagedAdded ==
    ASSUME NEW R, NEW b, ~parse_managed_rule(b), NEW f
    PROVE  ManagedOf(R \cup {b}, f) = ManagedOf(R, f)
BY DEF ManagedOf

\* ensure_control_bypass.
LEMMA AddBypassStep == PolicyInv /\ AddBypass => PolicyInv'
<1> SUFFICES ASSUME PolicyInv, AddBypass PROVE PolicyInv'
  OBVIOUS
<1>1. /\ step.at = "bypass" /\ step.family \in Family /\ todo = {} /\ installed = {}
      /\ rules' = rules \cup {Bypass(step.family)} /\ todo' = todo /\ installed' = installed
  BY DEF AddBypass, PolicyInv, PolicyTypeOK, Steps, Fresh
<1>2. /\ step' \in Steps
      /\ step.family = "-4" => step'.at = "bypass" /\ step'.family = "-6"
      /\ step.family # "-4" => step'.at = "open" /\ step'.family = "-4"
  BY <1>1 DEF AddBypass, After, Steps, Family
<1>4. PolicyTypeOK'
  BY <1>1, <1>2, BypassRules DEF AddBypass, PolicyInv, PolicyTypeOK
<1>5. \A f \in Family : ManagedOf(rules', f) = ManagedOf(rules, f)
  <2>1. ~parse_managed_rule(Bypass(step.family))
    BY Zenon, <1>1, BypassRules
  <2> QED BY Zenon, <1>1, <2>1, UnmanagedAdded
<1>6. Cleaned'
  BY <1>1, <1>2, <1>5 DEF PolicyInv, Cleaned
<1>7. Bypassed'
  BY Zenon, <1>1, <1>2 DEF PolicyInv, Bypassed, Family
<1>8. Counted' /\ Fresh' /\ ForeignKept' /\ CleanStart'
  BY <1>1, <1>2 DEF PolicyInv, Counted, Fresh, ForeignKept, CleanStart, Family
<1> QED BY <1>4, <1>6, <1>7, <1>8 DEF PolicyInv

\* A generation comes up without managed rules.
LEMMA OpenStep == PolicyInv /\ Open => PolicyInv'
<1> SUFFICES ASSUME PolicyInv, Open PROVE PolicyInv'
  OBVIOUS
<1>1. /\ step.at = "open" /\ todo = {} /\ installed = {}
      /\ rules' = rules /\ todo' = todo /\ installed' = installed
  BY DEF Open, PolicyInv, PolicyTypeOK, Fresh
<1>2. step' \in Steps /\ step'.at = "up" /\ step'.family = "-4"
  BY DEF Open, Up, Steps, Family
<1>3. PolicyTypeOK'
  BY <1>1, <1>2 DEF Open, PolicyInv, PolicyTypeOK
<1>4. {x \in rules : parse_managed_rule(x)} = {}
  BY <1>1 DEF PolicyInv, PolicyTypeOK, RuleType, Cleaned, ManagedOf
<1>5. CleanStart'
  BY Zenon, <1>1, <1>4 DEF CleanStart
<1>6. Counted' /\ Fresh' /\ ForeignKept' /\ Cleaned' /\ Bypassed'
  BY <1>1, <1>2 DEF PolicyInv, Counted, Fresh, ForeignKept, Cleaned, Bypassed
<1> QED BY <1>3, <1>5, <1>6 DEF PolicyInv

\* install and remove change the selector's own rule, and what the generation
\* believes to be installed with it.
LEMMA RunningStep ==
    ASSUME PolicyInv, PolicyTypeOK', step.at = "up", step' = step, todo' = todo,
           NEW s \in Destination,
           \/ rules' = rules \cup {RuleOf(s)} /\ installed' = installed \cup {s}
           \/ rules' = rules \ {RuleOf(s)} /\ installed' = installed \ {s}
           \/ rules' = rules /\ installed' = installed
    PROVE  PolicyInv'
<1>1. installed \subseteq Destination
  BY DEF PolicyInv, PolicyTypeOK
<1>2. parse_managed_rule(RuleOf(s)) /\ \A t \in installed : RuleOf(t) = RuleOf(s) => t = s
  BY <1>1, OwnRules
<1>3. {x \in rules : parse_managed_rule(x)} = {RuleOf(t) : t \in installed}
  BY DEF PolicyInv, CleanStart
<1>4. {x \in rules' : parse_managed_rule(x)} = {RuleOf(t) : t \in installed'}
  <2>1. CASE rules' = rules \cup {RuleOf(s)} /\ installed' = installed \cup {s}
    BY <1>2, <1>3, <2>1
  <2>2. CASE rules' = rules \ {RuleOf(s)} /\ installed' = installed \ {s}
    BY <1>2, <1>3, <2>2
  <2>3. CASE rules' = rules /\ installed' = installed
    BY <1>3, <2>3
  <2> QED BY <2>1, <2>2, <2>3
<1>5. CleanStart'
  BY <1>4 DEF CleanStart
<1>6. ForeignKept'
  BY <1>2, ForeignRules DEF PolicyInv, ForeignKept
<1>7. Bypassed'
  BY <1>2, BypassRules DEF PolicyInv, Bypassed
<1>8. Counted' /\ Fresh' /\ Cleaned'
  BY DEF Counted, Fresh, Cleaned
<1> QED BY <1>5, <1>6, <1>7, <1>8 DEF PolicyInv

\* Every step preserves the invariant.
LEMMA PolicyStep == PolicyInv /\ [PolicyNext]_policyVars => PolicyInv'
<1> SUFFICES ASSUME PolicyInv, [PolicyNext]_policyVars PROVE PolicyInv'
  OBVIOUS
<1>1. ASSUME NEW s \in Destination, Prepare(s) PROVE PolicyInv'
  <2>1. step.at = "up" /\ step' = step /\ todo' = todo /\ rules' = rules /\ installed' = installed
    BY <1>1 DEF Prepare, Idle
  <2>2. PolicyTypeOK'
    BY <1>1, <2>1, PolicyAssumption DEF Prepare, PolicyInv, PolicyTypeOK
  <2> QED BY <2>1, <2>2, RunningStep
<1>2. ASSUME NEW s \in Destination, Remove(s) PROVE PolicyInv'
  <2>1. /\ step.at = "up" /\ step' = step /\ todo' = todo
        /\ rules' = rules \ {RuleOf(s)} /\ installed' = installed \ {s}
    BY <1>2 DEF Remove, Idle
  <2>3. PolicyTypeOK'
    BY <1>2, <2>1 DEF Remove, PolicyInv, PolicyTypeOK
  <2> QED BY <2>1, <2>3, RunningStep
<1>3. CASE AddRule
  <2>1. PICK s \in Destination : s = installing
    BY <1>3 DEF AddRule, PolicyInv, PolicyTypeOK
  <2>2. /\ step.at = "up" /\ step' = step /\ todo' = todo
        /\ rules' = rules \cup {RuleOf(s)} /\ installed' = installed \cup {s}
    BY Zenon, <1>3, <2>1 DEF AddRule
  <2>4. PolicyTypeOK'
    BY ZenonT(30), <1>3, <2>1, <2>2, OwnRules DEF AddRule, PolicyInv, PolicyTypeOK
  <2> QED BY <2>2, <2>4, RunningStep
<1>4. ASSUME step' = step, rules' = rules, todo' = todo, installed' = installed, PolicyTypeOK'
      PROVE  PolicyInv'
  BY <1>4 DEF PolicyInv, ForeignKept, Fresh, Counted, Cleaned, Bypassed, CleanStart
<1>5. CASE CommandFails
  <2>1. PolicyTypeOK'
    BY <1>5 DEF CommandFails, PolicyInv, PolicyTypeOK
  <2> QED BY <1>4, <1>5, <2>1 DEF CommandFails
<1>6. CASE TunCloses
  <2>1. PolicyTypeOK'
    BY Zenon, <1>6 DEF TunCloses, PolicyInv, PolicyTypeOK
  <2> QED BY <1>4, <1>6, <2>1 DEF TunCloses
<1>7. CASE UNCHANGED policyVars
  <2>1. PolicyTypeOK'
    BY <1>7 DEF policyVars, PolicyInv, PolicyTypeOK
  <2> QED BY <1>4, <1>7, <2>1 DEF policyVars
<1>8. Down \in Steps
  BY DEF Down, Steps, Family
<1>9. CASE StartupFails
  <2>1. PolicyTypeOK'
    BY <1>8, <1>9 DEF StartupFails, PolicyInv, PolicyTypeOK
  <2> QED BY <1>9, <2>1, DownSafe DEF StartupFails
<1>10. CASE GenerationFails \/ GenerationStops
  <2>1. todo = {} /\ todo' = {}
    BY <1>10 DEF GenerationFails, GenerationStops, Idle, PolicyInv, PolicyTypeOK
  <2>2. PolicyTypeOK'
    BY <1>8, <1>10, <2>1 DEF GenerationFails, GenerationStops, Idle, PolicyInv, PolicyTypeOK
  <2> QED BY <1>10, <2>1, <2>2, DownSafe DEF GenerationFails, GenerationStops
<1>11. CASE Crash
  <2>1. PolicyTypeOK'
    BY Zenon, <1>8, <1>11 DEF Crash, PolicyInv, PolicyTypeOK
  <2> QED BY <1>11, <2>1, DownSafe DEF Crash
<1>12. CASE Startup
  BY <1>12, BeginStep, RemoveBypassStep, ListStep, DeleteListedStep, FlushStep, AddBypassStep, OpenStep
     DEF Startup
<1> QED BY <1>1, <1>2, <1>3, <1>5, <1>6, <1>7, <1>9, <1>10, <1>11, <1>12 DEF PolicyNext

\* The invariant holds in every reachable state.
THEOREM PolicyInvariant == PolicySpec => []PolicyInv
BY PolicyInitial, PolicyStep, PTL DEF PolicySpec

\* A running generation has the managed rules it installed itself and no
\* others, however the generations before it ended.
THEOREM StartsClean == PolicySpec => []CleanStart
<1>1. PolicyInv => CleanStart
  BY DEF PolicyInv
<1> QED BY <1>1, PolicyInvariant, PTL

\* A running generation has the bypass of both families.
THEOREM BypassIsHeld == PolicySpec => []BypassHeld
<1>1. PolicyInv => BypassHeld
  BY DEF PolicyInv, Bypassed, BypassHeld
<1> QED BY <1>1, PolicyInvariant, PTL

\* The rules of other programs are never deleted.
THEOREM ForeignRulesKept == PolicySpec => []ForeignKept
<1>1. PolicyInv => ForeignKept
  BY DEF PolicyInv
<1> QED BY <1>1, PolicyInvariant, PTL
===============================================================================
