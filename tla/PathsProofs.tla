---------------------------- MODULE PathsProofs -----------------------------
(***************************************************************************)
(* Proofs about the paths to a peer: how its endpoints are found, what its *)
(* metrics start from, and which path carries its packets.                 *)
(***************************************************************************)
EXTENDS PeerDiscovery, MetricsRegistry, PathSelection, TLAPS

-------------------------------------------------------------------------------
(***************************************************************************)
(* PeerDiscovery                                                           *)
(*                                                                         *)
(* What a node connects to is explained, for every set of nodes, every     *)
(* skew of their clocks and every order of rounds, announcements, losses   *)
(* and changes of period.                                                  *)
(***************************************************************************)

\* The setting does not change, and gives each node a clock.
LEMMA SettingFacts ==
    ASSUME DiscoveryTypeOK
    PROVE  /\ setting.skew \in [Node -> Nat]
           /\ setting.provider \subseteq {"tracker", "dht"}
           /\ setting.max_lost \in Nat /\ setting.start \in Nat
           /\ now \in Nat /\ now >= setting.start /\ now <= MaxTime
           /\ \A n \in Node : Clock(n) \in Nat
<1>1. setting \in [skew : [Node -> Nat], private : SUBSET Node,
                   provider : SUBSET {"tracker", "dht"}, on_lan : BOOLEAN,
                   max_lost : Nat, start : 0 .. MaxTime]
  BY DiscoveryAssumption DEF DiscoveryTypeOK
<1>2. setting.skew \in [Node -> Nat] /\ setting.provider \subseteq {"tracker", "dht"}
      /\ setting.max_lost \in Nat /\ setting.start \in Nat
  BY <1>1, DiscoveryAssumption
<1>3. now \in Nat /\ now >= setting.start /\ now <= MaxTime
  BY <1>2, DiscoveryAssumption DEF DiscoveryTypeOK
<1> QED  BY <1>2, <1>3 DEF Clock, Skew

\* A period is a number.
LEMMA PeriodType ==
    ASSUME NEW seconds \in Nat
    PROVE  peer_id_period(seconds) \in Nat
<1>1. PeriodSeconds \in Nat \ {0}
  BY DiscoveryAssumption
<1> QED  BY <1>1 DEF peer_id_period

\* Sequences of queries.
LEMMA SeqOf ==
    ASSUME NEW S, NEW m \in Nat, NEW q \in [1 .. m -> S]
    PROVE  q \in Seq(S)
OBVIOUS

LEMMA ConcatType ==
    ASSUME NEW S, NEW q \in Seq(S), NEW r \in Seq(S)
    PROVE  q \o r \in Seq(S)
OBVIOUS

\* The queries of a round go to the configured providers.
LEMMA QueriesType ==
    ASSUME DiscoveryTypeOK, NEW n \in Node
    PROVE  Queries(n, active_peer_id_periods(Clock(n)))
               \in Seq([provider : Provider, period : Nat, key : Node])
<1> DEFINE periods == active_peer_id_periods(Clock(n))
<1> DEFINE Q == [provider : Provider, period : Nat, key : Node]
<1>1. periods[1] \in Nat /\ periods[2] \in Nat
  <2>1. peer_id_period(Clock(n)) \in Nat
    BY SettingFacts, PeriodType
  <2> QED  BY <2>1 DEF active_peer_id_periods
<1> HIDE DEF periods
<1>2. ASSUME NEW provider, NEW keys \in Seq(Node)
      PROVE  QueriesTo(provider, periods, keys) \in Seq(Q)
  <2>1. CASE provider \notin Provider
    BY <2>1 DEF QueriesTo
  <2>2. CASE provider \in Provider
    <3>1. Len(keys) \in Nat /\ DOMAIN keys = 1 .. Len(keys)
          /\ \A i \in DOMAIN keys : keys[i] \in Node
      BY <1>2
    <3>2. ASSUME NEW period \in Nat
          PROVE  QueriesAt(provider, period, keys) \in Seq(Q)
      <4>1. QueriesAt(provider, period, keys) \in [1 .. Len(keys) -> Q]
        BY <2>2, <3>1, <3>2 DEF QueriesAt
      <4> QED  BY Zenon, <3>1, <4>1, SeqOf
    <3> HIDE DEF Q
    <3>3. QueriesAt(provider, periods[1], keys) \o QueriesAt(provider, periods[2], keys) \in Seq(Q)
      BY Zenon, <1>1, <3>2, ConcatType
    <3> QED  BY <2>2, <3>3 DEF QueriesTo
  <2> QED  BY <2>1, <2>2
<1>3. PeersOf[n] \in Seq(Node) /\ <<n>> \o PeersOf[n] \in Seq(Node)
  BY DiscoveryAssumption
<1> HIDE DEF Q
<1>4. QueriesTo("tracker", periods, <<n>> \o PeersOf[n]) \in Seq(Q)
      /\ QueriesTo("dht", periods, PeersOf[n]) \in Seq(Q)
  BY Zenon, <1>2, <1>3
<1>5. Queries(n, periods) \in Seq(Q)
  BY <1>4, ConcatType DEF Queries
<1> QED  BY <1>5 DEF periods, Q

-------------------------------------------------------------------------------
\* What has been explained stays so.
LEMMA ExplainedStays ==
    ASSUME NEW n, NEW e, Explained(n, e),
           setting' = setting, blind \subseteq blind', air \subseteq air'
    PROVE  Explained(n, e)'
BY DEF Explained, SeenAt, Private

\* The connectors of a node are explained.
LEMMA UrlsExplained ==
    ASSUME DiscoveryTypeOK
    PROVE  SelfCandidateExplained <=>
              \A n \in Node : \A e \in candidate_urls[n] : Explained(n, e)
<1>1. \A n \in Node : \A e \in candidate_urls[n] : e.scope # "private"
  BY DEF DiscoveryTypeOK
<1> QED  BY Zenon, <1>1 DEF SelfCandidateExplained, Explained

\* A step that leaves the candidates alone, and forgets nothing that explains
\* them, keeps the invariant if it keeps the types.
LEMMA RoundStep ==
    ASSUME DiscoveryInv, DiscoveryTypeOK',
           setting' = setting, channel' = channel, candidate_urls' = candidate_urls,
           blind \subseteq blind', air \subseteq air',
           \A n \in Node : todo'[n] \in Seq([provider : Provider, period : Nat, key : Node]),
           found' \in [Node -> SUBSET Endpoint], named' \in [Node -> SUBSET Nat]
    PROVE  DiscoveryInv'
<1>1. \A n \in Node : \A e \in candidate_urls[n] : Explained(n, e)
  BY UrlsExplained DEF DiscoveryInv, SelfCandidateExplained
<1>2. \A n \in Node : \A e \in candidate_urls'[n] : Explained(n, e)'
  BY <1>1, ExplainedStays
<1>3. SelfCandidateExplained'
  <2>1. \A n \in Node : \A e \in candidate_urls'[n] : e.scope # "private"
    BY DEF DiscoveryTypeOK
  <2> QED  BY <1>2, <2>1 DEF SelfCandidateExplained, Explained
<1>4. \A n \in Node : \A i \in DOMAIN channel'[n] : \A e \in channel'[n][i] : Explained(n, e)'
  BY ExplainedStays DEF DiscoveryInv
<1> QED  BY Zenon, <1>3, <1>4 DEF DiscoveryInv, Provider

\* A round begins.
LEMMA BeginRoundInv ==
    ASSUME DiscoveryInv, NEW n \in Node, NEW stun \in BOOLEAN, BeginRound(n, stun)
    PROVE  DiscoveryInv'
<1>1. DiscoveryTypeOK
  BY DEF DiscoveryInv, SelfCandidateExplained
<1> DEFINE queries == Queries(n, active_peer_id_periods(Clock(n)))
<1> DEFINE Q == [provider : Provider, period : Nat, key : Node]
<1>2. /\ stun_known' = [stun_known EXCEPT ![n] = @ \/ stun]
      /\ in_round' = [in_round EXCEPT ![n] = TRUE]
      /\ todo' = [todo EXCEPT ![n] = queries]
      /\ found' = [found EXCEPT ![n] = {}]
      /\ UNCHANGED <<setting, now, registered, blind, named, air, channel, candidate_urls>>
  BY DEF BeginRound, lanVars
<1>3. queries \in Seq(Q)
  BY Zenon, <1>1, QueriesType
<1>4. lost' \in 0 .. MaxLost
  <2>1. MaxLost \in Nat /\ lost \in 0 .. MaxLost
    BY <1>1, SettingFacts DEF DiscoveryTypeOK, MaxLost
  <2>2. lost' = lost \/ (lost < MaxLost /\ lost' = lost + 1)
    BY DEF BeginRound, public_addresses
  <2> QED  BY <2>1, <2>2
<1>5. Q \subseteq Query
  BY <1>1, SettingFacts DEF Query, Provider
<1> HIDE DEF queries, Q
<1>6. todo \in [Node -> Seq(Query)] /\ \A m \in Node : todo[m] \in Seq(Q)
  BY Zenon, <1>1 DEF DiscoveryTypeOK, DiscoveryInv, Q
<1>7. queries \in Seq(Query)
  BY <1>3, <1>5
<1>8. todo' \in [Node -> Seq(Query)] /\ \A m \in Node : todo'[m] \in Seq(Q)
  BY <1>2, <1>3, <1>6, <1>7
<1>9. found' \in [Node -> SUBSET Endpoint]
  BY <1>2 DEF DiscoveryInv
<1>10. stun_known' \in [Node -> BOOLEAN] /\ in_round' \in [Node -> BOOLEAN]
  BY <1>1, <1>2 DEF DiscoveryTypeOK
<1>11. DiscoveryTypeOK'
  BY Zenon, <1>1, <1>2, <1>4, <1>8, <1>9, <1>10 DEF DiscoveryTypeOK, Provider, MaxLost
<1> QED  BY Zenon, <1>2, <1>8, <1>9, <1>11, RoundStep DEF DiscoveryInv, Q

\* A query of the round: what it registers is the node's own.
LEMMA AskInv ==
    ASSUME DiscoveryInv, NEW n \in Node, NEW outcome \in Outcome, Ask(n, outcome)
    PROVE  DiscoveryInv'
<1> DEFINE Q == [provider : Provider, period : Nat, key : Node]
<1> DEFINE q == Head(todo[n])
<1> DEFINE R == [provider : Provider, key : Node, period : Nat, node : Node]
<1>1. DiscoveryTypeOK
  BY DEF DiscoveryInv, SelfCandidateExplained
<1>2. /\ todo[n] # <<>>
      /\ todo' = [todo EXCEPT ![n] = Tail(todo[n])]
      /\ registered' = registered \/ registered' = Request(n, q)
      /\ found' = found \/ found' = [found EXCEPT ![n] = found[n] \cup Answer(q)]
      /\ lost' = lost \/ (lost < MaxLost /\ lost' = lost + 1)
      /\ UNCHANGED <<setting, now, in_round, stun_known, blind, named, air, channel,
                     candidate_urls>>
  <2>1. found \in [Node -> SUBSET Endpoint]
    BY DEF DiscoveryInv
  <2>2. found' = found \/ found' = [found EXCEPT ![n] = found[n] \cup Answer(q)]
    BY Zenon, <2>1 DEF Ask
  <2> QED  BY <2>2 DEF Ask, lanVars
<1>3. todo \in [Node -> Seq(Query)] /\ \A m \in Node : todo[m] \in Seq(Q)
  BY Zenon, <1>1 DEF DiscoveryTypeOK, DiscoveryInv
<1> HIDE DEF Q
<1>4. q \in Q /\ Tail(todo[n]) \in Seq(Q) /\ Tail(todo[n]) \in Seq(Query)
  <2>1. todo[n] \in Seq(Q) /\ todo[n] \in Seq(Query) /\ todo[n] # <<>>
    BY <1>2, <1>3
  <2> QED  BY <2>1
<1>5. todo' \in [Node -> Seq(Query)] /\ \A m \in Node : todo'[m] \in Seq(Q)
  BY <1>2, <1>3, <1>4
<1>6. q.provider \in Provider /\ q.key \in Node /\ q.period \in Nat
  BY <1>4 DEF Q
<1> HIDE DEF q
<1>7. registered' \subseteq R /\ \A r \in registered' : r.key = r.node
  <2>1. registered \subseteq R /\ \A r \in registered : r.key = r.node
    BY <1>1 DEF DiscoveryTypeOK
  <2>2. [provider |-> q.provider, key |-> n, period |-> q.period, node |-> n] \in R
    BY <1>6
  <2> QED  BY <1>2, <2>1, <2>2 DEF Request
<1>8. Answer(q) \subseteq Endpoint
  BY <1>1 DEF DiscoveryTypeOK, Answer, SeenAt, Endpoint
<1>9. found' \in [Node -> SUBSET Endpoint]
  <2>1. found \in [Node -> SUBSET Endpoint]
    BY DEF DiscoveryInv
  <2> QED  BY <1>2, <1>8, <2>1
<1>10. lost' \in 0 .. MaxLost
  <2>1. MaxLost \in Nat /\ lost \in 0 .. MaxLost
    BY Zenon, <1>1, SettingFacts DEF DiscoveryTypeOK, MaxLost
  <2> QED  BY <1>2, <2>1
<1>11. DiscoveryTypeOK'
  BY <1>1, <1>2, <1>5, <1>7, <1>9, <1>10 DEF DiscoveryTypeOK, Provider, MaxLost
<1> QED  BY Zenon, <1>2, <1>5, <1>9, <1>11, RoundStep DEF DiscoveryInv, Q

\* Announcements of a node, what a provider forgets, and the clock.
LEMMA AnnounceInv ==
    ASSUME DiscoveryInv, NEW n \in Node, ReadName(n) \/ Announce(n)
    PROVE  DiscoveryInv'
<1>1. DiscoveryTypeOK /\ named \in [Node -> SUBSET Nat]
  BY Zenon DEF DiscoveryInv, SelfCandidateExplained
<1>2. peer_id_period(Clock(n)) \in Nat
  BY Zenon, <1>1, SettingFacts, PeriodType
<1>3. /\ \/ named' = [named EXCEPT ![n] = {peer_id_period(Clock(n))}]
         \/ named' = [named EXCEPT ![n] = {}]
      /\ UNCHANGED <<setting, now, roundVars, channel, candidate_urls>>
  BY DEF ReadName, Announce, None
<1>4. named' \in [Node -> SUBSET Nat] /\ \A m \in Node : \A p, q \in named'[m] : p = q
  <2>1. \A m \in Node : \A p, q \in named[m] : p = q
    BY <1>1 DEF DiscoveryTypeOK
  <2> QED  BY <1>1, <1>2, <1>3, <2>1
<1>5. air \subseteq air' /\ air' \subseteq [node : Node, id : Nat, period : Nat]
  <2>1. \A id \in named[n] :
           [node |-> n, id |-> id, period |-> peer_id_period(Clock(n))]
               \in [node : Node, id : Nat, period : Nat]
    BY <1>1, <1>2
  <2> QED  BY <1>1, <2>1 DEF DiscoveryTypeOK, ReadName, Announce
<1>6. DiscoveryTypeOK'
  BY <1>1, <1>3, <1>4, <1>5 DEF DiscoveryTypeOK, roundVars, Provider, MaxLost
<1> QED  BY Zenon, <1>3, <1>4, <1>5, <1>6, RoundStep DEF DiscoveryInv, roundVars

LEMMA PassingInv ==
    ASSUME DiscoveryInv, (\E r \in registered : Forget(r)) \/ DiscoveryTick
    PROVE  DiscoveryInv'
<1>1. DiscoveryTypeOK
  BY DEF DiscoveryInv, SelfCandidateExplained
<1>2. now' \in setting.start .. MaxTime
  <2>1. setting.start \in Nat /\ now \in Nat /\ now >= setting.start /\ now <= MaxTime
        /\ MaxTime \in Nat
    BY <1>1, SettingFacts, DiscoveryAssumption
  <2>2. now' = now \/ (now < MaxTime /\ now' = now + 1)
    BY DEF Forget, DiscoveryTick
  <2> QED  BY <2>1, <2>2
<1>3. registered' \subseteq registered
      /\ UNCHANGED <<setting, todo, in_round, found, stun_known, lost, blind, named, air,
                     channel, candidate_urls>>
  BY DEF Forget, DiscoveryTick, roundVars, lanVars
<1>4. DiscoveryTypeOK'
  BY <1>1, <1>2, <1>3 DEF DiscoveryTypeOK, Provider, MaxLost
<1> QED  BY Zenon, <1>3, <1>4, RoundStep DEF DiscoveryInv

\* A batch that is appended to a node's channel: every batch of a channel was
\* there before or is the new one.
Posts(n, batch) ==
    /\ Len(channel[n]) < ChannelSize
    /\ channel' = [channel EXCEPT ![n] = Append(channel[n], batch)]

Posted(n, batch) ==
    \A m \in Node : \A i \in DOMAIN channel'[m] :
       \/ i \in DOMAIN channel[m] /\ channel'[m][i] = channel[m][i]
       \/ m = n /\ channel'[m][i] = batch

LEMMA PostsFacts ==
    ASSUME DiscoveryInv, NEW n \in Node, NEW batch \in SUBSET Endpoint, Posts(n, batch)
    PROVE  /\ channel' \in [Node -> Seq(SUBSET Endpoint)]
           /\ \A m \in Node : Len(channel'[m]) <= ChannelSize
           /\ Posted(n, batch)
<1>1. channel \in [Node -> Seq(SUBSET Endpoint)] /\ ChannelSize \in Nat
      /\ \A m \in Node : Len(channel[m]) <= ChannelSize
  <2>1. DiscoveryTypeOK /\ channel \in [Node -> Seq(SUBSET Endpoint)]
    BY Zenon DEF DiscoveryInv, SelfCandidateExplained
  <2>2. ChannelSize \in Nat
    BY Zenon, DiscoveryAssumption
  <2> QED  BY Zenon, <2>1, <2>2 DEF DiscoveryTypeOK
<1>2. channel[n] \in Seq(SUBSET Endpoint)
  BY <1>1
<1>3. /\ Append(channel[n], batch) \in Seq(SUBSET Endpoint)
      /\ Len(Append(channel[n], batch)) = Len(channel[n]) + 1
      /\ \A i \in DOMAIN Append(channel[n], batch) :
            \/ i \in DOMAIN channel[n] /\ Append(channel[n], batch)[i] = channel[n][i]
            \/ Append(channel[n], batch)[i] = batch
  BY <1>2
<1>4. channel'[n] = Append(channel[n], batch) /\ \A m \in Node \ {n} : channel'[m] = channel[m]
  BY <1>1 DEF Posts
<1>5. Len(channel[n]) + 1 <= ChannelSize
  <2>1. Len(channel[n]) \in Nat
    BY <1>2
  <2> QED  BY <1>1, <2>1 DEF Posts
<1>6. channel' \in [Node -> Seq(SUBSET Endpoint)]
  BY <1>1, <1>3 DEF Posts
<1> QED  BY Zenon, <1>1, <1>3, <1>4, <1>5, <1>6 DEF Posted

\* A round ends: the node's own endpoint is in the batch only if the node has
\* not learned its address, and is counted as blind then.
LEMMA EndRoundInv ==
    ASSUME DiscoveryInv, NEW n \in Node, EndRound(n)
    PROVE  DiscoveryInv'
<1> DEFINE batch == retain_candidates(n, found[n])
<1>1. DiscoveryTypeOK /\ found \in [Node -> SUBSET Endpoint]
  BY DEF DiscoveryInv, SelfCandidateExplained
<1>2. /\ Len(channel[n]) < ChannelSize
      /\ channel' = [channel EXCEPT ![n] = Append(channel[n], batch)]
      /\ in_round' = [in_round EXCEPT ![n] = FALSE]
      /\ found' = [found EXCEPT ![n] = {}]
      /\ blind' = IF stun_known[n] THEN blind ELSE blind \cup {n}
      /\ UNCHANGED <<setting, now, registered, todo, stun_known, lost, named, air, candidate_urls>>
  <2>1. channel \in [Node -> Seq(SUBSET Endpoint)]
    BY DEF DiscoveryInv
  <2> QED  BY <2>1 DEF EndRound, lanVars
<1>3. batch \in SUBSET Endpoint /\ \A e \in batch : Explained(n, e)'
  <2>1. batch \in SUBSET Endpoint
    BY <1>1 DEF retain_candidates
  <2>2. \A e \in batch : e.scope = "public" /\ (e = SeenAt(n) => n \in blind')
    BY <1>1, <1>2
       DEF retain_candidates, is_public_candidate, is_local_candidate, DiscoveryTypeOK
  <2>3. SeenAt(n)' = SeenAt(n)
    BY <1>2 DEF SeenAt, Private
  <2> QED  BY <2>1, <2>2, <2>3 DEF Explained
<1> HIDE DEF batch
<1>4. /\ channel' \in [Node -> Seq(SUBSET Endpoint)]
      /\ \A m \in Node : Len(channel'[m]) <= ChannelSize
      /\ Posted(n, batch)
  <2>1. Posts(n, batch)
    BY <1>2 DEF Posts
  <2> QED  BY <1>3, <2>1, PostsFacts
<1>5. found' \in [Node -> SUBSET Endpoint] /\ in_round' \in [Node -> BOOLEAN]
      /\ blind' \subseteq Node /\ blind \subseteq blind'
  BY Zenon, <1>1, <1>2 DEF DiscoveryTypeOK
<1>6. DiscoveryTypeOK'
  BY ZenonT(30), <1>1, <1>2, <1>4, <1>5 DEF DiscoveryTypeOK, Provider, MaxLost
<1>7. \A m \in Node : \A e \in candidate_urls'[m] : Explained(m, e)'
  <2>1. \A m \in Node : \A e \in candidate_urls[m] : Explained(m, e)
    BY <1>1, UrlsExplained DEF DiscoveryInv
  <2> QED  BY <1>2, <1>5, <2>1, ExplainedStays
<1>8. SelfCandidateExplained'
  BY <1>6, <1>7 DEF SelfCandidateExplained, Explained
<1>9. \A m \in Node : \A i \in DOMAIN channel'[m] : \A e \in channel'[m][i] : Explained(m, e)'
  <2>1. \A m \in Node : \A i \in DOMAIN channel[m] : \A e \in channel[m][i] : Explained(m, e)'
    BY <1>2, <1>5, ExplainedStays DEF DiscoveryInv
  <2> QED  BY Zenon, <1>3, <1>4, <2>1 DEF Posted
<1> QED  BY Zenon, <1>2, <1>4, <1>5, <1>8, <1>9 DEF DiscoveryInv, Provider

\* A window of announcements: the node's own is accepted only if it was made
\* across a change of period.
LEMMA ReceiveInv ==
    ASSUME DiscoveryInv, NEW n \in Node, NEW H \in SUBSET Node, Receive(n, H)
    PROVE  DiscoveryInv'
<1> DEFINE batch == {[node |-> m, scope |-> "lan"] : m \in H}
<1>1. DiscoveryTypeOK
  BY DEF DiscoveryInv, SelfCandidateExplained
<1>2. /\ Len(channel[n]) < ChannelSize
      /\ channel' = [channel EXCEPT ![n] = Append(channel[n], batch)]
      /\ UNCHANGED <<setting, now, registered, todo, in_round, found, stun_known, lost, blind,
                     named, air, candidate_urls>>
  <2>1. channel \in [Node -> Seq(SUBSET Endpoint)]
    BY DEF DiscoveryInv
  <2> QED  BY <2>1 DEF Receive, roundVars, lanVars
<1>3. batch \in SUBSET Endpoint /\ \A e \in batch : Explained(n, e)
  <2>1. batch \in SUBSET Endpoint
    BY DEF Endpoint
  <2>2. n \in H => \E a \in air : a.node = n /\ a.id # a.period
    BY DEF Receive, Audible, accepts
  <2>3. \A e \in batch : e.scope = "lan" /\ (e.node = n => n \in H)
    OBVIOUS
  <2>4. SeenAt(n).scope # "lan"
    BY DEF SeenAt
  <2> QED  BY <2>1, <2>2, <2>3, <2>4 DEF Explained
<1> HIDE DEF batch
<1>4. /\ channel' \in [Node -> Seq(SUBSET Endpoint)]
      /\ \A m \in Node : Len(channel'[m]) <= ChannelSize
      /\ Posted(n, batch)
  <2>1. Posts(n, batch)
    BY Zenon, <1>2 DEF Posts
  <2> QED  BY <1>3, <2>1, PostsFacts
<1>5. DiscoveryTypeOK'
  BY Zenon, <1>1, <1>2, <1>4 DEF DiscoveryTypeOK, Provider, MaxLost
<1>6. \A m \in Node : \A i \in DOMAIN channel'[m] : \A e \in channel'[m][i] : Explained(m, e)
  BY Zenon, <1>3, <1>4 DEF DiscoveryInv, Posted
<1>7. \A m \in Node : \A i \in DOMAIN channel'[m] : \A e \in channel'[m][i] : Explained(m, e)'
  BY <1>2, <1>6, ExplainedStays
<1>8. SelfCandidateExplained'
  BY Zenon, <1>2, <1>5 DEF DiscoveryInv, SelfCandidateExplained, SeenAt, Private
<1> QED  BY Zenon, <1>2, <1>4, <1>7, <1>8 DEF DiscoveryInv, Provider

\* The relay takes a batch.
LEMMA TakeInv ==
    ASSUME DiscoveryInv, NEW n \in Node, TakeCandidates(n)
    PROVE  DiscoveryInv'
<1>1. /\ DiscoveryTypeOK /\ channel \in [Node -> Seq(SUBSET Endpoint)]
      /\ candidate_urls \in [Node -> SUBSET Endpoint]
  BY DEF DiscoveryInv, SelfCandidateExplained
<1>2. /\ channel[n] # <<>>
      /\ channel' = [channel EXCEPT ![n] = Tail(channel[n])]
      /\ candidate_urls' = [candidate_urls EXCEPT ![n] = candidate_urls[n] \cup Head(channel[n])]
      /\ UNCHANGED <<setting, now, registered, todo, in_round, found, stun_known, lost, blind,
                     named, air>>
  BY <1>1 DEF TakeCandidates, roundVars, lanVars
<1>3. channel[n] \in Seq(SUBSET Endpoint) /\ Len(channel[n]) \in Nat
      /\ Len(channel[n]) <= ChannelSize /\ ChannelSize \in Nat
  BY <1>1, DiscoveryAssumption DEF DiscoveryTypeOK
<1>4. /\ Head(channel[n]) \in SUBSET Endpoint /\ 1 \in DOMAIN channel[n]
      /\ Head(channel[n]) = channel[n][1]
      /\ Tail(channel[n]) \in Seq(SUBSET Endpoint)
      /\ Len(Tail(channel[n])) <= Len(channel[n]) /\ Len(Tail(channel[n])) \in Nat
      /\ \A i \in DOMAIN Tail(channel[n]) :
            i + 1 \in DOMAIN channel[n] /\ Tail(channel[n])[i] = channel[n][i + 1]
  BY <1>2, <1>3
<1>5. /\ channel' \in [Node -> Seq(SUBSET Endpoint)]
      /\ candidate_urls' \in [Node -> SUBSET Endpoint]
      /\ \A m \in Node : Len(channel'[m]) <= ChannelSize
  <2>1. \A m \in Node : Len(channel[m]) <= ChannelSize
    BY <1>1 DEF DiscoveryTypeOK
  <2> QED  BY <1>1, <1>2, <1>3, <1>4, <2>1
<1>6. \A m \in Node : \A i \in DOMAIN channel'[m] : \A e \in channel'[m][i] : Explained(m, e)
  <2> SUFFICES ASSUME NEW m \in Node, NEW i \in DOMAIN channel'[m]
               PROVE  \A e \in channel'[m][i] : Explained(m, e)
    OBVIOUS
  <2>1. CASE m = n
    <3>1. channel'[n] = Tail(channel[n])
      BY <1>1, <1>2
    <3>2. i + 1 \in DOMAIN channel[n] /\ channel'[n][i] = channel[n][i + 1]
      BY <1>4, <2>1, <3>1
    <3> QED  BY <2>1, <3>2 DEF DiscoveryInv
  <2>2. CASE m # n
    <3>1. channel'[m] = channel[m]
      BY <1>1, <1>2, <2>2
    <3> QED  BY <3>1 DEF DiscoveryInv
  <2> QED  BY <2>1, <2>2
<1>7. \A m \in Node : \A e \in candidate_urls'[m] : Explained(m, e)
  <2>1. \A m \in Node : \A e \in candidate_urls[m] : Explained(m, e)
    BY <1>1, UrlsExplained DEF DiscoveryInv
  <2>2. \A e \in Head(channel[n]) : Explained(n, e)
    BY <1>4 DEF DiscoveryInv
  <2> QED  BY <1>1, <1>2, <2>1, <2>2
<1>8. /\ \A m \in Node : \A i \in DOMAIN channel'[m] : \A e \in channel'[m][i] : Explained(m, e)'
      /\ \A m \in Node : \A e \in candidate_urls'[m] : Explained(m, e)'
  BY <1>2, <1>6, <1>7, ExplainedStays
<1>9. \A m \in Node : \A e \in candidate_urls'[m] : e \in Endpoint /\ e.scope # "private"
  BY ZenonT(30), <1>5, <1>7 DEF Explained
<1>10. DiscoveryTypeOK'
  BY <1>1, <1>2, <1>5, <1>9 DEF DiscoveryTypeOK, Provider, MaxLost
<1>11. SelfCandidateExplained'
  BY <1>8, <1>10 DEF SelfCandidateExplained, Explained
<1> QED  BY Zenon, <1>2, <1>5, <1>8, <1>11 DEF DiscoveryInv, Provider

-------------------------------------------------------------------------------
\* Init establishes the invariant.
LEMMA DiscoveryInitInv == DiscoveryInit => DiscoveryInv
<1> SUFFICES ASSUME DiscoveryInit
             PROVE  DiscoveryInv
  OBVIOUS
<1>1. setting.max_lost \in Nat /\ setting.start \in 0 .. MaxTime /\ MaxTime \in Nat
  BY DiscoveryAssumption DEF DiscoveryInit
<1>2. now \in setting.start .. MaxTime /\ lost \in 0 .. MaxLost
  BY <1>1 DEF DiscoveryInit, MaxLost
<1>3. /\ \A n \in Node : channel[n] = <<>>
      /\ \A n \in Node : todo[n] = <<>>
      /\ \A n \in Node : candidate_urls[n] = {}
      /\ \A n \in Node : found[n] = {}
      /\ \A n \in Node : named[n] = {}
  BY DEF DiscoveryInit, None
<1>4. <<>> \in Seq(SUBSET Endpoint) /\ <<>> \in Seq(Query)
      /\ <<>> \in Seq([provider : Provider, period : Nat, key : Node])
      /\ Len(<<>>) = 0 /\ Len(<<>>) <= ChannelSize /\ DOMAIN <<>> = {}
  BY DiscoveryAssumption
<1>6. /\ todo \in [Node -> Seq(Query)] /\ found \in [Node -> SUBSET Endpoint]
      /\ named \in [Node -> SUBSET Nat] /\ channel \in [Node -> Seq(SUBSET Endpoint)]
      /\ candidate_urls \in [Node -> SUBSET Endpoint]
      /\ in_round \in [Node -> BOOLEAN] /\ stun_known \in [Node -> BOOLEAN]
  BY <1>4 DEF DiscoveryInit, None
<1>7. DiscoveryTypeOK
  <2>1. setting \in Setting /\ registered = {} /\ air = {} /\ blind = {}
    BY DEF DiscoveryInit
  <2>2. \A n \in Node : channel[n] \in Seq(SUBSET Endpoint) /\ Len(channel[n]) <= ChannelSize
    BY Zenon, <1>3, <1>4
  <2>3. \A n \in Node : \A p, q \in named[n] : p = q
    BY Zenon, <1>3
  <2> QED  BY <1>2, <1>3, <1>6, <2>1, <2>2, <2>3 DEF DiscoveryTypeOK
<1>8. SelfCandidateExplained
  BY <1>3, <1>7 DEF SelfCandidateExplained
<1>9. /\ \A n \in Node : todo[n] \in Seq([provider : Provider, period : Nat, key : Node])
      /\ \A n \in Node : DOMAIN channel[n] = {}
  BY Zenon, <1>3, <1>4
<1> QED  BY Zenon, <1>6, <1>8, <1>9 DEF DiscoveryInv

\* Every step keeps it.
LEMMA DiscoveryStepInv ==
    ASSUME DiscoveryInv, [DiscoveryNext]_discoveryVars
    PROVE  DiscoveryInv'
<1>1. CASE \E n \in Node : \E stun \in BOOLEAN : BeginRound(n, stun)
  BY <1>1, BeginRoundInv
<1>2. CASE \E n \in Node : \E outcome \in Outcome : Ask(n, outcome)
  BY <1>2, AskInv
<1>3. CASE \E n \in Node : EndRound(n)
  BY <1>3, EndRoundInv
<1>4. CASE \E n \in Node : ReadName(n) \/ Announce(n)
  BY <1>4, AnnounceInv
<1>5. CASE \E n \in Node : \E H \in SUBSET Node : Receive(n, H)
  BY <1>5, ReceiveInv
<1>6. CASE \E n \in Node : TakeCandidates(n)
  BY <1>6, TakeInv
<1>7. CASE (\E r \in registered : Forget(r)) \/ DiscoveryTick
  BY <1>7, PassingInv
<1>8. CASE UNCHANGED discoveryVars
  <2>1. UNCHANGED <<setting, now, registered, todo, in_round, found, stun_known, lost, blind,
                    named, air, channel, candidate_urls>>
    BY ZenonT(30), <1>8 DEF discoveryVars, roundVars, lanVars
  <2>2. DiscoveryTypeOK'
    BY Zenon, <2>1 DEF DiscoveryInv, SelfCandidateExplained, DiscoveryTypeOK, MaxLost, Provider
  <2> QED  BY Zenon, <2>1, <2>2, RoundStep DEF DiscoveryInv
<1> QED
  BY <1>1, <1>2, <1>3, <1>4, <1>5, <1>6, <1>7, <1>8 DEF DiscoveryNext

\* A node gets a connector to itself only through one of the two gaps of the
\* filters: its own public address while STUN had not told it, or its own
\* announcement named in one period and signed in the next.  It never
\* connects to a private address.
THEOREM SelfConnectionsAreExplained == DiscoverySpec => []SelfCandidateExplained
<1>1. DiscoveryInv => SelfCandidateExplained
  BY DEF DiscoveryInv
<1>2. DiscoveryInv /\ [DiscoveryNext]_discoveryVars => DiscoveryInv'
  BY DiscoveryStepInv
<1> QED  BY <1>1, <1>2, DiscoveryInitInv, PTL DEF DiscoverySpec

-------------------------------------------------------------------------------
(***************************************************************************)
(* MetricsRegistry                                                         *)
(***************************************************************************)

\* An empty window stays empty when it is trimmed.
LEMMA TrimEmpty == trim_probes(<<>>) = <<>>
<1> DEFINE stops == {k \in 1 .. Len(<<>>) + 1 :
                       /\ Len(<<>>) - k + 1 <= MaxSamples
                       /\ k <= Len(<<>>) => <<>>[k].age <= SampleWindow}
<1>1. stops = {1}
  BY MetricsAssumption
<1>2. trim_probes(<<>>) = SubSeq(<<>>, Min(stops), Len(<<>>))
  BY DEF trim_probes
<1> HIDE DEF stops
<1>3. Min(stops) = 1
  BY <1>1 DEF Min
<1> QED  BY <1>2, <1>3

\* Every step keeps MetricsInv.
LEMMA MetricsStep == MetricsInv /\ [MetricsNext]_metricsVars => MetricsInv'
<1> SUFFICES ASSUME MetricsInv, [MetricsNext]_metricsVars
             PROVE  MetricsInv'
  OBVIOUS
<1>1. ASSUME NEW p \in Peer, NEW entry, UNCHANGED peers, registry' = with_path(p, entry),
             p \notin peers => entry = Default
      PROVE  MetricsInv'
  BY <1>1 DEF MetricsInv, with_path
<1>2. ASSUME NEW p \in Peer, NEW value \in BOOLEAN, set_available(p, value) \/ record_probe(p, value)
      PROVE  MetricsInv'
  BY <1>1, <1>2 DEF set_available, record_probe
<1>3. ASSUME NEW P \in SUBSET Peer, replace_generation(P)
      PROVE  MetricsInv'
  BY <1>3 DEF MetricsInv, replace_generation
<1>4. ASSUME NEW p \in Peer, snapshot(p)
      PROVE  MetricsInv'
  <2>1. p \notin peers => Entry(p) = Default
    BY DEF MetricsInv, Entry
  <2>2. [Default EXCEPT !.probes = trim_probes(@)] = Default
    <3>1. Default.probes = <<>> /\ trim_probes(Default.probes) = <<>>
      BY TrimEmpty DEF Default
    <3>2. [Default EXCEPT !.probes = <<>>] = Default
      BY DEF Default
    <3> QED  BY <3>1, <3>2
  <2>3. p \notin peers => [Entry(p) EXCEPT !.probes = trim_probes(@)] = Default
    BY ZenonT(30), <2>1, <2>2
  <2> QED  BY <1>1, <1>4, <2>3 DEF snapshot
<1>5. CASE MetricsTick
  <2>1. [Default EXCEPT !.probes = [i \in DOMAIN @ |-> [@[i] EXCEPT !.age = Older(@)]]] = Default
    BY DEF Default
  <2> QED  BY <1>5, <2>1 DEF MetricsInv, MetricsTick
<1>6. CASE PublishPeers \/ StartSnapshot \/ UNCHANGED metricsVars
  BY <1>6 DEF MetricsInv, PublishPeers, StartSnapshot, metricsVars
<1> QED  BY <1>2, <1>3, <1>4, <1>5, <1>6 DEF MetricsNext

\* A peer that joins, or comes back, starts unavailable and without samples,
\* for any number of peers and however the console's reads fall between the
\* steps of replace_generation (metrics.rs:139, 195, 230).
THEOREM PeersStartFresh == MetricsSpec => FreshStart
<1>1. MetricsInit => MetricsInv
  BY DEF MetricsInit, MetricsInv
<1>2. MetricsInv /\ [MetricsNext]_metricsVars =>
         [\A p \in peers' \ peers :
             registry'[p].available = FALSE /\ registry'[p].probes = <<>>]_metricsVars
  <2> SUFFICES ASSUME MetricsInv, MetricsNext, NEW p \in peers' \ peers
               PROVE  registry'[p].available = FALSE /\ registry'[p].probes = <<>>
    BY Zenon
  <2>1. PICK P \in SUBSET Peer : replace_generation(P)
    BY Zenon DEF MetricsNext, set_available, record_probe, PublishPeers, StartSnapshot,
           snapshot, MetricsTick
  <2>2. registry'[p] = Default
    BY <2>1 DEF MetricsInv, replace_generation, Entry
  <2> QED  BY <2>2 DEF Default
<1> QED  BY <1>1, <1>2, MetricsStep, PTL DEF MetricsSpec, FreshStart

-------------------------------------------------------------------------------
(***************************************************************************)
(* PathSelection                                                           *)
(***************************************************************************)

INSTANCE WellFoundedInduction

(* The order of the paths *)

\* A set of natural numbers that is not empty has a least element.
LEMMA HasLeast ==
    ASSUME NEW S, S \subseteq Nat, S # {}
    PROVE  \E n \in S : \A m \in S : n <= m
<1> DEFINE R == OpToRel(<, Nat)
<1>1. IsWellFoundedOn(R, Nat)
  BY Zenon, NatLessThanWellFounded
<1>2. \A x, y \in Nat : x < y => <<x, y>> \in R
  BY DEF OpToRel
<1> HIDE DEF R
<1>3. PICK n \in S : \A m \in S : ~(<<m, n>> \in R)
  BY Zenon, <1>1, WFMin
<1>4. \A m \in S : ~(m < n)
  BY Zenon, <1>2, <1>3
<1>5. \A m \in S : n <= m
  BY <1>4
<1> QED  BY <1>5

\* Every path has one place among the targets.
LEMMA TargetFacts ==
    /\ DOMAIN Targets \subseteq Nat
    /\ \A path \in Path : Position(Targets, path) \in DOMAIN Targets /\ Targets[Position(Targets, path)] = path
    /\ \A i \in DOMAIN Targets : Targets[i] \in Path
    /\ Path # {} => 1 \in DOMAIN Targets
<1>1. Targets \in Seq(Path)
  BY PathAssumption
<1>2. DOMAIN Targets = 1 .. Len(Targets) /\ Len(Targets) \in Nat
  BY <1>1
<1>3. \A path \in Path : \E i \in DOMAIN Targets : Targets[i] = path
  BY DEF Path, Range
<1>4. \A path \in Path : Position(Targets, path) \in DOMAIN Targets /\ Targets[Position(Targets, path)] = path
  BY <1>3 DEF Position
<1>5. \A i \in DOMAIN Targets : Targets[i] \in Path
  BY DEF Path, Range
<1> QED  BY <1>2, <1>3, <1>4, <1>5

\* Trading places with the first target loses and repeats no path.
LEMMA OrderFacts ==
    ASSUME NEW choice \in Choice
    PROVE  /\ DOMAIN ordered_targets(choice) = DOMAIN Targets
           /\ Range(ordered_targets(choice)) = Path
           /\ IsInjective(ordered_targets(choice))
<1>1. IsInjective(Targets)
  BY PathAssumption
<1>2. CASE choice = NoPath
  BY <1>1, <1>2 DEF ordered_targets, Path
<1>3. CASE choice # NoPath
  <2> DEFINE index == Position(Targets, choice)
  <2> DEFINE order == [i \in DOMAIN Targets |->
                          CASE i = 1 -> Targets[index] [] i = index -> Targets[1] [] OTHER -> Targets[i]]
  <2>1. choice \in Path
    BY <1>3 DEF Choice
  <2>2. ordered_targets(choice) = order
    BY <1>3 DEF ordered_targets, Position
  <2>3. index \in DOMAIN Targets /\ 1 \in DOMAIN Targets
    BY <2>1, TargetFacts
  <2> HIDE DEF index
  <2>4. /\ order[1] = Targets[index] /\ order[index] = Targets[1]
        /\ \A i \in DOMAIN Targets \ {1, index} : order[i] = Targets[i]
    BY <2>3
  <2>5. DOMAIN order = DOMAIN Targets
    OBVIOUS
  <2> HIDE DEF order
  <2>6. \A i, j \in DOMAIN Targets : Targets[i] = Targets[j] => i = j
    BY <1>1 DEF IsInjective
  <2>7. IsInjective(order)
    BY <2>3, <2>4, <2>5, <2>6 DEF IsInjective
  <2>8. ASSUME NEW i \in DOMAIN Targets
        PROVE  order[i] \in Path /\ \E j \in DOMAIN Targets : order[j] = Targets[i]
    BY <2>3, <2>4, TargetFacts
  <2>9. Range(order) = Path
    <3>1. \A x \in Range(order) : x \in Path
      BY <2>5, <2>8 DEF Range
    <3>2. \A x \in Path : x \in Range(order)
      BY <2>5, <2>8, TargetFacts DEF Range
    <3> QED  BY <3>1, <3>2
  <2> QED  BY <2>2, <2>5, <2>7, <2>9
<1> QED  BY <1>2, <1>3

\* The places of the paths in that order, and their ranks.
LEMMA PlaceFacts ==
    ASSUME NEW choice \in Choice
    PROVE  /\ \A p \in Path : /\ Position(ordered_targets(choice), p) \in Nat
                              /\ Rank(p, choice) \in Nat
           /\ \A p, q \in Path :
                 Position(ordered_targets(choice), p) = Position(ordered_targets(choice), q) => p = q
<1> DEFINE order == ordered_targets(choice)
<1>1. DOMAIN order \subseteq Nat /\ Range(order) = Path
  BY OrderFacts, TargetFacts
<1> HIDE DEF order
<1>2. \A p \in Path : \E i \in DOMAIN order : order[i] = p
  BY <1>1 DEF Range
<1>3. \A p \in Path : Position(order, p) \in DOMAIN order /\ order[Position(order, p)] = p
  BY <1>2 DEF Position
<1>4. \A p, q \in Path : Position(order, p) = Position(order, q) => p = q
  BY <1>3
<1>5. \A p \in Path : Rank(p, choice) \in Nat
  BY DEF Rank
<1> QED  BY <1>1, <1>3, <1>4, <1>5 DEF order

\* Of any paths, one is tried before all the others.
LEMMA FirstExists ==
    ASSUME NEW choice \in Choice, NEW S, S \subseteq Path, S # {}
    PROVE  \E p \in S : \A q \in S \ {p} : TriedBefore(p, q, choice)
<1> DEFINE place(p) == Position(ordered_targets(choice), p)
<1> DEFINE ranks == {Rank(p, choice) : p \in S}
<1>1. ranks \subseteq Nat /\ ranks # {}
  BY PlaceFacts
<1>2. PICK r \in ranks : \A m \in ranks : r <= m
  BY Zenon, <1>1, HasLeast
<1> DEFINE best == {p \in S : Rank(p, choice) = r}
<1> DEFINE places == {place(p) : p \in best}
<1>3. places \subseteq Nat /\ places # {}
  BY PlaceFacts
<1>4. PICK i \in places : \A m \in places : i <= m
  BY Zenon, <1>3, HasLeast
<1>5. PICK p \in best : place(p) = i
  BY Zenon
<1>6. ASSUME NEW q \in S \ {p}
      PROVE  TriedBefore(p, q, choice)
  <2>1. Rank(p, choice) = r /\ r \in Nat /\ Rank(q, choice) \in Nat /\ r <= Rank(q, choice)
    BY <1>1, <1>2
  <2>2. place(p) \in Nat /\ place(q) \in Nat /\ place(p) # place(q)
    BY <1>5, <1>6, PlaceFacts
  <2>3. Rank(q, choice) = r => place(p) <= place(q)
    BY <1>4, <1>5
  <2> HIDE DEF place
  <2>4. Rank(q, choice) = r => place(p) < place(q)
    BY <2>2, <2>3
  <2> QED  BY <2>1, <2>4 DEF TriedBefore, place
<1> QED  BY <1>5, <1>6

\* The carrier is a running path that is tried before all others that run.
LEMMA CarrierFacts ==
    ASSUME NEW choice \in Choice, running \subseteq Path
    PROVE  IF running = {} THEN Carrier(choice) = NoPath
           ELSE /\ Carrier(choice) \in running
                /\ \A other \in running \ {Carrier(choice)} : TriedBefore(Carrier(choice), other, choice)
<1>1. CASE running = {}
  BY <1>1 DEF Carrier
<1>2. CASE running # {}
  <2>1. \E p \in running : \A q \in running \ {p} : TriedBefore(p, q, choice)
    BY <1>2, FirstExists
  <2> QED  BY <1>2, <2>1 DEF Carrier
<1> QED  BY <1>1, <1>2

-------------------------------------------------------------------------------
(* A confirmed selection is in force *)

\* SelectionInv holds initially.
LEMMA SelectionInit == PathInit => SelectionInv
<1> SUFFICES ASSUME PathInit
             PROVE  SelectionInv
  OBVIOUS
<1>1. request \in [Client -> [stage : {"idle", "found", "checked"}, path : Choice, set : 0 .. generation]]
  BY DEF PathInit, Choice, Idle
<1>2. selected \in [Generation -> Choice] /\ generation \in 0 .. MaxGeneration
  BY PathAssumption DEF PathInit, Choice
<1>3. /\ available = {} /\ running = {} /\ generation = 0 /\ managed = 0 /\ replacing = "no"
      /\ previous \in Choice /\ answered \in Choice /\ carrier \in Choice /\ broker \in BOOLEAN
  BY Zenon DEF PathInit, Choice
<1>4. PathTypeOK
  BY <1>1, <1>2, <1>3 DEF PathTypeOK
<1>5. SelectionCarried
  BY DEF PathInit, SelectionCarried, Idle
<1> QED  BY <1>4, <1>5 DEF SelectionInv

\* The steps that touch neither a selection nor a request.
LEMMA SelectionIdle ==
    ASSUME SelectionInv, UNCHANGED <<generation, selected, managed, replacing, previous, request, answered>>,
           available' \subseteq Path, running' \subseteq Path, carrier' \in Choice,
           broker' \in BOOLEAN, broker' => broker
    PROVE  SelectionInv'
<1>1. PathTypeOK'
  BY DEF SelectionInv, PathTypeOK
<1>2. SelectionCarried'
  BY Zenon DEF SelectionInv, SelectionCarried
<1> QED  BY Zenon, <1>1, <1>2 DEF SelectionInv

\* Every step keeps SelectionInv while requests and changes of generation do
\* not overlap.
LEMMA SelectionStep ==
    ASSUME Overlap = FALSE
    PROVE  SelectionInv /\ [PathNext]_pathVars => SelectionInv'
<1> SUFFICES ASSUME SelectionInv, [PathNext]_pathVars
             PROVE  SelectionInv'
  OBVIOUS
<1>1. /\ generation \in 0 .. MaxGeneration /\ generation \in Nat /\ MaxGeneration \in Nat
      /\ managed \in 0 .. generation /\ managed \in Nat
      /\ \A g \in Nat : g \in Generation <=> g # 0 /\ g <= MaxGeneration
  BY PathAssumption DEF SelectionInv, PathTypeOK, Generation
<1>2. /\ selected \in [Generation -> Choice] /\ previous \in Choice
      /\ running \subseteq Path /\ available \subseteq Path /\ NoPath \in Choice
  BY Zenon DEF SelectionInv, PathTypeOK, Choice
<1>3. request \in [Client -> [stage : {"idle", "found", "checked"}, path : Choice, set : 0 .. generation]]
  BY Zenon DEF SelectionInv, PathTypeOK
<1>4. PathTypeOK /\ SelectionCarried
  BY Zenon DEF SelectionInv
<1>5. CASE Forward \/ ForwardFails
  <2>1. broker /\ generation # 0
    BY Zenon, <1>4, <1>5 DEF Forward, ForwardFails, SelectionCarried
  <2>2. generation \in Generation
    BY <1>1, <2>1
  <2>3. selected[generation] \in Choice
    BY <1>2, <2>2
  <2>4. Carrier(selected[generation]) \in Choice
    BY Zenon, <1>2, <2>3, CarrierFacts DEF Choice
  <2> QED  BY Zenon, <1>4, <1>5, <2>4, SelectionIdle DEF Forward, ForwardFails, Choice, PathTypeOK
<1>6. CASE \E path \in Path : SetAvailable(path) \/ RelayStops(path)
  BY <1>4, <1>6, SelectionIdle DEF SetAvailable, RelayStops, PathTypeOK
<1>7. ASSUME NEW c \in Client, NEW path \in Choice, Find(c, path)
      PROVE  SelectionInv'
  <2>1. /\ replacing = "no" /\ managed # 0
        /\ request'[c].set = managed
        /\ \A d \in Client \ {c} : request'[d] = request[d]
    BY <1>3, <1>7 DEF Find
  <2>2. request' \in [Client -> [stage : {"idle", "found", "checked"}, path : Choice, set : 0 .. generation]]
    BY <1>1, <1>3, <1>7 DEF Find
  <2>3. PathTypeOK'
    BY Zenon, <1>4, <1>7, <2>2 DEF Find, PathTypeOK
  <2>4. SelectionCarried'
    BY Zenon, <1>4, <1>7, <2>1 DEF Find, SelectionCarried
  <2> QED  BY Zenon, <2>3, <2>4 DEF SelectionInv
<1>8. ASSUME NEW c \in Client, Check(c)
      PROVE  SelectionInv'
  <2>1. /\ request[c].stage # "idle" /\ request[c] # Idle
        /\ request'[c].stage # "idle" => request'[c].set = request[c].set
        /\ \A d \in Client \ {c} : request'[d] = request[d]
    BY <1>3, <1>8 DEF Check, Idle
  <2>2. request' \in [Client -> [stage : {"idle", "found", "checked"}, path : Choice, set : 0 .. generation]]
    BY <1>1, <1>2, <1>3, <1>8 DEF Check, Idle
  <2>3. PathTypeOK'
    BY Zenon, <1>4, <1>8, <2>2 DEF Check, PathTypeOK
  <2>4. SelectionCarried'
    BY ZenonT(30), <1>4, <1>8, <2>1 DEF Check, SelectionCarried
  <2> QED  BY Zenon, <2>3, <2>4 DEF SelectionInv
<1>9. ASSUME NEW c \in Client, Select(c)
      PROVE  SelectionInv'
  <2>1. request[c].stage # "idle" /\ request[c] # Idle /\ request[c].path \in Choice
    <3>1. request[c].stage = "checked"
      BY Zenon, <1>9 DEF Select
    <3>2. Idle.stage = "idle"
      BY DEF Idle
    <3>3. request[c].path \in Choice
      BY <1>3
    <3> QED  BY Zenon, <3>1, <3>2, <3>3
  <2>2. request[c].set = managed /\ managed = generation /\ managed # 0 /\ replacing = "no"
    BY Zenon, <1>4, <2>1 DEF SelectionCarried
  <2>3. managed \in Generation /\ ~(managed > generation)
    BY <1>1, <2>2
  <2>4. /\ selected' \in [Generation -> Choice] /\ selected'[managed] = answered'
        /\ \A g \in Generation \ {managed} : selected'[g] = selected[g]
    BY <1>2, <1>9, <2>1, <2>2, <2>3 DEF Select
  <2>5. /\ request' \in [Client -> [stage : {"idle", "found", "checked"}, path : Choice, set : 0 .. generation]]
        /\ request'[c].stage = "idle"
        /\ \A d \in Client \ {c} : request'[d] = request[d]
    BY <1>1, <1>2, <1>3, <1>9 DEF Select, Idle
  <2>6. PathTypeOK'
    BY Zenon, <1>4, <1>9, <2>1, <2>4, <2>5 DEF Select, PathTypeOK
  <2>7. SelectionCarried'
    BY ZenonT(30), <1>4, <1>9, <2>2, <2>3, <2>4, <2>5 DEF Select, SelectionCarried
  <2> QED  BY Zenon, <2>6, <2>7 DEF SelectionInv
<1>10. CASE StartGeneration
  <2>1. /\ managed = generation /\ replacing' = "read" /\ generation' = generation + 1
        /\ \A c \in Client : request[c] = Idle
    BY Zenon, <1>4, <1>10 DEF StartGeneration, SelectionCarried
  <2>2. /\ generation + 1 \in 0 .. MaxGeneration /\ generation + 1 \in Generation
        /\ generation + 1 > generation /\ generation + 1 # 0
        /\ managed \in 0 .. generation + 1 /\ \A n \in 0 .. generation : n \in 0 .. generation + 1
    BY <1>1, <1>10 DEF StartGeneration
  <2>3. \A g \in Generation : g > generation + 1 => g > generation
    BY <1>1 DEF Generation
  <2>4. request \in [Client -> [stage : {"idle", "found", "checked"}, path : Choice, set : 0 .. generation + 1]]
    BY <1>3, <2>2
  <2>5. PathTypeOK'
    BY Zenon, <1>4, <1>10, <2>1, <2>2, <2>4 DEF StartGeneration, PathTypeOK
  <2>6. selected[generation + 1] = NoPath
    BY Zenon, <1>4, <2>2 DEF SelectionCarried
  <2>7. SelectionCarried'
    BY ZenonT(30), <1>4, <1>10, <2>1, <2>2, <2>3, <2>6 DEF StartGeneration, SelectionCarried
  <2> QED  BY Zenon, <2>5, <2>7 DEF SelectionInv
<1>11. CASE ReadPrevious
  <2>1. \A c \in Client : request[c].stage # "checked"
    BY <1>4, <1>11 DEF ReadPrevious, SelectionCarried, Idle
  <2>2. previous' = answered
    BY Zenon, <1>4, <1>11, <2>1 DEF ReadPrevious, SelectionCarried
  <2>3. PathTypeOK'
    BY Zenon, <1>4, <1>11, <2>2 DEF ReadPrevious, PathTypeOK
  <2>4. SelectionCarried'
    BY Zenon, <1>4, <1>11, <2>2 DEF ReadPrevious, SelectionCarried
  <2> QED  BY Zenon, <2>3, <2>4 DEF SelectionInv
<1>12. CASE CarryOver
  <2>1. generation = managed + 1 /\ previous = answered /\ selected[generation] = NoPath
    BY Zenon, <1>4, <1>12 DEF CarryOver, SelectionCarried
  <2>2. /\ generation \in Generation /\ managed # generation /\ ~(generation > generation)
        /\ managed # 0 => managed \in Generation
    BY <1>1, <2>1
  <2>3. /\ selected' \in [Generation -> Choice] /\ selected'[generation] = answered
        /\ \A g \in Generation \ {generation} : selected'[g] = selected[g]
    BY <1>2, <1>12, <2>1, <2>2 DEF CarryOver
  <2>4. PathTypeOK'
    BY Zenon, <1>4, <1>12, <2>3 DEF CarryOver, PathTypeOK
  <2>5. SelectionCarried'
    BY Zenon, <1>4, <1>12, <2>1, <2>2, <2>3 DEF CarryOver, SelectionCarried
  <2> QED  BY Zenon, <2>4, <2>5 DEF SelectionInv
<1>13. CASE Publish
  <2>1. generation = managed + 1 /\ selected[generation] = answered /\ \A c \in Client : request[c] = Idle
    BY Zenon, <1>4, <1>13 DEF Publish, SelectionCarried
  <2>2. generation # 0 /\ generation \in 0 .. generation
    BY <1>1, <2>1
  <2>3. \A c \in Client : request[c].stage = "idle"
    BY <2>1 DEF Idle
  <2>4. PathTypeOK'
    BY Zenon, <1>2, <1>4, <1>13, <2>2 DEF Publish, PathTypeOK
  <2>5. SelectionCarried'
    BY Zenon, <1>4, <1>13, <2>1, <2>2, <2>3 DEF Publish, SelectionCarried
  <2> QED  BY Zenon, <2>4, <2>5 DEF SelectionInv
<1>14. CASE UNCHANGED pathVars
  <2>1. PathTypeOK'
    BY Zenon, <1>4, <1>14 DEF pathVars, PathTypeOK
  <2>2. SelectionCarried'
    BY Zenon, <1>4, <1>14 DEF pathVars, SelectionCarried
  <2> QED  BY Zenon, <2>1, <2>2 DEF SelectionInv
<1> QED
  BY Zenon, <1>5, <1>6, <1>7, <1>8, <1>9, <1>10, <1>11, <1>12, <1>13, <1>14 DEF PathNext

\* A selection the console has confirmed is the one the broker uses once no
\* request and no change of generation is under way, when the two do not
\* overlap: across any number of generations (management.rs:64, 171).
THEOREM AnsweredSelectionInForce ==
    ASSUME Overlap = FALSE
    PROVE  PathSpec => []AnsweredInForce
<1>1. SelectionInv /\ [PathNext]_pathVars => SelectionInv'
  BY Zenon, SelectionStep
<1>2. SelectionInv => AnsweredInForce
  BY DEF SelectionInv, SelectionCarried, AnsweredInForce, Settled
<1> QED  BY <1>1, <1>2, SelectionInit, PTL DEF PathSpec

-------------------------------------------------------------------------------
(* The carrier is healthy, and the console shows it *)

\* What PathTypeOK says of the paths is kept by every step, overlapping or not.
PathsKnown == available \subseteq Path /\ running \subseteq Path

LEMMA PathsKnownAlways == PathSpec => []PathsKnown
<1>1. PathInit => PathsKnown
  BY DEF PathInit, PathsKnown
<1>2. PathsKnown /\ [PathNext]_pathVars => PathsKnown'
  <2> SUFFICES ASSUME PathsKnown, [PathNext]_pathVars PROVE PathsKnown'
    OBVIOUS
  <2>1. CASE \E path \in Path : SetAvailable(path) \/ RelayStops(path)
    BY <2>1 DEF PathsKnown, SetAvailable, RelayStops
  <2>2. CASE StartGeneration
    BY <2>2 DEF PathsKnown, StartGeneration
  <2>3. CASE UNCHANGED <<available, running>>
    BY Zenon, <2>3 DEF PathsKnown
  <2>4. ASSUME Forward \/ ForwardFails \/ ReadPrevious \/ CarryOver \/ Publish \/ UNCHANGED pathVars
        PROVE  UNCHANGED <<available, running>>
    BY Zenon, <2>4 DEF Forward, ForwardFails, ReadPrevious, CarryOver, Publish, pathVars
  <2>5. ASSUME NEW c \in Client, Check(c) \/ Select(c) \/ \E path \in Choice : Find(c, path)
        PROVE  UNCHANGED <<available, running>>
    BY Zenon, <2>5 DEF Check, Select, Find
  <2> QED  BY Zenon, <2>1, <2>2, <2>3, <2>4, <2>5 DEF PathNext
<1> QED  BY <1>1, <1>2, PTL DEF PathSpec

\* A packet goes to a healthy path whenever the relay of one is running, and
\* to the selected one if that is healthy, for any number of paths and in
\* whatever order they are configured (broker.rs:55, 174).
THEOREM CarrierIsHealthy == PathSpec => []HealthyCarrier
<1>1. PathsKnown => HealthyCarrier
  <2> SUFFICES ASSUME PathsKnown, NEW choice \in Choice
               PROVE  /\ Range(ordered_targets(choice)) = Path /\ IsInjective(ordered_targets(choice))
                      /\ available \cap running # {} => Carrier(choice) \in available
                      /\ choice \in available \cap running => Carrier(choice) = choice
    BY DEF HealthyCarrier
  <2>1. ASSUME NEW healthy \in available \cap running
        PROVE  /\ Carrier(choice) \in available
               /\ healthy = choice => Carrier(choice) = choice
    <3> DEFINE c == Carrier(choice)
    <3>1. c \in running /\ \A other \in running \ {c} : TriedBefore(c, other, choice)
      BY <2>1, CarrierFacts DEF PathsKnown
    <3>2. c = healthy \/ TriedBefore(c, healthy, choice)
      BY <2>1, <3>1
    <3> HIDE DEF c
    <3>3. c # healthy => Rank(c, choice) <= Rank(healthy, choice)
      BY <3>2 DEF TriedBefore, Rank
    <3>4. Rank(healthy, choice) = IF healthy = choice THEN 0 ELSE 1
      BY <2>1 DEF Rank
    <3> QED  BY <2>1, <3>3, <3>4 DEF Rank, c
  <2> QED  BY <2>1, OrderFacts
<1> QED  BY <1>1, PathsKnownAlways, PTL

\* The path the console shows as active is the one that carries the packets,
\* while every available path is running and the selection, if there is one,
\* is healthy (management.rs:128, broker.rs:55).
THEOREM ActiveIsCarrier == PathSpec => []ActiveShownWhenHealthy
<1>1. PathsKnown => ActiveShownWhenHealthy
  <2> SUFFICES ASSUME PathsKnown, available \subseteq running, NEW choice \in available \cup {NoPath},
                      active_path(choice) # NoPath
               PROVE  Carrier(choice) = active_path(choice)
    BY DEF ActiveShownWhenHealthy
  <2> DEFINE c == Carrier(choice)
  <2> DEFINE a == active_path(choice)
  <2>1. choice \in Choice /\ NoPath \notin available
    BY PathAssumption DEF PathsKnown, Choice
  <2>2. available # {} => \E p \in available :
                             \A other \in available : Position(Targets, p) <= Position(Targets, other)
    <3> SUFFICES ASSUME available # {}
                 PROVE  \E p \in available :
                           \A other \in available : Position(Targets, p) <= Position(Targets, other)
      OBVIOUS
    <3> DEFINE places == {Position(Targets, p) : p \in available}
    <3>1. places \subseteq Nat /\ places # {}
      BY TargetFacts DEF PathsKnown
    <3>2. PICK i \in places : \A m \in places : i <= m
      BY Zenon, <3>1, HasLeast
    <3> QED  BY <3>2
  <2>3. a \in available /\ (choice = NoPath => \A other \in available : Position(Targets, a) <= Position(Targets, other))
    BY <2>1, <2>2 DEF active_path, FirstAvailable
  <2>4. a \in running
    BY <2>3
  <2>5. c \in running /\ \A other \in running \ {c} : TriedBefore(c, other, choice)
    BY <2>1, <2>4, CarrierFacts DEF PathsKnown
  <2>6. choice # NoPath => a = choice
    BY DEF active_path
  <2> HIDE DEF c, a
  <2>7. SUFFICES ASSUME c # a
                 PROVE  FALSE
    BY DEF c, a
  <2>8. TriedBefore(c, a, choice)
    BY <2>4, <2>5, <2>7
  <2>9. Rank(a, choice) = IF choice = NoPath THEN 1 ELSE 0
    BY <2>3, <2>6, <2>1 DEF Rank
  <2>10. c # choice
    BY <2>5, <2>6, <2>7, PathAssumption DEF PathsKnown
  <2>11. choice = NoPath /\ c \in available /\ Rank(c, choice) = 1
    BY <2>8, <2>9, <2>10 DEF TriedBefore, Rank
  <2>12. Position(Targets, c) < Position(Targets, a)
    BY <2>8, <2>9, <2>11 DEF TriedBefore, ordered_targets
  <2>13. Position(Targets, a) <= Position(Targets, c) /\ Position(Targets, a) \in Nat /\ Position(Targets, c) \in Nat
    BY <2>3, <2>11, TargetFacts DEF PathsKnown
  <2> QED  BY <2>12, <2>13
<1> QED  BY <1>1, PathsKnownAlways, PTL

===============================================================================
