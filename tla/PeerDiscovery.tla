----------------------------- MODULE PeerDiscovery -----------------------------
(***************************************************************************)
(* How nodes find each other's endpoints: the discovery rounds of          *)
(* run_discovery_loop (easytier.rs) over trackers and the DHT, the LAN     *)
(* announcements of discovery/lan.rs, and the relay's candidate arm, which *)
(* turns candidates into EasyTier connectors.  Hashes and announced names  *)
(* change every period of UTC; each node reads its own clock.              *)
(*                                                                         *)
(* A hash of (key, period) is the pair itself.  A tracker or the DHT is a  *)
(* set of registrations.  Requests and answers may be lost, MaxLost times; *)
(* a tracker forgets registrations that are no longer refreshed.  A LAN    *)
(* announcement stays in the air: it may arrive late, repeatedly or never. *)
(* EasyTier's add_connector_by_url cannot fail, so a URL that is inserted  *)
(* has its connector.                                                      *)
(***************************************************************************)
EXTENDS Naturals, Sequences, Functions

CONSTANTS
    Node,
    PeersOf,         \* node -> its peers in the order of the configuration
    PeriodSeconds,   \* PEER_ID_PERIOD_SECONDS
    Setting,         \* what configurations and environments there are
    ChannelSize,     \* capacity of the candidate channel
    MaxTime          \* bound on UTC

ASSUME DiscoveryAssumption ==
    /\ PeersOf \in [Node -> Seq(Node)]
    /\ \A n \in Node : IsInjective(PeersOf[n]) /\ Range(PeersOf[n]) = Node \ {n}
    /\ PeriodSeconds \in Nat \ {0}
    /\ Setting \subseteq [skew : [Node -> Nat], private : SUBSET Node,
                          provider : SUBSET {"tracker", "dht"}, on_lan : BOOLEAN,
                          max_lost : Nat, start : 0 .. MaxTime]
    /\ ChannelSize \in Nat \ {0}
    /\ MaxTime \in Nat

VARIABLES
    setting,            \* the one this behaviour has
    now,                \* UTC
    registered,         \* what trackers and the DHT know
    todo,               \* node -> queries left in its round, << >> between rounds
    in_round,           \* node -> a round has begun
    found,              \* node -> candidates of the round so far
    stun_known,         \* node -> local_public_ips holds its address
    named,              \* node -> period read for an announcement's node_id, or none
    air,                \* LAN announcements
    channel,            \* node -> batches of candidates for the relay
    candidate_urls,     \* node -> candidates that have a connector
    lost,               \* requests and answers lost so far
    blind               \* history: nodes that ended a round without STUN

discoveryVars == <<setting, now, registered, todo, in_round, found, stun_known, named, air,
                   channel, candidate_urls, lost, blind>>
roundVars == <<registered, todo, in_round, found, stun_known, lost, blind>>
lanVars == <<named, air>>

Skew == setting.skew           \* node -> seconds its clock is ahead
Private == setting.private     \* nodes the providers see at a private address
Provider == setting.provider   \* the providers that are configured
OnLan == setting.on_lan        \* the nodes share a LAN and announce on it
MaxLost == setting.max_lost    \* bound on lost requests and answers

None == {}
Endpoint == [node : Node, scope : {"public", "private", "lan"}]
Query == [provider : {"tracker", "dht"}, period : Nat, key : Node]

peer_id_period(seconds) == seconds \div PeriodSeconds

\* Mutant: only the current period is in use.
current_period_only(seconds) == <<peer_id_period(seconds), peer_id_period(seconds)>>

\* The current period and the one before it, saturating at zero.
active_peer_id_periods(seconds) ==
    LET current == peer_id_period(seconds)
    IN  <<current, IF current = 0 THEN 0 ELSE current - 1>>

Clock(n) == now + Skew[n]
ActivePeriods(n) == Range(active_peer_id_periods(Clock(n)))

\* The endpoint a provider registers for a node.
SeenAt(n) == [node |-> n, scope |-> IF n \in Private THEN "private" ELSE "public"]

\* Types, and that a provider has a node's endpoint only under that node's own
\* hash and makes nobody connect to a private one (easytier.rs:533, 572).
DiscoveryTypeOK ==
    /\ setting \in Setting
    /\ now \in setting.start .. MaxTime
    /\ registered \subseteq [provider : Provider, key : Node, period : Nat, node : Node]
    /\ \A r \in registered : r.key = r.node
    /\ todo \in [Node -> Seq(Query)]
    /\ in_round \in [Node -> BOOLEAN]
    /\ \A n \in Node : found[n] \subseteq Endpoint
    /\ stun_known \in [Node -> BOOLEAN]
    /\ \A n \in Node : named[n] \subseteq Nat /\ \A p, q \in named[n] : p = q
    /\ air \subseteq [node : Node, id : Nat, period : Nat]
    /\ \A n \in Node :
          /\ channel[n] \in Seq(SUBSET Endpoint)
          /\ Len(channel[n]) <= ChannelSize
          /\ \A e \in candidate_urls[n] : e \in Endpoint /\ e.scope # "private"
    /\ lost \in 0 .. MaxLost
    /\ blind \subseteq Node

DiscoveryInit ==
    /\ setting \in Setting
    /\ now = setting.start
    /\ registered = {}
    /\ todo = [n \in Node |-> <<>>]
    /\ in_round = [n \in Node |-> FALSE]
    /\ found = [n \in Node |-> {}]
    /\ stun_known = [n \in Node |-> FALSE]
    /\ named = [n \in Node |-> None]
    /\ air = {}
    /\ channel = [n \in Node |-> <<>>]
    /\ candidate_urls = [n \in Node |-> {}]
    /\ lost = 0
    /\ blind = {}

-------------------------------------------------------------------------------
QueriesAt(provider, period, keys) ==
    [i \in DOMAIN keys |-> [provider |-> provider, period |-> period, key |-> keys[i]]]
QueriesTo(provider, periods, keys) ==
    IF provider \notin Provider THEN <<>>
    ELSE QueriesAt(provider, periods[1], keys) \o QueriesAt(provider, periods[2], keys)

\* The queries of a round in the order of discover_candidates: for each active
\* period the node's own hash, then the peers'; then the DHT, peer by peer.
Queries(n, periods) ==
    QueriesTo("tracker", periods, <<n>> \o PeersOf[n]) \o QueriesTo("dht", periods, PeersOf[n])

\* public_addresses fails only when no STUN server answers.
public_addresses(stun) ==
    IF stun THEN UNCHANGED lost ELSE lost < MaxLost /\ lost' = lost + 1

\* discover_candidates, until its first query: STUN, then the active periods.
BeginRound(n, stun) ==
    /\ ~in_round[n]
    /\ Provider # {}
    /\ public_addresses(stun)
    /\ stun_known' = [stun_known EXCEPT ![n] = @ \/ stun]
    /\ in_round' = [in_round EXCEPT ![n] = TRUE]
    /\ todo' = [todo EXCEPT ![n] =
          Queries(n, active_peer_id_periods(Clock(n)))]
    /\ found' = [found EXCEPT ![n] = {}]
    /\ UNCHANGED <<setting, now, registered, blind, lanVars, channel, candidate_urls>>

\* What a request does at the provider.  A tracker registers the node under
\* its own hash; a peer's hash is asked with `stopped`, which removes it.  The
\* DHT is told the node's own hash with every look-up.
Request(n, q) ==
    LET entry(key) == [provider |-> q.provider, key |-> key, period |-> q.period, node |-> n]
    IN  IF q.provider = "dht" \/ q.key = n THEN registered \cup {entry(n)}
        ELSE registered \ {entry(q.key)}

Answer(q) ==
    {SeenAt(r.node) : r \in {r \in registered :
        r.provider = q.provider /\ r.key = q.key /\ r.period = q.period}}

\* A query is answered, its answer is lost, or it never gets there.  The DHT is
\* announced to first, and asked also when that fails.
Outcome == {"answered", "unheard", "unsent", "unannounced"}

\* One query of the round.
Ask(n, outcome) ==
    /\ todo[n] # <<>>
    /\ outcome # "answered" => lost < MaxLost
    /\ outcome = "unannounced" => Head(todo[n]).provider = "dht"
    /\ lost' = IF outcome = "answered" THEN lost ELSE lost + 1
    /\ todo' = [todo EXCEPT ![n] = Tail(@)]
    /\ registered' = IF outcome \in {"answered", "unheard"}
                     THEN Request(n, Head(todo[n])) ELSE registered
    /\ found' = [found EXCEPT ![n] = IF outcome \in {"answered", "unannounced"}
                                     THEN @ \cup Answer(Head(todo[n])) ELSE @]
    /\ UNCHANGED <<setting, now, in_round, stun_known, blind, lanVars, channel, candidate_urls>>

\* Mutant: a node does not know its own endpoint.
never_local(n, endpoint) == FALSE

is_local_candidate(n, endpoint) == stun_known[n] /\ endpoint = SeenAt(n)

is_public_candidate(endpoint) == endpoint.scope = "public"

\* The two filters at the end of discover_candidates.
retain_candidates(n, endpoints) ==
    {e \in endpoints : ~is_local_candidate(n, e) /\ is_public_candidate(e)}

\* The end of the round: send waits for room in the channel.
EndRound(n) ==
    /\ in_round[n]
    /\ todo[n] = <<>>
    /\ Len(channel[n]) < ChannelSize
    /\ channel' = [channel EXCEPT ![n] = Append(@, retain_candidates(n, found[n]))]
    /\ in_round' = [in_round EXCEPT ![n] = FALSE]
    /\ found' = [found EXCEPT ![n] = {}]
    /\ blind' = IF stun_known[n] THEN blind ELSE blind \cup {n}
    /\ UNCHANGED <<setting, now, registered, todo, stun_known, lost, lanVars, candidate_urls>>

-------------------------------------------------------------------------------
\* The LAN loop reads the clock for the node_id, and again for the period.
ReadName(n) ==
    /\ OnLan
    /\ named[n] = None
    /\ named' = [named EXCEPT ![n] = {peer_id_period(Clock(n))}]
    /\ UNCHANGED <<setting, now, roundVars, air, channel, candidate_urls>>

Announce(n) ==
    /\ named[n] # None
    /\ named' = [named EXCEPT ![n] = None]
    /\ air' = air \cup {[node |-> n, id |-> id, period |-> peer_id_period(Clock(n))] :
                            id \in named[n]}
    /\ UNCHANGED <<setting, now, roundVars, channel, candidate_urls>>

\* receive_candidates takes an announcement of an active period, unless its
\* node_id is the one this node has in the period the announcement states.
accepts(n, a) ==
    /\ a.period \in ActivePeriods(n)
    /\ ~(a.node = n /\ a.id = a.period)

\* The nodes a window of 500 ms may hear an acceptable announcement of.
Audible(n) == {a.node : a \in {a \in air : accepts(n, a)}}

\* The window in which announcements of the nodes of H arrive.
Receive(n, H) ==
    /\ named[n] = None
    /\ H # {}
    /\ H \subseteq Audible(n)
    /\ Len(channel[n]) < ChannelSize
    /\ channel' = [channel EXCEPT ![n] =
          Append(@, {[node |-> m, scope |-> "lan"] : m \in H})]
    /\ UNCHANGED <<setting, now, roundVars, lanVars, candidate_urls>>

\* The candidate arm of run_relay: a connector for each new URL.
TakeCandidates(n) ==
    /\ channel[n] # <<>>
    /\ channel' = [channel EXCEPT ![n] = Tail(@)]
    /\ candidate_urls' = [candidate_urls EXCEPT ![n] = @ \cup Head(channel[n])]
    /\ UNCHANGED <<setting, now, roundVars, lanVars>>

-------------------------------------------------------------------------------
\* A provider drops what its node no longer refreshes.
Forget(r) ==
    /\ r \in registered
    /\ r.period \notin ActivePeriods(r.node)
    /\ registered' = registered \ {r}
    /\ UNCHANGED <<setting, now, todo, in_round, found, stun_known, lost, blind,
                   lanVars, channel, candidate_urls>>

DiscoveryTick ==
    /\ now < MaxTime
    /\ now' = now + 1
    /\ UNCHANGED <<setting, roundVars, lanVars, channel, candidate_urls>>

DiscoveryNext ==
    \/ \E n \in Node : \E stun \in BOOLEAN : BeginRound(n, stun)
    \/ \E n \in Node : \E outcome \in Outcome : Ask(n, outcome)
    \/ \E n \in Node : EndRound(n)
    \/ \E n \in Node : ReadName(n)
    \/ \E n \in Node : Announce(n)
    \/ \E n \in Node : \E H \in SUBSET Node : Receive(n, H)
    \/ \E n \in Node : TakeCandidates(n)
    \/ \E r \in registered : Forget(r)
    \/ DiscoveryTick

DiscoverySpec == DiscoveryInit /\ [][DiscoveryNext]_discoveryVars

\* The loops run; losses end; an announcement that keeps being made is heard.
DiscoveryFairness ==
    \A n \in Node :
        /\ WF_discoveryVars(\/ \E stun \in BOOLEAN : BeginRound(n, stun)
                            \/ \E outcome \in Outcome : Ask(n, outcome))
        /\ WF_discoveryVars(ReadName(n) \/ Announce(n))
        /\ WF_discoveryVars(TakeCandidates(n))
        /\ SF_discoveryVars(EndRound(n) \/ Receive(n, Audible(n)))

-------------------------------------------------------------------------------
\* A node connects to itself only through a round that ended before STUN had
\* told it its address, or through an announcement whose two readings of the
\* clock fell into different periods (easytier.rs:567, lan.rs:61-65).
SelfCandidateExplained ==
    /\ DiscoveryTypeOK
    /\ \A n \in Node :
          /\ SeenAt(n) \in candidate_urls[n] => n \in blind
          /\ [node |-> n, scope |-> "lan"] \in candidate_urls[n] =>
                \E a \in air : a.node = n /\ a.id # a.period

\* Why that holds, as an inductive invariant: what a node is about to connect to
\* is explained as well, and its queries go to the configured providers.
Explained(n, e) ==
    /\ e.scope # "private"
    /\ e = SeenAt(n) => n \in blind
    /\ e = [node |-> n, scope |-> "lan"] => \E a \in air : a.node = n /\ a.id # a.period

DiscoveryInv ==
    /\ SelfCandidateExplained
    /\ \A n \in Node : todo[n] \in Seq([provider : Provider, period : Nat, key : Node])
    /\ found \in [Node -> SUBSET Endpoint]
    /\ named \in [Node -> SUBSET Nat]
    /\ channel \in [Node -> Seq(SUBSET Endpoint)]
    /\ candidate_urls \in [Node -> SUBSET Endpoint]
    /\ \A n \in Node : \A i \in DOMAIN channel[n] : \A e \in channel[n][i] : Explained(n, e)

\* Any two nodes whose clocks are at most one period apart get a connector to
\* each other's public endpoint, also when rounds straddle a change of period
\* and answers are lost.  Of two such nodes on one LAN, at least one gets a
\* connector to the other: the one whose clock is behind rejects the other's
\* period (identity.rs:29, easytier.rs:506, lan.rs:164).
Rendezvous ==
    <>(\A n \in Node : \A m \in Node \ {n} :
          /\ Provider # {} /\ m \notin Private => SeenAt(m) \in candidate_urls[n]
          /\ OnLan => \/ [node |-> m, scope |-> "lan"] \in candidate_urls[n]
                      \/ [node |-> n, scope |-> "lan"] \in candidate_urls[m])
===============================================================================
