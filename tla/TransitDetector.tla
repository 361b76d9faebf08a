---------------------------- MODULE TransitDetector ----------------------------
(***************************************************************************)
(* TransitDetector::observe (shortcut/transit.rs) and the longest-prefix   *)
(* lookup it uses (wireguard.rs): which forwarded packets are reported as  *)
(* an opportunity for a shortcut, and how often.                           *)
(*                                                                         *)
(* An address has Bits bits.  The kernel gives every prefix to at most one *)
(* peer.  The clock is the system's: it may be set back MaxSteps times.    *)
(***************************************************************************)
EXTENDS Integers, Sequences, FiniteSetsExt

CONSTANTS
    NoPeer,        \* Option::None
    Peers,         \* public keys in the order `wg show` lists them
    Bits,          \* length of an address
    Prefix,        \* prefixes that are in use: [base, len]
    Source, Destination,   \* addresses of packets
    Fresh,         \* AUTHENTICATED_PATH_SECONDS
    Suppression,   \* SUPPRESSION_SECONDS
    MaxClock,        \* bound on the clock
    MaxSteps       \* bound on steps back

PeerKey == Range(Peers)
Address == 0 .. 2 ^ Bits - 1

ASSUME TransitAssumption ==
    /\ Peers \in Seq(PeerKey) /\ IsInjective(Peers)
    /\ NoPeer \notin PeerKey
    /\ Bits \in Nat /\ Fresh \in Nat /\ Suppression \in Nat \ {0}
    /\ Prefix \subseteq [base : Address, len : 0 .. Bits]
    /\ Source \subseteq Address /\ Destination \subseteq Address
    /\ MaxClock \in Nat /\ MaxSteps \in Nat

NoReport == [upstream |-> NoPeer]

VARIABLES
    clock,
    steps,              \* how often the clock was set back
    owner,              \* prefix -> the peer whose allowed_ips has it, or NoPeer
    latest_handshake,   \* peer -> time, 0 for never
    observed,           \* flow -> time of its last report
    report,             \* the last opportunity returned
    reported            \* history: flow -> time of its last report

transitVars == <<clock, steps, owner, latest_handshake, observed, report, reported>>

Flow == [upstream : PeerKey, downstream : PeerKey, source : Source, destination : Destination]

TransitInit ==
    /\ clock = 1
    /\ steps = 0
    /\ owner \in [Prefix -> PeerKey \cup {NoPeer}]
    /\ latest_handshake = [p \in PeerKey |-> 0]
    /\ observed = [f \in {} |-> 0]
    /\ report = NoReport
    /\ reported = [f \in {} |-> 0]

-------------------------------------------------------------------------------
contains(network, address) ==
    LET size == 2 ^ (Bits - network.len)
    IN  network.base \div size = address \div size

\* Lengths of a peer's prefixes that contain the address.
Matching(p, address) ==
    {x.len : x \in {x \in Prefix : owner[x] = p /\ contains(x, address)}}

Listed(p) == CHOOSE i \in DOMAIN Peers : Peers[i] = p

\* Peers other than the excluded one with a prefix that contains the address.
Candidates(address, exclude) == {p \in PeerKey \ {exclude} : Matching(p, address) # {}}

\* Mutant: the last peer that matches at all.
last_matching_prefix(address, exclude) ==
    LET matching == Candidates(address, exclude)
    IN  IF matching = {} THEN NoPeer
        ELSE CHOOSE p \in matching : \A q \in matching : Listed(q) <= Listed(p)

\* longest_matching_prefix: max_by_key returns the last of equal maxima.
longest_matching_prefix(address, exclude) ==
    LET matching == Candidates(address, exclude)
        longest == {p \in matching : \A q \in matching :
                       Max(Matching(q, address)) <= Max(Matching(p, address))}
    IN  IF longest = {} THEN NoPeer
        ELSE CHOOSE p \in longest : \A q \in longest : Listed(q) <= Listed(p)

\* saturating_sub
Elapsed(since) == IF clock >= since THEN clock - since ELSE 0

handshake_is_fresh(p) == latest_handshake[p] # 0 /\ Elapsed(latest_handshake[p]) <= Fresh

Suppressed(f) == f \in DOMAIN observed /\ Elapsed(observed[f]) < Suppression

\* Mutant: a report makes room for itself only.
retain_newest(f) == [g \in {f} |-> clock]

\* insert, then retain.
Observed(f) ==
    [g \in {f} \cup {g \in DOMAIN observed : Elapsed(observed[g]) < Suppression} |->
        IF g = f THEN clock ELSE observed[g]]

\* A packet came in from a peer, over the base interface or over a shortcut,
\* and is forwarded between two live peers.
Forwarded(path, upstream, downstream) ==
    /\ path = "base" => handshake_is_fresh(upstream)
    /\ downstream # NoPeer
    /\ downstream # upstream
    /\ handshake_is_fresh(downstream)

\* Mutant: a suppressed packet extends the suppression of its flow.
ObserveRefreshes(path, upstream, source, destination) ==
    LET downstream == longest_matching_prefix(destination, upstream)
        flow == [upstream |-> upstream, downstream |-> downstream,
                 source |-> source, destination |-> destination]
    IN  /\ Forwarded(path, upstream, downstream)
        /\ observed' = Observed(flow)
        /\ IF Suppressed(flow)
             THEN UNCHANGED <<report, reported>>
             ELSE /\ report' = flow
                  /\ reported' = [f \in DOMAIN reported \cup {flow} |->
                                     IF f = flow THEN clock ELSE reported[f]]
        /\ UNCHANGED <<clock, steps, owner, latest_handshake>>

\* observe, when it returns an opportunity; otherwise it changes nothing.
Observe(path, upstream, source, destination) ==
    LET downstream == longest_matching_prefix(destination, upstream)
        flow == [upstream |-> upstream, downstream |-> downstream,
                 source |-> source, destination |-> destination]
    IN  /\ Forwarded(path, upstream, downstream)
        /\ ~Suppressed(flow)
        /\ observed' = Observed(flow)
        /\ report' = flow
        /\ reported' = [f \in DOMAIN reported \cup {flow} |->
                           IF f = flow THEN clock ELSE reported[f]]
        /\ UNCHANGED <<clock, steps, owner, latest_handshake>>

\* A handshake of the base interface.
Handshake(p) ==
    /\ latest_handshake' = [latest_handshake EXCEPT ![p] = clock]
    /\ UNCHANGED <<clock, steps, owner, observed, report, reported>>

ClockTick ==
    /\ clock < MaxClock
    /\ clock' = clock + 1
    /\ UNCHANGED <<steps, owner, latest_handshake, observed, report, reported>>

\* The system clock is set back.
StepBack(t) ==
    /\ steps < MaxSteps
    /\ t < clock
    /\ steps' = steps + 1
    /\ clock' = t
    /\ UNCHANGED <<owner, latest_handshake, observed, report, reported>>

TransitNext ==
    \/ \E path \in {"base", "shortcut"} : \E upstream \in PeerKey :
          \E source \in Source, destination \in Destination :
              Observe(path, upstream, source, destination)
    \/ \E p \in PeerKey : Handshake(p)
    \/ ClockTick
    \/ \E t \in 1 .. MaxClock : StepBack(t)

TransitSpec == TransitInit /\ [][TransitNext]_transitVars

-------------------------------------------------------------------------------
\* No flow is reported twice within the suppression time, although reports of
\* other flows clear the map of old entries in between, as long as the clock
\* is not set back (transit.rs:85-93).
OncePerWindow ==
    [][\A f \in DOMAIN reported :
          steps = 0 /\ reported'[f] # reported[f] =>
              reported'[f] >= reported[f] + Suppression]_transitVars

\* However the clock is set, a flow is never suppressed past the suppression
\* time of its last report: the packets it suppresses do not extend it.  As long
\* as the clock is not set back, the map holds only the flows of one
\* suppression time before the last report (transit.rs:85-92).
SuppressionEnds ==
    /\ \A f \in Flow : Suppressed(f) =>
          /\ f \in DOMAIN reported
          /\ clock < reported[f] + Suppression
    /\ steps = 0 => \A f, g \in DOMAIN observed : observed[f] - observed[g] < Suppression

\* The opportunity's downstream peer is one whose prefixes match at least as
\* closely as those of every other peer but the upstream (wireguard.rs:81).
DownstreamIsLongest ==
    report # NoReport =>
        \E x \in Prefix :
            /\ owner[x] = report.downstream
            /\ contains(x, report.destination)
            /\ \A y \in Prefix : owner[y] \notin {NoPeer, report.upstream}
                                 /\ contains(y, report.destination) => y.len <= x.len

\* Why they hold, as an inductive invariant: what the map holds is what was
\* reported, and while the clock is not set back it forgets only what is old.
TransitInv ==
    /\ clock \in Nat /\ steps \in Nat
    /\ owner \in [Prefix -> PeerKey \cup {NoPeer}]
    /\ DOMAIN observed \subseteq DOMAIN reported
    /\ \A f \in DOMAIN reported : reported[f] \in Nat
    /\ \A f \in DOMAIN observed : observed[f] = reported[f]
    /\ steps = 0 =>
          /\ \A f \in DOMAIN reported :
                /\ reported[f] <= clock
                /\ f \notin DOMAIN observed => reported[f] + Suppression <= clock
          /\ \A f, g \in DOMAIN observed : observed[f] - observed[g] < Suppression
    /\ DownstreamIsLongest
===============================================================================
