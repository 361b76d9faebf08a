------------------------------ MODULE PathProbe ------------------------------
(***************************************************************************)
(* The path probes of one relay: the refresh, sender and probe arms of     *)
(* run_relay (easytier.rs).  Every second the relay sends a probe to each  *)
(* peer whose name is in EasyTier's route list.  A probe ends in one of    *)
(* five ways: its reply arrives, it expires at a later refresh, its sender *)
(* task reports an error, all sender slots are taken, or a reply from the  *)
(* wrong peer consumes it.                                                 *)
(*                                                                         *)
(* Instants are ages in seconds that stop growing once they are past the   *)
(* limit they are compared with.  A frame stays in the network once it is  *)
(* sent, so it may arrive late, out of order, several times or never.  A   *)
(* relay starts counting its probes at 1, so a reply to a probe of the     *)
(* generation before it may carry one of its numbers: the frames of Stale. *)
(***************************************************************************)
EXTENDS Naturals, FiniteSets

CONSTANTS
    PeerCount,       \* spec.peers.len(); a peer is its position
    MaxInFlight,     \* MAX_IN_FLIGHT_PROBE_SENDS
    ProbeTimeout,    \* seconds after which a probe is lost
    Stale,           \* replies to an earlier generation's probes, in flight
    MaxNonce         \* bound on the number of probes

Peers == 1 .. PeerCount
Nonces == 1 .. MaxNonce
Frame == [kind : {"request", "reply"}, peer : Peers, nonce : Nat]

ASSUME ProbeAssumption ==
    /\ PeerCount \in Nat
    /\ MaxInFlight \in Nat
    /\ ProbeTimeout \in Nat
    /\ Stale \subseteq [kind : {"reply"}, peer : Peers, nonce : Nat]
    /\ MaxNonce \in Nat

VARIABLES
    due,                \* the refresh interval has ticked
    listed,             \* peers that peer_ids_by_hostname resolves
    pending_probes,     \* nonce -> [peer, age]
    probe_sends,        \* nonce -> [peer, status] of its sender task
    replying,           \* sender tasks that carry a reply of ours
    next_probe_nonce,
    reachable,          \* peers whose path is available in the metrics
    network,            \* frames on their way
    counted,            \* history: nonce -> how often an outcome was recorded
    succeeded,          \* history: nonces recorded as a success
    consumed,           \* history: nonces a reply from another peer ended
    replied             \* history: nonces whose request a peer has answered

relayVars == <<due, listed, pending_probes, probe_sends, replying, next_probe_nonce>>
metricVars == <<reachable, counted, succeeded, consumed>>
probeVars == <<relayVars, metricVars, network, replied>>

\* Types, and the limits of the relay: the sender slots, and pending probes that
\* do not pile up when peers stop answering (easytier.rs:251, 413).
ProbeTypeOK ==
    /\ due \in BOOLEAN
    /\ listed \subseteq Peers
    /\ DOMAIN pending_probes \subseteq Nonces
    /\ \A n \in DOMAIN pending_probes :
          pending_probes[n] \in [peer : Peers, age : 0 .. ProbeTimeout + 1]
    /\ DOMAIN probe_sends \subseteq Nonces
    /\ \A n \in DOMAIN probe_sends :
          probe_sends[n] \in [peer : Peers, status : {"running", "failed", "done"}]
    /\ Cardinality(DOMAIN probe_sends) + replying <= MaxInFlight
    /\ Cardinality(DOMAIN pending_probes) <= (ProbeTimeout + 1) * PeerCount
    /\ next_probe_nonce \in 1 .. MaxNonce + 1
    /\ reachable \subseteq Peers
    /\ network \subseteq Frame
    /\ counted \in [Nonces -> Nat]
    /\ succeeded \subseteq Nonces
    /\ consumed \subseteq Nonces
    /\ replied \subseteq Nonces

ProbeInit ==
    /\ due = TRUE
    /\ listed = {}
    /\ pending_probes = [n \in {} |-> n]
    /\ probe_sends = [n \in {} |-> n]
    /\ replying = 0
    /\ next_probe_nonce = 1
    /\ reachable = {}
    /\ network = Stale
    /\ counted = [n \in Nonces |-> 0]
    /\ succeeded = {}
    /\ consumed = {}
    /\ replied = {}

-------------------------------------------------------------------------------
Without(f, K) == [n \in DOMAIN f \ K |-> f[n]]

\* Mutant: only probes whose sender has returned expire.
expired_sent ==
    {n \in DOMAIN pending_probes \ DOMAIN probe_sends : pending_probes[n].age > ProbeTimeout}

expired == {n \in DOMAIN pending_probes : pending_probes[n].age > ProbeTimeout}

\* The probes of one refresh, for the peers that `routes` resolves: numbered
\* in the order of spec.peers; the first ones get the free sender slots.
InFlight == Cardinality(DOMAIN probe_sends) + replying
Ahead(routes, p) == Cardinality({q \in routes : q < p})
NonceOf(routes, p) == next_probe_nonce + Ahead(routes, p)

\* queue_probe_send takes the first ones, as long as there are free slots.
Queued(routes) == {p \in routes : InFlight + Ahead(routes, p) < MaxInFlight}

PeerOf(routes, n) == CHOOSE p \in routes : NonceOf(routes, p) = n
NoncesOf(routes, P) == {NonceOf(routes, p) : p \in P}

\* The refresh arm: expired probes are lost, the route list is read, and each
\* resolved peer is probed, or its probe lost at once for want of a slot.
Refresh(routes) ==
    /\ due
    /\ next_probe_nonce + Cardinality(routes) <= MaxNonce + 1
    /\ due' = FALSE
    /\ listed' = routes
    /\ reachable' = routes
    /\ next_probe_nonce' = next_probe_nonce + Cardinality(routes)
    /\ pending_probes' =
          [n \in (DOMAIN pending_probes \ expired) \cup NoncesOf(routes, Queued(routes)) |->
              IF n \in DOMAIN pending_probes THEN pending_probes[n]
              ELSE [peer |-> PeerOf(routes, n), age |-> 0]]
    /\ probe_sends' =
          [n \in DOMAIN probe_sends \cup NoncesOf(routes, Queued(routes)) |->
              IF n \in DOMAIN probe_sends THEN probe_sends[n]
              ELSE [peer |-> PeerOf(routes, n), status |-> "running"]]
    /\ counted' = [n \in Nonces |-> counted[n] +
          IF n \in expired \cup NoncesOf(routes, routes \ Queued(routes)) THEN 1 ELSE 0]
    /\ UNCHANGED <<replying, succeeded, consumed, network, replied>>

-------------------------------------------------------------------------------
\* A sender task hands its frame to EasyTier.
Transmit(n) ==
    /\ n \in DOMAIN probe_sends
    /\ probe_sends[n].status = "running"
    /\ probe_sends' = [probe_sends EXCEPT ![n].status = "done"]
    /\ network' = network \cup
          {[kind |-> "request", peer |-> probe_sends[n].peer, nonce |-> n]}
    /\ UNCHANGED <<due, listed, pending_probes, replying, next_probe_nonce, metricVars, replied>>

\* It fails, or panics and then has no result.
TransmitFails(n, status) ==
    /\ n \in DOMAIN probe_sends
    /\ probe_sends[n].status = "running"
    /\ probe_sends' = [probe_sends EXCEPT ![n].status = status]
    /\ UNCHANGED <<due, listed, pending_probes, replying, next_probe_nonce, metricVars,
                   network, replied>>

\* The sender arm, for a task without an error.
JoinDone(n) ==
    /\ n \in DOMAIN probe_sends
    /\ probe_sends[n].status = "done"
    /\ probe_sends' = Without(probe_sends, {n})
    /\ UNCHANGED <<due, listed, pending_probes, replying, next_probe_nonce, metricVars,
                   network, replied>>

\* Mutant: the loss is recorded whether or not the probe is still pending.
JoinFailedBlindly(n) ==
    /\ n \in DOMAIN probe_sends
    /\ probe_sends[n].status = "failed"
    /\ probe_sends' = Without(probe_sends, {n})
    /\ pending_probes' = Without(pending_probes, {n})
    /\ counted' = [counted EXCEPT ![n] = @ + 1]
    /\ UNCHANGED <<due, listed, replying, next_probe_nonce, reachable, succeeded,
                   consumed, network, replied>>

\* The sender arm, for an error: the probe is lost if it is still pending.
JoinFailed(n) ==
    /\ n \in DOMAIN probe_sends
    /\ probe_sends[n].status = "failed"
    /\ probe_sends' = Without(probe_sends, {n})
    /\ IF n \in DOMAIN pending_probes
       THEN /\ pending_probes' = Without(pending_probes, {n})
            /\ counted' = [counted EXCEPT ![n] = @ + 1]
       ELSE UNCHANGED <<pending_probes, counted>>
    /\ UNCHANGED <<due, listed, replying, next_probe_nonce, reachable, succeeded,
                   consumed, network, replied>>

\* The probe arm, for a reply to a pending probe: it is counted only if it
\* comes from the probed peer, but the probe is over either way.
OnReply(f) ==
    /\ f \in network
    /\ f.kind = "reply"
    /\ f.nonce \in DOMAIN pending_probes
    /\ pending_probes' = Without(pending_probes, {f.nonce})
    /\ IF pending_probes[f.nonce].peer = f.peer
       THEN /\ counted' = [counted EXCEPT ![f.nonce] = @ + 1]
            /\ succeeded' = succeeded \cup {f.nonce}
            /\ reachable' = reachable \cup {f.peer}
            /\ UNCHANGED consumed
       ELSE /\ consumed' = consumed \cup {f.nonce}
            /\ UNCHANGED <<counted, succeeded, reachable>>
    /\ UNCHANGED <<due, listed, probe_sends, replying, next_probe_nonce, network, replied>>

\* The probe arm, for a peer's request that can be replied: its name is
\* resolved and a slot is free.
OnRequest(p) ==
    /\ p \in listed
    /\ InFlight < MaxInFlight
    /\ replying' = replying + 1
    /\ UNCHANGED <<due, listed, pending_probes, probe_sends, next_probe_nonce, metricVars,
                   network, replied>>

\* The sender arm, for a reply of ours.
JoinReply ==
    /\ replying > 0
    /\ replying' = replying - 1
    /\ UNCHANGED <<due, listed, pending_probes, probe_sends, next_probe_nonce, metricVars,
                   network, replied>>

\* The outbound arm, when EasyTier refuses a packet for a resolved peer.
SendFails(p) ==
    /\ p \in listed
    /\ reachable' = reachable \ {p}
    /\ UNCHANGED <<relayVars, counted, succeeded, consumed, network, replied>>

-------------------------------------------------------------------------------
\* A peer answers a request.
PeerAnswers(f) ==
    /\ f \in network
    /\ f.kind = "request"
    /\ network' = network \cup {[f EXCEPT !.kind = "reply"]}
    /\ replied' = replied \cup {f.nonce}
    /\ UNCHANGED <<relayVars, metricVars>>

Aged(age, limit) == IF age <= limit THEN age + 1 ELSE age

\* A second passes; the loop may be late with its refresh.
ProbeTick ==
    /\ due' = TRUE
    /\ pending_probes' = [n \in DOMAIN pending_probes |->
            [peer |-> pending_probes[n].peer,
             age |-> Aged(pending_probes[n].age, ProbeTimeout)]]
    /\ UNCHANGED <<listed, probe_sends, replying, next_probe_nonce, metricVars,
                   network, replied>>

ProbeNext ==
    \/ \E routes \in SUBSET Peers : Refresh(routes)
    \/ \E n \in DOMAIN probe_sends : Transmit(n)
    \/ \E n \in DOMAIN probe_sends, status \in {"failed", "done"} : TransmitFails(n, status)
    \/ \E n \in DOMAIN probe_sends : JoinDone(n)
    \/ \E n \in DOMAIN probe_sends : JoinFailed(n)
    \/ \E f \in network : OnReply(f)
    \/ \E p \in Peers : OnRequest(p)
    \/ JoinReply
    \/ \E p \in Peers : SendFails(p)
    \/ \E f \in network : PeerAnswers(f)
    \/ ProbeTick

ProbeSpec == ProbeInit /\ [][ProbeNext]_probeVars

\* The refresh arm is one of six that a tokio select polls in random order,
\* so a tick that has fired is taken eventually; the clock goes on.
ProbeFairness ==
    /\ WF_probeVars(\E routes \in SUBSET Peers : Refresh(routes))
    /\ WF_probeVars(ProbeTick)

-------------------------------------------------------------------------------
Issued == 1 .. next_probe_nonce - 1
Times(condition) == IF condition THEN 1 ELSE 0

\* Every probe is accounted for once, at every moment: it is pending, has been
\* counted in the loss statistics, or was ended by a reply that came from
\* another peer.  A reply, the expiry, the sender's error and a missing slot
\* race for it in any order, with repeated and stale replies.  A success is one
\* that the peer has answered, or has the number of a stale reply
\* (easytier.rs:257, 296, 310, 328).
ProbeAccounted ==
    /\ ProbeTypeOK
    /\ \A n \in Nonces :
          counted[n] + Times(n \in DOMAIN pending_probes) + Times(n \in consumed)
              = Times(n \in Issued)
    /\ succeeded \subseteq replied \cup {f.nonce : f \in Stale}

\* Why that holds, as an inductive invariant: a second has passed since the
\* probes before a refresh, so that no two that have not expired are of the same
\* peer and age; and a reply is to a request of ours or a stale one.
ProbeInv ==
    /\ ProbeAccounted
    /\ replying \in Nat
    /\ DOMAIN probe_sends \subseteq Issued
    /\ due => \A n \in DOMAIN pending_probes : pending_probes[n].age > 0
    /\ \A m, n \in DOMAIN pending_probes :
          pending_probes[m] = pending_probes[n] /\ pending_probes[n].age <= ProbeTimeout => m = n
    /\ \A f \in network :
          /\ f.kind = "request" => f.nonce \in Nonces
          /\ f.kind = "reply" => f.nonce \in replied \cup {g.nonce : g \in Stale}

\* Every probe is settled: none stays pending for ever, whatever the network
\* and the sender tasks do (easytier.rs:252).
ProbeSettles ==
    \A n \in Nonces : n \in DOMAIN pending_probes ~> n \notin DOMAIN pending_probes
===============================================================================
