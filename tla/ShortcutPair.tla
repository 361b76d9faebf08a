------------------------------ MODULE ShortcutPair ------------------------------
(***************************************************************************)
(* The two endpoints of a shortcut: the leases a hub issues one after the  *)
(* other to both, the WireGuard handshake of each lease over a network     *)
(* that loses and reorders, and the route each endpoint takes from what it *)
(* has seen of the handshake (shortcut/state.rs, engine.rs, device.rs).    *)
(*                                                                         *)
(* Each endpoint is ShortcutNode with its channels left out: what the      *)
(* device reports is handled at once.  The tunnel itself (boringtun) is    *)
(* external; engine.rs says which of its answers count as an authenticated *)
(* handshake.                                                              *)
(***************************************************************************)
EXTENDS Integers, FiniteSets

CONSTANTS
    Left, Right,        \* the endpoints
    LeaseCount,         \* leases are numbered in the order the hub issues them
    IssuedAt, ExpiresAt,
    MaxNow,
    MaxFault            \* bound on lost datagrams, crashes and device failures

End == {Left, Right}
Lease == 1 .. LeaseCount
Other(n) == IF n = Left THEN Right ELSE Left
NoRoute == 0

ASSUME PairAssumption ==
    /\ Left # Right
    /\ LeaseCount \in Nat
    /\ IssuedAt \in [Lease -> Nat]
    /\ ExpiresAt \in [Lease -> Nat]
    /\ MaxNow \in Nat /\ MaxFault \in Nat

VARIABLES
    now,
    sessions,   \* end -> leases it holds, with their sessions
    route,      \* end -> the lease its selector is routed to, or NoRoute
    waiting,    \* end -> sessions whose own initiation is not answered
    network,    \* datagrams under way
    accepted,   \* history: end -> leases whose ticket it has received
    faults

pairVars == <<now, sessions, route, waiting, network, accepted, faults>>

Datagram == [type : {"initiation", "response"}, lease : Lease, to : End]

PairTypeOK ==
    /\ now \in 0 .. MaxNow
    /\ sessions \in [End -> SUBSET Lease]
    /\ route \in [End -> Lease \cup {NoRoute}]
    /\ waiting \in [End -> SUBSET Lease]
    /\ network \subseteq Datagram
    /\ accepted \in [End -> SUBSET Lease]

PairInit ==
    /\ now = 0
    /\ sessions = [n \in End |-> {}]
    /\ route = [n \in End |-> NoRoute]
    /\ waiting = [n \in End |-> {}]
    /\ network = {}
    /\ accepted = [n \in End |-> {}]
    /\ faults = 0

-------------------------------------------------------------------------------
\* The keys of a lease: each role's static key and the pre-shared one.
local_label(n) == IF n = Left THEN "left-static" ELSE "right-static"
remote_label(n) == IF n = Left THEN "right-static" ELSE "left-static"

\* Mutant: both ends take the left role.
derive_keys_left(n, l) ==
    [local |-> <<l, "left-static">>, remote |-> <<l, "right-static">>, preshared |-> l]

derive_keys(n, l) ==
    [local |-> <<l, local_label(n)>>, remote |-> <<l, remote_label(n)>>, preshared |-> l]

\* A handshake message of one end is accepted by the other.
KeysMatch(n, l) ==
    /\ derive_keys(n, l).remote = derive_keys(Other(n), l).local
    /\ derive_keys(n, l).local = derive_keys(Other(n), l).remote
    /\ derive_keys(n, l).preshared = derive_keys(Other(n), l).preshared

Initiation(n, l) == [type |-> "initiation", lease |-> l, to |-> Other(n)]
Response(n, l) == [type |-> "response", lease |-> l, to |-> Other(n)]

\* Mutant: the route is installed when the session is prepared.
AcceptDiverts(n, l) ==
    /\ IssuedAt[l] <= now /\ now < ExpiresAt[l]
    /\ l \notin accepted[n]
    /\ accepted' = [accepted EXCEPT ![n] = @ \cup {l}]
    /\ sessions' = [sessions EXCEPT ![n] = @ \cup {l}]
    /\ waiting' = [waiting EXCEPT ![n] = @ \cup {l}]
    /\ network' = network \cup {Initiation(n, l)}
    /\ route' = [route EXCEPT ![n] = l]
    /\ UNCHANGED <<now, faults>>

\* A lease's ticket arrives once, or never: receive_ticket, then the device's
\* prepare sends the first initiation.
Accept(n, l) ==
    /\ IssuedAt[l] <= now /\ now < ExpiresAt[l]
    /\ l \notin accepted[n]
    /\ accepted' = [accepted EXCEPT ![n] = @ \cup {l}]
    /\ sessions' = [sessions EXCEPT ![n] = @ \cup {l}]
    /\ waiting' = [waiting EXCEPT ![n] = @ \cup {l}]
    /\ network' = network \cup {Initiation(n, l)}
    /\ UNCHANGED <<now, route, faults>>

\* The tunnel's timer sends an unanswered initiation again.
Retry(n, l) ==
    /\ l \in waiting[n] \cap sessions[n]
    /\ Initiation(n, l) \notin network
    /\ network' = network \cup {Initiation(n, l)}
    /\ UNCHANGED <<now, sessions, route, waiting, accepted, faults>>

\* A datagram for a session that the device does not have, or that its keys
\* do not decrypt.
Unusable(n, m) == m.lease \notin sessions[n] \/ ~KeysMatch(n, m.lease)

Discard(n, m) ==
    /\ m \in network /\ m.to = n
    /\ Unusable(n, m)
    /\ network' = network \ {m}
    /\ UNCHANGED <<now, sessions, route, waiting, accepted, faults>>

\* The sessions S of an end are gone; W are left waiting.
Forget(n, S, W) ==
    /\ sessions' = [sessions EXCEPT ![n] = @ \ S]
    /\ waiting' = [waiting EXCEPT ![n] = W \ S]
    /\ route' = [route EXCEPT ![n] = IF @ \in S THEN NoRoute ELSE @]

\* The main loop handles an AuthenticatedHandshake event: the route moves to
\* the lease and the session that carried it before is retired.  An expired
\* lease fails.
Authenticated(n, l, W) ==
    IF now >= ExpiresAt[l]
    THEN Forget(n, {l}, W)
    ELSE LET retired == {route[n]} \ {l}
         IN  /\ route' = [route EXCEPT ![n] = l]
             /\ sessions' = [sessions EXCEPT ![n] = @ \ retired]
             /\ waiting' = [waiting EXCEPT ![n] = W \ retired]

\* An initiation is answered and reported as an authenticated handshake.  The
\* tunnel may give up its own initiation for it.
OnInitiation(n, m) ==
    /\ m \in network /\ m.to = n /\ m.type = "initiation"
    /\ ~Unusable(n, m)
    /\ network' = (network \ {m}) \cup {Response(n, m.lease)}
    /\ \E W \in {waiting[n], waiting[n] \ {m.lease}} : Authenticated(n, m.lease, W)
    /\ UNCHANGED <<now, accepted, faults>>

\* A response counts if the initiation it answers is still outstanding.
OnResponse(n, m) ==
    /\ m \in network /\ m.to = n /\ m.type = "response"
    /\ ~Unusable(n, m)
    /\ network' = network \ {m}
    /\ IF m.lease \in waiting[n]
         THEN Authenticated(n, m.lease, waiting[n] \ {m.lease})
         ELSE UNCHANGED <<sessions, waiting, route>>
    /\ UNCHANGED <<now, accepted, faults>>

\* Mutant: a lease in use is not looked at.
ExpireUnused(n) ==
    /\ \E l \in sessions[n] : now >= ExpiresAt[l]
    /\ Forget(n, {l \in sessions[n] : now >= ExpiresAt[l]} \ {route[n]}, waiting[n])
    /\ UNCHANGED <<now, network, accepted, faults>>

\* expire, at a poll.
Expire(n) ==
    /\ \E l \in sessions[n] : now >= ExpiresAt[l]
    /\ Forget(n, {l \in sessions[n] : now >= ExpiresAt[l]}, waiting[n])
    /\ UNCHANGED <<now, network, accepted, faults>>

-------------------------------------------------------------------------------
\* The tunnel gives up an initiation, or the device cannot send: fail_session.
DeviceFails(n, l) ==
    /\ l \in sessions[n]
    /\ faults < MaxFault
    /\ faults' = faults + 1
    /\ Forget(n, {l}, waiting[n])
    /\ UNCHANGED <<now, network, accepted>>

\* An endpoint's process restarts; nothing of its leases is kept.
CrashEnd(n) ==
    /\ faults < MaxFault
    /\ faults' = faults + 1
    /\ Forget(n, Lease, {})
    /\ UNCHANGED <<now, network, accepted>>

Lose(m) ==
    /\ faults < MaxFault
    /\ faults' = faults + 1
    /\ network' = network \ {m}
    /\ UNCHANGED <<now, sessions, route, waiting, accepted>>

Tick ==
    /\ now < MaxNow
    /\ now' = now + 1
    /\ UNCHANGED <<sessions, route, waiting, network, accepted, faults>>

-------------------------------------------------------------------------------
Deliver(n, l) ==
    \E m \in network : m.lease = l /\ (OnInitiation(n, m) \/ OnResponse(n, m) \/ Discard(n, m))

PairNext ==
    \/ \E n \in End, l \in Lease : Accept(n, l) \/ Retry(n, l) \/ Deliver(n, l) \/ DeviceFails(n, l)
    \/ \E n \in End : Expire(n) \/ CrashEnd(n)
    \/ \E m \in network : Lose(m)
    \/ Tick

PairSpec == PairInit /\ [][PairNext]_pairVars

\* An unanswered initiation is repeated, of the datagrams for a session some
\* arrive, and the main loop polls.  Time need not pass.
PairFairness ==
    \A n \in End :
        /\ WF_pairVars(Expire(n))
        /\ \A l \in Lease : WF_pairVars(Retry(n, l)) /\ WF_pairVars(Deliver(n, l))

-------------------------------------------------------------------------------
\* An endpoint is diverted to a lease only if the other end has received the
\* ticket of that lease: a ticket that is lost to one end leaves both on the
\* base path (engine.rs:70, state.rs:120).
BothHaveTicket == \A n \in End : route[n] # NoRoute => route[n] \in accepted[Other(n)]

\* The end's packets go to a session its remote does not hold.
Hole(n) == route[n] # NoRoute /\ route[n] \notin sessions[Other(n)]

\* However one end came to be alone, by a lost response, a crash or a failed
\* session, its packets do not stay in the hole longer than the leases last: it
\* moves to a lease the other end holds, or returns to the base path
\* (state.rs:149).
HoleEnds == (\A l \in Lease : now >= ExpiresAt[l]) ~> (\A n \in End : ~Hole(n))

\* When both ends hold a lease, they come to use that lease, or one of them
\* leaves it for the other lease; they do so also if time stands still,
\* whichever messages of the handshake are lost (device.rs:286, engine.rs:70).
Settles ==
    \A l \in Lease :
        (\A n \in End : l \in sessions[n]) ~>
            \/ \A n \in End : route[n] = l
            \/ \E n \in End : l \notin sessions[n]

\* What the design says of renewals: the new lease takes the route from the old
\* one, never the old from the new.
OnlyForward ==
    [][\A n \in End : route[n] # NoRoute /\ route'[n] # NoRoute => route'[n] >= route[n]]_pairVars
===============================================================================
