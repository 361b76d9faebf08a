---------------------------- MODULE IdentityRotation ----------------------------
(***************************************************************************)
(* The hourly EasyTier host names by which relays find each other, between *)
(* two nodes: run_relay (easytier.rs) renames its node when the period of  *)
(* its clock changes, EasyTier spreads the name, the other node's refresh  *)
(* copies it into peer_ids_by_hostname, and every packet and probe is      *)
(* addressed by resolve_peer_id with the sender's own clock.               *)
(*                                                                         *)
(* A host name is its period.  Refreshes are at most MaxRefresh seconds    *)
(* apart (the interval is one second, but an arm of the select may keep    *)
(* the loop longer), and EasyTier spreads a name within MaxSpread seconds. *)
(***************************************************************************)
EXTENDS Integers

CONSTANTS
    PeriodSeconds,   \* PEER_ID_PERIOD_SECONDS
    SkewOfA,         \* seconds by which the clock of A is ahead of B's
    MaxRefresh, MaxSpread,
    MaxUtc           \* bound on time

ASSUME RotationAssumption ==
    /\ PeriodSeconds \in Nat \ {0}
    /\ {SkewOfA, MaxRefresh, MaxSpread, MaxUtc} \subseteq Nat
    /\ 2 * MaxRefresh + MaxSpread + SkewOfA <= PeriodSeconds

VARIABLES
    utc,
    advertised_period,   \* node -> period its host name is made from
    spread,              \* node -> the peer's name in its route list
    late,                \* node -> seconds that name has been out of date
    resolvable,          \* node -> the peer's name in peer_ids_by_hostname
    since                \* node -> seconds since its last refresh

rotationVars == <<utc, advertised_period, spread, late, resolvable, since>>

Ends == {"A", "B"}
Opposite(n) == IF n = "A" THEN "B" ELSE "A"

current_peer_id_period(n) == (utc + IF n = "A" THEN SkewOfA ELSE 0) \div PeriodSeconds

\* Mutant: names of the period before are not looked for.
active_periods_current(n) == {current_peer_id_period(n)}

active_peer_id_periods(n) ==
    {current_peer_id_period(n),
     IF current_peer_id_period(n) = 0 THEN 0 ELSE current_peer_id_period(n) - 1}

\* resolve_peer_id finds the peer under one of the active periods' names.
Resolves(n) == resolvable[n] \in active_peer_id_periods(n)

\* Both relays run and know each other's name, anywhere in a period.
RotationInit ==
    /\ utc \in 0 .. PeriodSeconds - 1
    /\ advertised_period = [n \in Ends |-> current_peer_id_period(n)]
    /\ spread = [n \in Ends |-> current_peer_id_period(Opposite(n))]
    /\ late = [n \in Ends |-> 0]
    /\ resolvable = [n \in Ends |-> current_peer_id_period(Opposite(n))]
    /\ since = [n \in Ends |-> 0]

\* The refresh arm: rename the node if its period changed, then list routes.
Refresh(n) ==
    /\ advertised_period' = [advertised_period EXCEPT ![n] = current_peer_id_period(n)]
    /\ resolvable' = [resolvable EXCEPT ![n] = spread[n]]
    /\ since' = [since EXCEPT ![n] = 0]
    /\ UNCHANGED <<utc, spread, late>>

\* The peer's name reaches the node's route list.
Spread(n) ==
    /\ spread' = [spread EXCEPT ![n] = advertised_period[Opposite(n)]]
    /\ late' = [late EXCEPT ![n] = 0]
    /\ UNCHANGED <<utc, advertised_period, resolvable, since>>

\* Time passes as long as no refresh and no name is overdue.
UtcTick ==
    /\ utc < MaxUtc
    /\ \A n \in Ends : since[n] < MaxRefresh
    /\ \A n \in Ends : spread[n] # advertised_period[Opposite(n)] => late[n] < MaxSpread
    /\ utc' = utc + 1
    /\ since' = [n \in Ends |-> since[n] + 1]
    /\ late' = [n \in Ends |-> IF spread[n] = advertised_period[Opposite(n)] THEN 0
                               ELSE late[n] + 1]
    /\ UNCHANGED <<advertised_period, spread, resolvable>>

RotationNext ==
    \/ \E n \in Ends : Refresh(n) \/ Spread(n)
    \/ UtcTick

RotationSpec == RotationInit /\ [][RotationNext]_rotationVars

-------------------------------------------------------------------------------
\* A peer can always be addressed across changes of period, except while its
\* clock has crossed the boundary and the sender's has not (easytier.rs:630,
\* identity.rs:29).  While refreshes, spreading and skew together take less
\* than a period, no traffic is dropped because of a rotation.
UninterruptedRotation ==
    \A n \in Ends :
        Resolves(n) \/ current_peer_id_period(Opposite(n)) > current_peer_id_period(n)
===============================================================================
