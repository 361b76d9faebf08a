----------------------------- MODULE LeaseRouting -----------------------------
(***************************************************************************)
(* What the shortcut control plane promises to the traffic of one node,    *)
(* without sessions, phases, tables or generations: every selector is on   *)
(* the base path or on a lease for that very selector; it is moved onto a  *)
(* lease one selector at a time and only before the lease's expiry; and    *)
(* unless the node is late with its polling, it has left the lease before  *)
(* Grace seconds have gone by since then.  ShortcutEndpoint implements     *)
(* this specification.                                                     *)
(***************************************************************************)
EXTENDS Naturals

CONSTANTS
    Selector,   \* destination prefixes
    Ticket,     \* leases, with a selector and an expires_at
    BasePath,   \* the path through the main WireGuard interface
    Grace       \* how long after its expiry a lease may still carry traffic

VARIABLES
    path,    \* selector -> BasePath or a ticket
    clock,
    late     \* the node has missed a poll

pathVars == <<path, clock, late>>

LeasePast(t) == clock >= t.expires_at + Grace

Timely == ~late => \A sel \in Selector : path[sel] = BasePath \/ ~LeasePast(path[sel])

LeaseInit ==
    /\ path = [sel \in Selector |-> BasePath]
    /\ clock = 0
    /\ late = FALSE

\* A selector moves to a lease that has not expired.
Grant(sel, t) ==
    /\ t.selector = sel
    /\ clock < t.expires_at
    /\ path' = [path EXCEPT ![sel] = t]
    /\ UNCHANGED <<clock, late>>

\* Any set of selectors may return to the base path at any time.
FallBack(S) ==
    /\ path' = [sel \in Selector |-> IF sel \in S THEN BasePath ELSE path[sel]]
    /\ late' \in BOOLEAN
    /\ Timely'
    /\ UNCHANGED clock

Advance ==
    /\ clock' = clock + 1
    /\ late' \in BOOLEAN
    /\ Timely'
    /\ UNCHANGED path

LeaseNext ==
    \/ \E sel \in Selector, t \in Ticket : Grant(sel, t)
    \/ \E S \in SUBSET Selector : FallBack(S)
    \/ Advance

LeaseSpec == LeaseInit /\ [][LeaseNext]_pathVars
===============================================================================
