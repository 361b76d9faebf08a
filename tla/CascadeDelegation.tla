--------------------------- MODULE CascadeDelegation ---------------------------
(***************************************************************************)
(* Cascaded shortcuts: cascade::plan and delegation (cascade.rs), and the  *)
(* recipients' ShortcutTicket::validate (control.rs).  A hub plans a pair  *)
(* of tickets; an endpoint that holds the resulting lease may plan a pair  *)
(* for two of its own peers, with a lineage that names the lease's own     *)
(* shortcut as parent, and so on.                                          *)
(*                                                                         *)
(* The two tickets of a pair differ in role, selector and recipient only;  *)
(* here they are one record.  Ids and secrets are random in the code; an   *)
(* id is the position of the pair in the order of planning.  Every node    *)
(* reads its own clock.                                                    *)
(***************************************************************************)
EXTENDS Integers, Sequences, Functions

CONSTANTS
    Node,
    Hub,                  \* nodes that plan without a parent
    Limit,                \* handshake deadlines a hub may have
    Skew,                 \* node -> seconds its clock is ahead
    MaxDelegationDepth,   \* MAX_DELEGATION_DEPTH
    ExpiresAfter,         \* DEFAULT_EXPIRES_AFTER_SECONDS
    RenewAfter,           \* DEFAULT_RENEW_AFTER_SECONDS
    MaxLease,             \* MAX_LEASE_SECONDS
    MaxClockSkew,         \* MAX_CLOCK_SKEW_SECONDS
    MaxTickets, MaxNow    \* bounds on pairs planned and on time

ASSUME CascadeAssumption ==
    /\ Hub \subseteq Node /\ Limit \subseteq Nat
    /\ Skew \in [Node -> Nat]
    /\ MaxDelegationDepth \in Nat \ {0}
    /\ ExpiresAfter \in Nat /\ RenewAfter \in Nat \ {0}
    /\ MaxLease \in Nat /\ ExpiresAfter <= MaxLease
    /\ MaxClockSkew \in Nat
    /\ MaxTickets \in Nat /\ MaxNow \in Nat

VARIABLES
    now,
    tickets,   \* the pairs planned, in order
    leases     \* <<node, id>>: the node holds the lease of pair id

cascadeVars == <<now, tickets, leases>>

Clock(n) == now + Skew[n]

\* ShortcutDelegation; a ticket without one has NoLineage.
Lineage == [root : Nat, parent : Nat, depth : Nat, remaining : Nat, visited : Seq(Node)]
NoLineage == [root |-> 0, parent |-> 0, depth |-> 0, remaining |-> 0, visited |-> <<>>]
HasLineage(t) == t.delegation # NoLineage

Ticket == [issuer : Node, upstream : Node, downstream : Node,
           issued_at : Nat, renew_at : Nat, expires_at : Nat, delegation : Lineage]

CascadeTypeOK ==
    /\ now \in Nat
    /\ tickets \in Seq(Ticket)
    /\ leases \subseteq Node \X (1 .. Len(tickets))

CascadeInit ==
    /\ now = 0
    /\ tickets = <<>>
    /\ leases = {}

-------------------------------------------------------------------------------
\* Mutant: a node may come up twice in a lineage.
MayDelegateAgain(issuer, id) ==
    LET lineage == tickets[id].delegation
    IN  HasLineage(tickets[id]) =>
            /\ lineage.remaining # 0
            /\ lineage.depth + 1 <= MaxDelegationDepth

\* The refusals of delegation for a parent lease.
MayDelegate(issuer, id) ==
    LET lineage == tickets[id].delegation
    IN  HasLineage(tickets[id]) =>
            /\ lineage.remaining # 0
            /\ lineage.depth + 1 <= MaxDelegationDepth
            /\ issuer \notin Range(lineage.visited)

\* The lineage delegation gives to the children of a lease.
Delegation(issuer, id) ==
    LET lineage == tickets[id].delegation
    IN  IF HasLineage(tickets[id])
        THEN [root |-> lineage.root, parent |-> id,
              depth |-> lineage.depth + 1,
              remaining |-> lineage.remaining - 1,
              visited |-> Append(lineage.visited, issuer)]
        ELSE [root |-> id, parent |-> id, depth |-> 1,
              remaining |-> MaxDelegationDepth - 1, visited |-> <<issuer>>]

Least(a, b) == IF a <= b THEN a ELSE b

\* Mutant: the renewal time is not kept before the expiry.
PlanLateRenewal(issuer, up, down, expires_at, delegation) ==
    LET now_ == Clock(issuer)
    IN  /\ Len(tickets) < MaxTickets
        /\ up # down
        /\ expires_at > now_ + 1
        /\ tickets' = Append(tickets,
              [issuer |-> issuer, upstream |-> up, downstream |-> down,
               issued_at |-> now_,
               renew_at |-> now_ + RenewAfter,
               expires_at |-> expires_at,
               delegation |-> delegation])
        /\ UNCHANGED <<now, leases>>

\* plan: its refusals, and the pair it returns for an expiry already limited.
Plan(issuer, up, down, expires_at, delegation) ==
    LET now_ == Clock(issuer)
    IN  /\ Len(tickets) < MaxTickets
        /\ up # down
        /\ expires_at > now_ + 1
        /\ tickets' = Append(tickets,
              [issuer |-> issuer, upstream |-> up, downstream |-> down,
               issued_at |-> now_,
               renew_at |-> Least(now_ + RenewAfter, expires_at - 1),
               expires_at |-> expires_at,
               delegation |-> delegation])
        /\ UNCHANGED <<now, leases>>

\* A hub plans without a parent; `limit` is its handshake deadline.
PlanRoot(issuer, up, down, limit) ==
    Plan(issuer, up, down, Least(Clock(issuer) + ExpiresAfter, limit), NoLineage)

\* Mutant: the parent's lease does not limit the children.
PlanChildUnlimited(issuer, up, down, id) ==
    /\ <<issuer, id>> \in leases
    /\ MayDelegate(issuer, id)
    /\ Plan(issuer, up, down, Clock(issuer) + ExpiresAfter, Delegation(issuer, id))

\* An endpoint plans under a lease that it holds, possibly an expired one that
\* has not been removed yet.
PlanChild(issuer, up, down, id) ==
    /\ <<issuer, id>> \in leases
    /\ MayDelegate(issuer, id)
    /\ Plan(issuer, up, down, Least(Clock(issuer) + ExpiresAfter, tickets[id].expires_at),
            Delegation(issuer, id))

-------------------------------------------------------------------------------
\* ShortcutTicket::validate at a clock.  Versions and keys are always set.
Validate(t, clock) ==
    /\ t.issued_at <= clock + MaxClockSkew
    /\ t.renew_at > t.issued_at
    /\ t.expires_at > t.renew_at
    /\ t.expires_at - t.issued_at <= MaxLease
    /\ clock < t.expires_at
    /\ HasLineage(t) =>
          /\ t.delegation.depth \in 1 .. MaxDelegationDepth
          /\ t.delegation.remaining <= MaxDelegationDepth - t.delegation.depth
          /\ Len(t.delegation.visited) <= MaxDelegationDepth

\* A recipient gets its ticket, accepts it and completes the handshake.
Accept(n, id) ==
    /\ n \in {tickets[id].upstream, tickets[id].downstream}
    /\ Validate(tickets[id], Clock(n))
    /\ leases' = leases \cup {<<n, id>>}
    /\ UNCHANGED <<now, tickets>>

\* ShortcutManager::expire, some time after the expiry.
Expire(n, id) ==
    /\ <<n, id>> \in leases
    /\ Clock(n) >= tickets[id].expires_at
    /\ leases' = leases \ {<<n, id>>}
    /\ UNCHANGED <<now, tickets>>

Tick ==
    /\ now < MaxNow
    /\ now' = now + 1
    /\ UNCHANGED <<tickets, leases>>

CascadeNext ==
    \/ \E issuer \in Hub : \E up, down \in Node : \E limit \in Limit :
          PlanRoot(issuer, up, down, limit)
    \/ \E issuer, up, down \in Node : \E id \in DOMAIN tickets :
          PlanChild(issuer, up, down, id)
    \/ \E n \in Node : \E id \in DOMAIN tickets : Accept(n, id)
    \/ \E n \in Node : \E id \in DOMAIN tickets : Expire(n, id)
    \/ Tick

CascadeSpec == CascadeInit /\ [][CascadeNext]_cascadeVars

-------------------------------------------------------------------------------
Parent(t) == tickets[t.delegation.parent]

\* The lineage of pair `id` follows from its parent's.
SoundLineage(t, id) ==
    /\ t.delegation.parent \in 1 .. id - 1
    /\ t.delegation.depth \in 1 .. MaxDelegationDepth
    /\ t.delegation.depth + t.delegation.remaining = MaxDelegationDepth
    /\ t.delegation.depth = Parent(t).delegation.depth + 1
    /\ t.delegation.visited = Append(Parent(t).delegation.visited, t.issuer)
    /\ t.delegation.root = IF HasLineage(Parent(t)) THEN Parent(t).delegation.root
                           ELSE t.delegation.parent
    /\ Len(t.delegation.visited) = t.delegation.depth
    /\ \A i, j \in DOMAIN t.delegation.visited :
          t.delegation.visited[i] = t.delegation.visited[j] => i = j

\* A lineage is what its ancestors make it: one link longer than the parent's,
\* with the issuer added, under the same root; depth and budget always add up
\* to the maximum, and no issuer comes up twice (cascade.rs:107).
LineageSound ==
    \A id \in DOMAIN tickets : HasLineage(tickets[id]) => SoundLineage(tickets[id], id)

\* No child outlives its parent, however many links there are and however far
\* the nodes' clocks are apart (cascade.rs:55).
ChildWithinParent ==
    \A id \in DOMAIN tickets : HasLineage(tickets[id]) =>
        tickets[id].expires_at <= Parent(tickets[id]).expires_at

\* A recipient whose clock is not too far behind the issuer's accepts every
\* ticket that is planned, until it expires (cascade.rs:39, control.rs:162).
PlannedValidates ==
    \A id \in DOMAIN tickets : \A n \in Node :
        /\ Clock(n) < tickets[id].expires_at
        /\ tickets[id].issued_at <= Clock(n) + MaxClockSkew
        => Validate(tickets[id], Clock(n))
===============================================================================
