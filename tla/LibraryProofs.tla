--------------------------- MODULE LibraryProofs ----------------------------
(***************************************************************************)
(* Proofs about parts that stand on their own: cascaded tickets, the       *)
(* schedule of renewals, and the reports about forwarded flows.            *)
(***************************************************************************)
EXTENDS CascadeDelegation, RenewalScheduler, TransitDetector, TLAPS

-------------------------------------------------------------------------------
(***************************************************************************)
(* CascadeDelegation                                                       *)
(*                                                                         *)
(* The lineages, lifetimes and validity of cascaded tickets, for every     *)
(* number of nodes and tickets, every maximal depth and every clock skew.  *)
(* The inductive invariant adds to the properties themselves the types and *)
(* the order of a ticket's three times.                                    *)
(***************************************************************************)

Windowed ==
    \A id \in DOMAIN tickets :
        /\ tickets[id].renew_at > tickets[id].issued_at
        /\ tickets[id].expires_at > tickets[id].renew_at
        /\ tickets[id].expires_at <= tickets[id].issued_at + MaxLease

\* LineageSound and ChildWithinParent with a name for the ticket.
SoundTickets ==
    \A id \in DOMAIN tickets : \A t : t = tickets[id] /\ HasLineage(t) =>
        /\ SoundLineage(t, id)
        /\ t.expires_at <= Parent(t).expires_at

CascadeInv == CascadeTypeOK /\ SoundTickets /\ Windowed

\* A ticket without delegation has the empty lineage.
LEMMA NoLineageTyped == NoLineage \in Lineage /\ NoLineage.depth = 0 /\ NoLineage.visited = <<>>
  BY DEF NoLineage, Lineage

\* The invariant's statement about tickets contains the two properties.
LEMMA SoundTicketsSuffice == SoundTickets => LineageSound /\ ChildWithinParent
<1> SUFFICES ASSUME SoundTickets PROVE LineageSound /\ ChildWithinParent
  OBVIOUS
<1>1. ASSUME NEW id \in DOMAIN tickets, HasLineage(tickets[id])
      PROVE  /\ SoundLineage(tickets[id], id)
             /\ tickets[id].expires_at <= Parent(tickets[id]).expires_at
  BY <1>1 DEF SoundTickets
<1> QED BY <1>1 DEF LineageSound, ChildWithinParent

\* Init establishes the invariant.
LEMMA CascadeInitInv == CascadeInit => CascadeInv
  BY CascadeAssumption DEF CascadeInit, CascadeInv, CascadeTypeOK, SoundTickets, Windowed

\* What plan adds to the sequence of pairs.
LEMMA PlanAppends ==
    ASSUME CascadeTypeOK, NEW issuer \in Node, NEW up \in Node, NEW down \in Node,
           NEW e \in Nat, NEW d \in Lineage, Plan(issuer, up, down, e, d)
    PROVE  \E t \in Ticket :
              /\ tickets' = Append(tickets, t)
              /\ t.issuer = issuer /\ t.delegation = d
              /\ t.expires_at = e /\ t.issued_at = Clock(issuer)
              /\ t.renew_at > t.issued_at /\ t.expires_at > t.renew_at
              /\ UNCHANGED <<now, leases>>
<1>1. Clock(issuer) \in Nat
  BY CascadeAssumption DEF Clock, CascadeTypeOK
<1>2. e > Clock(issuer) + 1 /\ RenewAfter \in Nat \ {0}
  BY CascadeAssumption DEF Plan
<1> DEFINE r == Least(Clock(issuer) + RenewAfter, e - 1)
           t == [issuer |-> issuer, upstream |-> up, downstream |-> down,
                 issued_at |-> Clock(issuer), renew_at |-> r, expires_at |-> e,
                 delegation |-> d]
<1>3. r \in Nat /\ r > Clock(issuer) /\ e > r
  BY <1>1, <1>2 DEF Least
<1>4. tickets' = Append(tickets, t) /\ UNCHANGED <<now, leases>>
  BY DEF Plan
<1> HIDE DEF r
<1>5. t \in Ticket
  BY <1>1, <1>3 DEF Ticket
<1> QED BY <1>3, <1>4, <1>5

\* Adding a pair that is sound itself disturbs no other pair.
LEMMA AppendPreserves ==
    ASSUME CascadeInv, NEW t \in Ticket, tickets' = Append(tickets, t),
           UNCHANGED <<now, leases>>,
           t.renew_at > t.issued_at, t.expires_at > t.renew_at,
           t.expires_at <= t.issued_at + MaxLease,
           HasLineage(t) => /\ SoundLineage(t, Len(tickets) + 1)
                            /\ t.expires_at <= Parent(t).expires_at
    PROVE  CascadeInv'
<1> DEFINE k == Len(tickets) + 1
<1>1. tickets \in Seq(Ticket) /\ leases \subseteq Node \X (1 .. Len(tickets)) /\ now \in Nat
  BY DEF CascadeInv, CascadeTypeOK
<1>2. /\ tickets' \in Seq(Ticket) /\ Len(tickets') = k /\ Len(tickets) \in Nat
      /\ DOMAIN tickets' = 1 .. k /\ DOMAIN tickets = 1 .. Len(tickets)
      /\ tickets'[k] = t
      /\ \A id \in 1 .. Len(tickets) : tickets'[id] = tickets[id]
  BY <1>1
<1>3. CascadeTypeOK'
  <2>1. 1 .. Len(tickets) \subseteq 1 .. k
    BY <1>2
  <2>2. leases' \subseteq Node \X (1 .. Len(tickets'))
    BY <1>1, <1>2, <2>1
  <2> QED BY <1>1, <1>2, <2>2 DEF CascadeTypeOK
<1>4. \A id \in DOMAIN tickets' :
        \/ id = k /\ tickets'[id] = t
        \/ id \in DOMAIN tickets /\ tickets'[id] = tickets[id]
  BY <1>2
<1>5. ASSUME NEW u, NEW id \in 1 .. k, u.delegation.parent \in 1 .. id - 1
      PROVE  Parent(u)' = Parent(u)
  <2>1. u.delegation.parent \in 1 .. Len(tickets)
    BY <1>2, <1>5
  <2> QED BY <1>2, <2>1 DEF Parent
<1>6. ASSUME NEW u, NEW id \in 1 .. k, SoundLineage(u, id)
      PROVE  SoundLineage(u, id)' /\ Parent(u)' = Parent(u)
  <2>1. Parent(u)' = Parent(u)
    BY <1>5, <1>6 DEF SoundLineage
  <2> QED BY Zenon, <1>6, <2>1 DEF SoundLineage, HasLineage
<1>7. ASSUME NEW id \in DOMAIN tickets', NEW u, u = tickets'[id], HasLineage(u)
      PROVE  /\ SoundLineage(u, id)'
             /\ u.expires_at <= Parent(u)'.expires_at
  <2>1. id \in 1 .. k
    BY <1>2
  <2>2. SoundLineage(u, id) /\ u.expires_at <= Parent(u).expires_at
    BY <1>4, <1>7 DEF CascadeInv, SoundTickets
  <2> QED BY <1>6, <2>1, <2>2
<1>8. SoundTickets'
  BY <1>7 DEF SoundTickets, HasLineage
<1>9. Windowed'
  BY <1>4 DEF CascadeInv, Windowed
<1> QED BY <1>3, <1>8, <1>9 DEF CascadeInv

\* Depth and budget keep their sum when a link is spent.
LEMMA OneLinkSpent ==
    ASSUME NEW depth \in Nat, NEW remaining \in Nat, NEW max \in Nat,
           remaining # 0, depth + 1 <= max, depth + remaining = max
    PROVE  /\ remaining - 1 \in Nat /\ depth + 1 \in 1 .. max
           /\ (depth + 1) + (remaining - 1) = max
  OBVIOUS

\* The lineage delegation computes is sound for a pair appended now.
LEMMA DelegationSound ==
    ASSUME CascadeInv, NEW issuer \in Node, NEW id \in DOMAIN tickets,
           MayDelegate(issuer, id), NEW t, t.issuer = issuer,
           t.delegation = Delegation(issuer, id)
    PROVE  /\ Delegation(issuer, id) \in Lineage
           /\ SoundLineage(t, Len(tickets) + 1)
           /\ Parent(t) = tickets[id]
<1> DEFINE p == tickets[id]
           d == p.delegation
<1>1. /\ p \in Ticket /\ d \in Lineage /\ MaxDelegationDepth \in Nat \ {0}
      /\ Len(tickets) \in Nat /\ id \in 1 .. Len(tickets)
  <2>1. tickets \in Seq(Ticket)
    BY DEF CascadeInv, CascadeTypeOK
  <2>2. p \in Ticket /\ Len(tickets) \in Nat /\ id \in 1 .. Len(tickets)
    BY <2>1
  <2>3. d \in Lineage
    BY <2>2 DEF Ticket
  <2> QED BY <2>2, <2>3, CascadeAssumption
<1>2. /\ d.root \in Nat /\ d.depth \in Nat /\ d.remaining \in Nat /\ d.visited \in Seq(Node)
  BY <1>1 DEF Lineage
<1>3. CASE HasLineage(p)
  <2>1. /\ t.delegation = [root |-> d.root, parent |-> id, depth |-> d.depth + 1,
                           remaining |-> d.remaining - 1,
                           visited |-> Append(d.visited, issuer)]
        /\ d.remaining # 0 /\ d.depth + 1 <= MaxDelegationDepth
        /\ issuer \notin Range(d.visited)
    BY <1>3 DEF Delegation, MayDelegate
  <2>2. /\ d.depth + d.remaining = MaxDelegationDepth /\ d.depth \in 1 .. MaxDelegationDepth
        /\ Len(d.visited) = d.depth
        /\ \A i, j \in DOMAIN d.visited : d.visited[i] = d.visited[j] => i = j
    BY <1>1, <1>3 DEF CascadeInv, SoundTickets, SoundLineage
  <2>3. /\ d.remaining - 1 \in Nat /\ d.depth + 1 \in 1 .. MaxDelegationDepth
        /\ (d.depth + 1) + (d.remaining - 1) = MaxDelegationDepth
    <3>1. d.depth \in Nat /\ d.remaining \in Nat /\ MaxDelegationDepth \in Nat
      BY <1>1, <1>2
    <3>2. /\ d.remaining # 0 /\ d.depth + 1 <= MaxDelegationDepth
          /\ d.depth + d.remaining = MaxDelegationDepth
      BY <2>1, <2>2
    <3> QED BY <3>1, <3>2, OneLinkSpent
  <2> DEFINE w == Append(d.visited, issuer)
  <2>4. w \in Seq(Node) /\ Len(w) = d.depth + 1
    BY <1>2, <2>2
  <2>5. \A i \in DOMAIN d.visited : d.visited[i] # issuer
    BY <2>1 DEF Range
  <2>6. \A i, j \in DOMAIN w : w[i] = w[j] => i = j
    <3>1. /\ DOMAIN w = 1 .. Len(d.visited) + 1 /\ DOMAIN d.visited = 1 .. Len(d.visited)
          /\ Len(d.visited) \in Nat
          /\ w[Len(d.visited) + 1] = issuer
          /\ \A i \in 1 .. Len(d.visited) : w[i] = d.visited[i]
      BY <1>2
    <3> HIDE DEF w
    <3> SUFFICES ASSUME NEW i \in DOMAIN w, NEW j \in DOMAIN w, w[i] = w[j]
                 PROVE  i = j
      OBVIOUS
    <3>2. CASE i \in 1 .. Len(d.visited) /\ j \in 1 .. Len(d.visited)
      BY <2>2, <3>1, <3>2
    <3>3. CASE i = Len(d.visited) + 1 /\ j \in 1 .. Len(d.visited)
      BY <2>5, <3>1, <3>3
    <3>4. CASE j = Len(d.visited) + 1 /\ i \in 1 .. Len(d.visited)
      BY <2>5, <3>1, <3>4
    <3>5. CASE i = Len(d.visited) + 1 /\ j = Len(d.visited) + 1
      BY <3>5
    <3>6. \A x \in 1 .. Len(d.visited) + 1 :
            x \in 1 .. Len(d.visited) \/ x = Len(d.visited) + 1
      BY <3>1
    <3> QED BY <3>1, <3>2, <3>3, <3>4, <3>5, <3>6
  <2> HIDE DEF w
  <2>7. t.delegation = [root |-> d.root, parent |-> id, depth |-> d.depth + 1,
                        remaining |-> d.remaining - 1, visited |-> w]
    BY <2>1 DEF w
  <2>8. Parent(t) = p
    BY <2>7 DEF Parent
  <2>9. t.delegation \in Lineage
    BY <1>1, <1>2, <2>3, <2>4, <2>7 DEF Lineage
  <2>10. w = Append(Parent(t).delegation.visited, t.issuer)
    BY <2>8 DEF w
  <2>11. SoundLineage(t, Len(tickets) + 1)
    <3>1. id \in 1 .. (Len(tickets) + 1) - 1
      BY <1>1
    <3>2. /\ t.delegation.parent = id /\ t.delegation.depth = d.depth + 1
          /\ t.delegation.remaining = d.remaining - 1
          /\ t.delegation.root = d.root /\ t.delegation.visited = w
      BY <2>7
    <3>3. /\ t.delegation.depth \in 1 .. MaxDelegationDepth
          /\ t.delegation.depth + t.delegation.remaining = MaxDelegationDepth
          /\ t.delegation.depth = Parent(t).delegation.depth + 1
      BY <2>3, <2>8, <3>2
    <3>4. t.delegation.root = IF HasLineage(Parent(t)) THEN Parent(t).delegation.root
                             ELSE t.delegation.parent
      BY <1>3, <2>8, <3>2
    <3>5. /\ Len(t.delegation.visited) = t.delegation.depth
          /\ t.delegation.visited = Append(Parent(t).delegation.visited, t.issuer)
      BY <2>4, <2>10, <3>2
    <3> QED BY <2>6, <3>1, <3>2, <3>3, <3>4, <3>5 DEF SoundLineage
  <2> QED BY <2>8, <2>9, <2>11
<1>4. CASE ~HasLineage(p)
  <2>1. t.delegation = [root |-> id, parent |-> id, depth |-> 1,
                        remaining |-> MaxDelegationDepth - 1, visited |-> <<issuer>>]
    BY <1>4 DEF Delegation
  <2>2. d = NoLineage
    BY <1>4 DEF HasLineage
  <2>3. MaxDelegationDepth - 1 \in Nat /\ 1 \in 1 .. MaxDelegationDepth
        /\ 1 + (MaxDelegationDepth - 1) = MaxDelegationDepth
    BY <1>1
  <2>4. Parent(t) = p
    BY <2>1 DEF Parent
  <2>5. /\ <<issuer>> = Append(NoLineage.visited, issuer) /\ <<issuer>> \in Seq(Node)
        /\ Len(<<issuer>>) = 1
        /\ \A i, j \in DOMAIN <<issuer>> : i = j
    BY DEF NoLineage
  <2>6. t.delegation \in Lineage
    BY <1>1, <2>1, <2>3, <2>5 DEF Lineage
  <2>7. SoundLineage(t, Len(tickets) + 1)
    <3>1. id \in 1 .. (Len(tickets) + 1) - 1
      BY <1>1
    <3> QED BY <1>4, <2>1, <2>2, <2>3, <2>4, <2>5, <3>1, NoLineageTyped DEF SoundLineage
  <2> QED BY <2>4, <2>6, <2>7
<1> QED BY <1>3, <1>4

\* Only the sequence of pairs matters to the properties.
LEMMA TicketsStand ==
    ASSUME SoundTickets, Windowed, UNCHANGED tickets
    PROVE  SoundTickets' /\ Windowed'
<1>1. \A u : Parent(u)' = Parent(u)
  BY DEF Parent
<1>2. \A u, id : SoundLineage(u, id) => SoundLineage(u, id)'
  BY <1>1 DEF SoundLineage, HasLineage
<1>3. SoundTickets'
  BY <1>1, <1>2 DEF SoundTickets, HasLineage
<1>4. Windowed'
  BY DEF Windowed
<1> QED BY <1>3, <1>4

\* Every step preserves the invariant.
LEMMA CascadeNextInv == CascadeInv /\ [CascadeNext]_cascadeVars => CascadeInv'
<1> SUFFICES ASSUME CascadeInv, [CascadeNext]_cascadeVars PROVE CascadeInv'
  OBVIOUS
<1>1. /\ CascadeTypeOK /\ now \in Nat /\ tickets \in Seq(Ticket)
      /\ \A n \in Node : Clock(n) \in Nat
      /\ ExpiresAfter \in Nat /\ MaxLease \in Nat /\ ExpiresAfter <= MaxLease
  BY CascadeAssumption DEF CascadeInv, CascadeTypeOK, Clock
<1>2. ASSUME NEW issuer \in Hub, NEW up \in Node, NEW down \in Node, NEW limit \in Limit,
             PlanRoot(issuer, up, down, limit)
      PROVE  CascadeInv'
  <2> DEFINE e == Least(Clock(issuer) + ExpiresAfter, limit)
  <2>1. issuer \in Node /\ limit \in Nat
    BY CascadeAssumption
  <2>2. e \in Nat /\ e <= Clock(issuer) + MaxLease
    BY <1>1, <2>1 DEF Least
  <2>3. Plan(issuer, up, down, e, NoLineage)
    BY <1>2 DEF PlanRoot
  <2> HIDE DEF e
  <2>4. PICK t \in Ticket :
              /\ tickets' = Append(tickets, t)
              /\ t.issuer = issuer /\ t.delegation = NoLineage
              /\ t.expires_at = e /\ t.issued_at = Clock(issuer)
              /\ t.renew_at > t.issued_at /\ t.expires_at > t.renew_at
              /\ UNCHANGED <<now, leases>>
    BY <1>1, <2>1, <2>2, <2>3, PlanAppends, NoLineageTyped
  <2>5. ~HasLineage(t)
    BY <2>4 DEF HasLineage
  <2> QED BY <2>2, <2>4, <2>5, AppendPreserves
<1>3. ASSUME NEW issuer \in Node, NEW up \in Node, NEW down \in Node,
             NEW id \in DOMAIN tickets, PlanChild(issuer, up, down, id)
      PROVE  CascadeInv'
  <2> DEFINE e == Least(Clock(issuer) + ExpiresAfter, tickets[id].expires_at)
             d == Delegation(issuer, id)
  <2>1. tickets[id].expires_at \in Nat
    <3>1. tickets[id] \in Ticket
      BY <1>1
    <3> QED BY <3>1 DEF Ticket
  <2>2. e \in Nat /\ e <= Clock(issuer) + MaxLease /\ e <= tickets[id].expires_at
    BY <1>1, <2>1 DEF Least
  <2>3. MayDelegate(issuer, id) /\ Plan(issuer, up, down, e, d)
    BY <1>3 DEF PlanChild
  <2>4. d \in Lineage
    <3> DEFINE u == [issuer |-> issuer, delegation |-> d]
    <3>1. u.issuer = issuer /\ u.delegation = d
      OBVIOUS
    <3> QED BY Zenon, <2>3, <3>1, DelegationSound
  <2> HIDE DEF e, d
  <2>5. PICK t \in Ticket :
              /\ tickets' = Append(tickets, t)
              /\ t.issuer = issuer /\ t.delegation = d
              /\ t.expires_at = e /\ t.issued_at = Clock(issuer)
              /\ t.renew_at > t.issued_at /\ t.expires_at > t.renew_at
              /\ UNCHANGED <<now, leases>>
    BY <1>1, <2>2, <2>3, <2>4, PlanAppends
  <2>6. SoundLineage(t, Len(tickets) + 1) /\ Parent(t) = tickets[id]
    BY <2>3, <2>5, DelegationSound DEF d
  <2> QED BY <2>2, <2>5, <2>6, AppendPreserves
<1>4. ASSUME NEW n \in Node, NEW id \in DOMAIN tickets, Accept(n, id) \/ Expire(n, id)
      PROVE  CascadeInv'
  <2>1. UNCHANGED <<now, tickets>> /\ leases' \subseteq leases \cup {<<n, id>>}
    BY <1>4 DEF Accept, Expire
  <2>2. id \in 1 .. Len(tickets)
    BY <1>1
  <2>3. CascadeTypeOK'
    BY <2>1, <2>2 DEF CascadeInv, CascadeTypeOK
  <2> QED BY <2>1, <2>3, TicketsStand DEF CascadeInv
<1>5. CASE Tick
  <2>1. now' \in Nat /\ UNCHANGED <<tickets, leases>>
    BY <1>1, <1>5 DEF Tick
  <2>2. CascadeTypeOK'
    BY <2>1 DEF CascadeInv, CascadeTypeOK
  <2> QED BY <2>1, <2>2, TicketsStand DEF CascadeInv
<1>6. CASE UNCHANGED cascadeVars
  <2>1. CascadeTypeOK' /\ UNCHANGED tickets
    BY <1>6 DEF cascadeVars, CascadeInv, CascadeTypeOK
  <2> QED BY <2>1, TicketsStand DEF CascadeInv
<1> QED BY <1>2, <1>3, <1>4, <1>5, <1>6 DEF CascadeNext

\* The invariant holds in every reachable state: every ticket ever planned
\* (cascade.rs: plan) has a sound lineage and ends with its parent.
THEOREM CascadeInvariant == CascadeSpec => []CascadeInv
  BY CascadeInitInv, CascadeNextInv, PTL DEF CascadeSpec

\* For every maximal depth and any nodes, a lineage names each of its issuers
\* once, follows from its parent's and keeps to the budget
\* (delegation in cascade.rs).
THEOREM LineagesSound == CascadeSpec => []LineageSound
<1>1. CascadeInv => LineageSound
  BY SoundTicketsSuffice DEF CascadeInv
<1> QED BY <1>1, CascadeInvariant, PTL

\* However far clocks are apart, no delegated lease outlives its parent's
\* (plan in cascade.rs).
THEOREM ChildrenWithinParents == CascadeSpec => []ChildWithinParent
<1>1. CascadeInv => ChildWithinParent
  BY SoundTicketsSuffice DEF CascadeInv
<1> QED BY <1>1, CascadeInvariant, PTL

\* The planner and the recipients' validate agree: a ticket that is planned is
\* refused only for its age (plan in cascade.rs, validate in control.rs).
THEOREM PlannedTicketsValidate == CascadeSpec => []PlannedValidates
<1>1. CascadeInv => PlannedValidates
  <2> SUFFICES ASSUME CascadeInv, NEW id \in DOMAIN tickets, NEW n \in Node,
                      Clock(n) < tickets[id].expires_at,
                      tickets[id].issued_at <= Clock(n) + MaxClockSkew
               PROVE  Validate(tickets[id], Clock(n))
    BY DEF PlannedValidates
  <2> DEFINE t == tickets[id]
             d == t.delegation
  <2>1. tickets \in Seq(Ticket)
    BY DEF CascadeInv, CascadeTypeOK
  <2>2. t \in Ticket
    BY <2>1
  <2>3. t.issued_at \in Nat /\ t.expires_at \in Nat /\ d \in Lineage /\ MaxLease \in Nat
    BY <2>2, CascadeAssumption DEF Ticket
  <2>4. t.expires_at - t.issued_at <= MaxLease
    BY <2>3 DEF CascadeInv, Windowed
  <2>5. ASSUME HasLineage(t)
        PROVE  /\ d.depth \in 1 .. MaxDelegationDepth
               /\ d.remaining <= MaxDelegationDepth - d.depth
               /\ Len(d.visited) <= MaxDelegationDepth
    <3>1. /\ d.depth \in 1 .. MaxDelegationDepth
          /\ d.depth + d.remaining = MaxDelegationDepth
          /\ Len(d.visited) = d.depth
      BY <2>5 DEF CascadeInv, SoundTickets, SoundLineage
    <3>2. d.depth \in Nat /\ d.remaining \in Nat /\ MaxDelegationDepth \in Nat
      BY <2>3, CascadeAssumption DEF Lineage
    <3> QED BY <3>1, <3>2
  <2> QED BY <2>4, <2>5 DEF CascadeInv, Windowed, Validate
<1> QED BY <1>1, CascadeInvariant, PTL

-------------------------------------------------------------------------------
(***************************************************************************)
(* RenewalScheduler                                                        *)
(*                                                                         *)
(* The three properties of the renewal scheduler, for any keys, delays and *)
(* number of tickets.  The inductive invariant says in which states an     *)
(* issue may be put off past the handshake timeout (an active lease and    *)
(* nothing pending), that the pending ticket is the newest, and that its   *)
(* renewal is far enough from the attempt that it came from.               *)
(***************************************************************************)

\* NextIssueBounded, with the reason for a long wait.
Waits ==
    \A i \in IssueKey :
        \/ next_issue[i] <= time + HandshakeTimeout
        \/ /\ pending[i] = None
           /\ \E l \in sessions : /\ l.id = active[i] /\ l.issue = i
                                  /\ next_issue[i] <= l.renew_at - Lead

Spaced ==
    /\ \A i \in IssueKey : next_issue[i] >= begun[i] + Retry /\ begun[i] <= time
    /\ \A l \in sessions : /\ l.id <= last_session
                           /\ pending[l.issue] = l.id =>
                                 l.renew_at - Lead >= begun[l.issue] + Retry

Newest == \A i \in IssueKey : pending[i] \in {None, newest[i]}

RenewalInv == RenewalTypeOK /\ Waits /\ Spaced /\ Newest

\* The constants in the form the provers use them.
LEMMA Constants ==
    /\ Retry \in Nat /\ Retry >= 1 /\ HandshakeTimeout \in Nat /\ Lead \in Nat
    /\ Retry <= HandshakeTimeout
    /\ \A r \in RenewIn : r \in Nat /\ Lead + Retry <= r
  BY RenewalAssumption

\* Init establishes the invariant.
LEMMA RenewalInitInv == RenewalInit => RenewalInv
<1> SUFFICES ASSUME RenewalInit PROVE RenewalInv
  OBVIOUS
<1>1. RenewalTypeOK
  BY Constants DEF RenewalInit, RenewalTypeOK, None
<1>2. Waits
  <2>1. \A i \in IssueKey : next_issue[i] = 0 /\ time = 0
    BY DEF RenewalInit
  <2>2. 0 <= 0 + HandshakeTimeout
    BY Constants
  <2> QED BY <2>1, <2>2 DEF Waits
<1>3. Spaced
  BY Constants DEF RenewalInit, Spaced
<1>4. Newest
  BY DEF RenewalInit, Newest
<1> QED BY <1>1, <1>2, <1>3, <1>4 DEF RenewalInv

\* begin_issue preserves the invariant.
LEMMA BeginIssueInv ==
    ASSUME RenewalInv, NEW i \in IssueKey, BeginIssue(i) PROVE RenewalInv'
<1>1. /\ time \in Nat /\ active \in [IssueKey -> Nat] /\ pending \in [IssueKey -> Nat]
      /\ next_issue \in [IssueKey -> Nat] /\ sessions \subseteq Lease
      /\ begun \in [IssueKey -> Int] /\ newest \in [IssueKey -> Nat]
  BY DEF RenewalInv, RenewalTypeOK
<1>2. RenewalTypeOK'
  BY Constants, <1>1 DEF BeginIssue, RenewalInv, RenewalTypeOK, None
<1>3. Waits'
  <2> SUFFICES ASSUME NEW j \in IssueKey
               PROVE  \/ next_issue'[j] <= time' + HandshakeTimeout
                      \/ /\ pending'[j] = None
                         /\ \E l \in sessions' : /\ l.id = active'[j] /\ l.issue = j
                                                 /\ next_issue'[j] <= l.renew_at - Lead
    BY DEF Waits
  <2>1. CASE j = i
    BY Constants, <1>1, <2>1 DEF BeginIssue
  <2>2. CASE j # i
    BY <1>1, <2>2 DEF BeginIssue, RenewalInv, Waits
  <2> QED BY <2>1, <2>2
<1>4. Spaced'
  <2>1. \A j \in IssueKey : next_issue'[j] >= begun'[j] + Retry /\ begun'[j] <= time'
    BY Constants, <1>1 DEF BeginIssue, RenewalInv, Spaced
  <2>2. \A l \in sessions : l.id # None /\ l.issue \in IssueKey
    BY <1>1 DEF Lease
  <2>3. \A l \in sessions : l.issue # i =>
          pending'[l.issue] = pending[l.issue] /\ begun'[l.issue] = begun[l.issue]
    BY <1>1, <2>2 DEF BeginIssue
  <2>4. \A l \in sessions : l.issue = i => pending'[l.issue] # l.id
    BY <1>1, <2>2 DEF BeginIssue
  <2>5. UNCHANGED <<sessions, last_session>>
    BY DEF BeginIssue
  <2> QED BY <2>1, <2>3, <2>4, <2>5 DEF RenewalInv, Spaced
<1>5. Newest'
  BY <1>1 DEF BeginIssue, RenewalInv, Newest
<1> QED BY <1>2, <1>3, <1>4, <1>5 DEF RenewalInv

\* issued preserves the invariant.
LEMMA IssuedInv ==
    ASSUME RenewalInv, NEW i \in IssueKey, NEW r \in RenewIn, Issued(i, r)
    PROVE  RenewalInv'
<1> DEFINE s == last_session + 1
           new == [id |-> s, issue |-> i, renew_at |-> time + r]
<1>1. /\ time \in Nat /\ active \in [IssueKey -> Nat] /\ pending \in [IssueKey -> Nat]
      /\ next_issue \in [IssueKey -> Nat] /\ sessions \subseteq Lease
      /\ begun \in [IssueKey -> Int] /\ newest \in [IssueKey -> Nat]
      /\ last_session \in Nat
  BY DEF RenewalInv, RenewalTypeOK
<1>2. /\ pending' = [pending EXCEPT ![i] = s]
      /\ next_issue' = [next_issue EXCEPT ![i] = time + HandshakeTimeout]
      /\ sessions' = sessions \cup {new}
      /\ last_session' = s /\ newest' = [newest EXCEPT ![i] = s]
      /\ UNCHANGED <<time, active, begun>> /\ issuing' \subseteq issuing
  BY DEF Issued
<1>3. s \in Nat /\ s # None /\ time + r \in Nat /\ time + HandshakeTimeout \in Nat
  BY Constants, <1>1 DEF None
<1>4. new \in Lease
  BY <1>3 DEF Lease
<1>5. RenewalTypeOK'
  BY <1>1, <1>2, <1>3, <1>4 DEF RenewalInv, RenewalTypeOK
<1>6. Waits'
  <2> SUFFICES ASSUME NEW j \in IssueKey
               PROVE  \/ next_issue'[j] <= time' + HandshakeTimeout
                      \/ /\ pending'[j] = None
                         /\ \E l \in sessions' : /\ l.id = active'[j] /\ l.issue = j
                                                 /\ next_issue'[j] <= l.renew_at - Lead
    BY DEF Waits
  <2>1. CASE j = i
    BY <1>1, <1>2, <1>3, <2>1
  <2>2. CASE j # i
    BY <1>1, <1>2, <2>2 DEF RenewalInv, Waits
  <2> QED BY <2>1, <2>2
<1>7. Spaced'
  <2>1. begun[i] <= time
    BY DEF RenewalInv, Spaced
  <2>2. \A j \in IssueKey : next_issue'[j] >= begun'[j] + Retry /\ begun'[j] <= time'
    <3>1. time + HandshakeTimeout >= begun[i] + Retry
      BY Constants, <1>1, <2>1
    <3> QED BY <1>1, <1>2, <3>1 DEF RenewalInv, Spaced
  <2>3. new.renew_at - Lead >= begun[i] + Retry /\ new.id <= s /\ new.issue = i
    <3>1. (time + r) - Lead >= begun[i] + Retry
      BY Constants, <1>1, <2>1
    <3> QED BY <1>3, <3>1
  <2>4. ASSUME NEW l \in sessions
        PROVE  /\ l.id <= s
               /\ pending'[l.issue] = l.id => l.renew_at - Lead >= begun[l.issue] + Retry
    <3>1. l.id \in Nat /\ l.issue \in IssueKey
      BY <1>1 DEF Lease
    <3>2. l.id <= last_session
      BY DEF RenewalInv, Spaced
    <3>3. l.id <= s /\ l.id # s
      BY <1>1, <3>1, <3>2
    <3>4. l.issue # i => pending'[l.issue] = pending[l.issue]
      BY <1>1, <1>2, <3>1
    <3>5. l.issue = i => pending'[l.issue] = s
      BY <1>1, <1>2
    <3> HIDE DEF s
    <3> QED BY <3>3, <3>4, <3>5 DEF RenewalInv, Spaced
  <2> HIDE DEF new, s
  <2> QED BY <1>2, <2>2, <2>3, <2>4 DEF Spaced
<1>8. Newest'
  BY <1>1, <1>2 DEF RenewalInv, Newest
<1> QED BY <1>5, <1>6, <1>7, <1>8 DEF RenewalInv

\* authenticated preserves the invariant.
LEMMA AuthenticatedInv ==
    ASSUME RenewalInv, NEW l \in sessions, Authenticated(l)
    PROVE  RenewalInv'
<1> DEFINE i == l.issue
           g == Greatest(l.renew_at - Lead, time + 1)
<1>1. /\ time \in Nat /\ active \in [IssueKey -> Nat] /\ pending \in [IssueKey -> Nat]
      /\ next_issue \in [IssueKey -> Nat] /\ sessions \subseteq Lease
      /\ begun \in [IssueKey -> Int] /\ newest \in [IssueKey -> Nat]
      /\ last_session \in Nat
  BY DEF RenewalInv, RenewalTypeOK
<1>2. /\ pending[i] = l.id
      /\ active' = [active EXCEPT ![i] = l.id]
      /\ pending' = [pending EXCEPT ![i] = None]
      /\ next_issue' = [next_issue EXCEPT ![i] = g]
      /\ UNCHANGED <<time, sessions, issuing, last_session, newest, begun>>
  BY DEF Authenticated
<1>3. l.id \in Nat /\ l.id # None /\ i \in IssueKey /\ l.renew_at \in Nat
  BY <1>1 DEF Lease
<1>4. l.renew_at - Lead >= begun[i] + Retry
  BY <1>2 DEF RenewalInv, Spaced
<1>5. /\ g \in Nat /\ g >= begun[i] + Retry
      /\ g <= time + HandshakeTimeout \/ g <= l.renew_at - Lead
  <2>1. begun[i] \in Int
    BY <1>1, <1>3
  <2> QED BY Constants, <1>1, <1>3, <1>4, <2>1 DEF Greatest
<1> HIDE DEF g
<1>6. RenewalTypeOK'
  BY Zenon, <1>1, <1>2, <1>3, <1>5 DEF RenewalInv, RenewalTypeOK, None
<1>7. Waits'
  <2> SUFFICES ASSUME NEW j \in IssueKey
               PROVE  \/ next_issue'[j] <= time' + HandshakeTimeout
                      \/ /\ pending'[j] = None
                         /\ \E m \in sessions' : /\ m.id = active'[j] /\ m.issue = j
                                                 /\ next_issue'[j] <= m.renew_at - Lead
    BY Zenon DEF Waits
  <2>1. CASE j = i
    <3>1. next_issue'[j] = g /\ pending'[j] = None /\ active'[j] = l.id /\ l \in sessions'
      BY <1>1, <1>2, <1>3, <2>1
    <3> QED BY <1>2, <1>5, <2>1, <3>1
  <2>2. CASE j # i
    BY ZenonT(30), <1>1, <1>2, <2>2 DEF RenewalInv, Waits
  <2> QED BY <2>1, <2>2
<1>8. Spaced'
  <2>1. \A j \in IssueKey : next_issue'[j] >= begun'[j] + Retry /\ begun'[j] <= time'
    BY Zenon, <1>1, <1>2, <1>5 DEF RenewalInv, Spaced
  <2>2. ASSUME NEW m \in sessions
        PROVE  pending'[m.issue] = m.id => m.renew_at - Lead >= begun[m.issue] + Retry
    <3>1. m.id # None /\ m.issue \in IssueKey
      BY <1>1 DEF Lease
    <3>2. m.issue # i => pending'[m.issue] = pending[m.issue]
      BY <1>1, <1>2, <3>1
    <3>3. m.issue = i => pending'[m.issue] = None
      BY <1>1, <1>2, <3>1
    <3> QED BY <3>1, <3>2, <3>3 DEF RenewalInv, Spaced
  <2> QED BY <1>2, <2>1, <2>2 DEF RenewalInv, Spaced
<1>9. Newest'
  BY ZenonT(30), <1>1, <1>2 DEF RenewalInv, Newest
<1> QED BY <1>6, <1>7, <1>8, <1>9 DEF RenewalInv

\* removed preserves the invariant.
LEMMA RemovedInv ==
    ASSUME RenewalInv, NEW l \in sessions, Removed(l)
    PROVE  RenewalInv'
<1> DEFINE i == l.issue
           due == pending[i] = l.id \/ (active[i] = l.id /\ pending[i] = None)
           n == IF due THEN Lesser(next_issue[i], time + Retry) ELSE next_issue[i]
<1>1. /\ time \in Nat /\ active \in [IssueKey -> Nat] /\ pending \in [IssueKey -> Nat]
      /\ next_issue \in [IssueKey -> Nat] /\ sessions \subseteq Lease
      /\ begun \in [IssueKey -> Int] /\ newest \in [IssueKey -> Nat]
      /\ last_session \in Nat
  BY DEF RenewalInv, RenewalTypeOK
<1>2. /\ sessions' = sessions \ {l}
      /\ pending' = [pending EXCEPT ![i] = IF pending[i] = l.id THEN None ELSE @]
      /\ active' = [active EXCEPT ![i] = IF active[i] = l.id THEN None ELSE @]
      /\ next_issue' = [next_issue EXCEPT ![i] = n]
      /\ UNCHANGED <<time, issuing, last_session, newest, begun>>
  BY DEF Removed
<1>3. l.id \in Nat /\ l.id # None /\ i \in IssueKey
  BY <1>1 DEF Lease
<1>4. next_issue[i] >= begun[i] + Retry /\ begun[i] <= time /\ begun[i] \in Int
      /\ next_issue[i] \in Nat
  BY Zenon, <1>1, <1>3 DEF RenewalInv, Spaced
<1>5. /\ n \in Nat /\ n >= begun[i] + Retry
      /\ due => n <= time + HandshakeTimeout
      /\ ~due => n = next_issue[i]
  BY Constants, <1>1, <1>4 DEF Lesser
<1> HIDE DEF n
<1>6. RenewalTypeOK'
  BY Zenon, <1>1, <1>2, <1>3, <1>5 DEF RenewalInv, RenewalTypeOK, None
<1>7. Waits'
  <2> SUFFICES ASSUME NEW j \in IssueKey
               PROVE  \/ next_issue'[j] <= time' + HandshakeTimeout
                      \/ /\ pending'[j] = None
                         /\ \E m \in sessions' : /\ m.id = active'[j] /\ m.issue = j
                                                 /\ next_issue'[j] <= m.renew_at - Lead
    BY DEF Waits
  <2>1. CASE j = i /\ due
    BY Zenon, <1>1, <1>2, <1>3, <1>5, <2>1
  <2>2. CASE j = i /\ ~due
    <3>1. next_issue'[j] = next_issue[j] /\ time' = time
      BY <1>1, <1>2, <1>3, <1>5, <2>2
    <3>2. CASE next_issue[j] <= time + HandshakeTimeout
      BY <3>1, <3>2
    <3>3. CASE ~(next_issue[j] <= time + HandshakeTimeout)
      <4>1. PICK m \in sessions : /\ m.id = active[j] /\ m.issue = j
                                  /\ next_issue[j] <= m.renew_at - Lead
        BY <3>3 DEF RenewalInv, Waits
      <4>2. pending[j] = None
        BY <3>3 DEF RenewalInv, Waits
      <4>3. active[i] # l.id /\ m # l
        BY <2>2, <4>1, <4>2
      <4>4. pending'[j] = None /\ active'[j] = active[j] /\ m \in sessions'
        BY Zenon, <1>1, <1>2, <1>3, <2>2, <4>2, <4>3
      <4> QED BY <3>1, <4>1, <4>4
    <3> QED BY Zenon, <3>2, <3>3
  <2>3. CASE j # i
    <3>1. /\ next_issue'[j] = next_issue[j] /\ time' = time
          /\ pending'[j] = pending[j] /\ active'[j] = active[j]
          /\ \A m \in sessions : m.issue = j => m \in sessions'
      BY Zenon, <1>1, <1>2, <2>3
    <3> QED BY <3>1 DEF RenewalInv, Waits
  <2> QED BY Zenon, <2>1, <2>2, <2>3
<1>8. Spaced'
  <2>1. \A j \in IssueKey : next_issue'[j] >= begun'[j] + Retry /\ begun'[j] <= time'
    BY ZenonT(30), <1>1, <1>2, <1>5 DEF RenewalInv, Spaced
  <2>2. ASSUME NEW m \in sessions
        PROVE  pending'[m.issue] = m.id => m.renew_at - Lead >= begun[m.issue] + Retry
    <3>1. m.id # None /\ m.issue \in IssueKey
      BY <1>1 DEF Lease
    <3>2. pending'[m.issue] = pending[m.issue] \/ pending'[m.issue] = None
      BY <1>1, <1>2, <1>3, <3>1
    <3> QED BY <3>1, <3>2 DEF RenewalInv, Spaced
  <2> QED BY <1>2, <2>1, <2>2 DEF RenewalInv, Spaced
<1>9. Newest'
  BY <1>1, <1>2 DEF RenewalInv, Newest
<1> QED BY <1>6, <1>7, <1>8, <1>9 DEF RenewalInv

\* The passing of time preserves the invariant.
LEMMA TickInv == ASSUME RenewalInv, RenewalTick PROVE RenewalInv'
<1>1. time \in Nat /\ time' = time + 1 /\ next_issue \in [IssueKey -> Nat]
      /\ begun \in [IssueKey -> Int]
  BY DEF RenewalTick, RenewalInv, RenewalTypeOK
<1>2. UNCHANGED <<active, pending, next_issue, sessions, issuing, last_session, newest, begun>>
  BY DEF RenewalTick, issueVars
<1>3. RenewalTypeOK'
  <2>1. time' \in Nat
    BY <1>1
  <2> QED BY Zenon, <1>2, <2>1 DEF RenewalInv, RenewalTypeOK
<1>4. Waits'
  <2>1. \A i \in IssueKey : next_issue[i] <= time + HandshakeTimeout =>
          next_issue[i] <= time' + HandshakeTimeout
    BY Constants, <1>1
  <2> QED BY <1>2, <2>1 DEF RenewalInv, Waits
<1>5. Spaced'
  <2>1. \A i \in IssueKey : begun[i] <= time => begun[i] <= time'
    BY <1>1
  <2> QED BY <1>2, <2>1 DEF RenewalInv, Spaced
<1>6. Newest'
  BY <1>2 DEF RenewalInv, Newest
<1> QED BY <1>3, <1>4, <1>5, <1>6 DEF RenewalInv

\* Every step preserves the invariant.
LEMMA RenewalNextInv == RenewalInv /\ [RenewalNext]_renewalVars => RenewalInv'
<1> SUFFICES ASSUME RenewalInv, [RenewalNext]_renewalVars PROVE RenewalInv'
  OBVIOUS
<1>1. CASE UNCHANGED renewalVars
  BY <1>1 DEF renewalVars, RenewalInv, RenewalTypeOK, Waits, Spaced, Newest
<1> QED BY <1>1, BeginIssueInv, IssuedInv, AuthenticatedInv, RemovedInv, TickInv
       DEF RenewalNext

\* The invariant behind the scheduler's properties (renewal.rs) holds in every
\* reachable state.
THEOREM RenewalInvariant == RenewalSpec => []RenewalInv
  BY RenewalInitInv, RenewalNextInv, PTL DEF RenewalSpec

\* Whatever is lost or removed in whatever order, the next ticket for a key is
\* at most the handshake timeout away, or due when the active lease is to be
\* renewed (RenewalScheduler::authenticated, removed).
THEOREM IssuesNeverStall == RenewalSpec => []NextIssueBounded
<1>1. RenewalInv => NextIssueBounded
  BY DEF RenewalInv, Waits, NextIssueBounded
<1> QED BY <1>1, RenewalInvariant, PTL

\* Tickets for one key are never begun less than Retry seconds apart
\* (RenewalScheduler::begin_issue, removed).
THEOREM IssuesSpaced == RenewalSpec => []IssuesThrottled
<1>1. RenewalInv => IssuesThrottled
  BY DEF RenewalInv, Spaced, IssuesThrottled
<1> QED BY <1>1, RenewalInvariant, PTL

\* A handshake that completes after its ticket was replaced never makes the
\* old session active (RenewalScheduler::authenticated).
THEOREM NewestActivates == RenewalSpec => OnlyNewestActivates
<1> DEFINE A == \A i \in IssueKey :
                    active'[i] \notin {active[i], None} => active'[i] = newest[i]
<1>1. RenewalInv /\ [RenewalNext]_renewalVars => [A]_renewalVars
  <2> SUFFICES ASSUME RenewalInv, RenewalNext PROVE A
    OBVIOUS
  <2>1. active \in [IssueKey -> Nat] /\ sessions \subseteq Lease
    BY DEF RenewalInv, RenewalTypeOK
  <2>2. ASSUME NEW l \in sessions, Authenticated(l) PROVE A
    <3>1. l.id # None /\ l.issue \in IssueKey
      BY <2>1 DEF Lease
    <3>2. /\ pending[l.issue] = l.id
          /\ active' = [active EXCEPT ![l.issue] = l.id]
      BY <2>2 DEF Authenticated
    <3>3. l.id = newest[l.issue]
      BY <3>1, <3>2 DEF RenewalInv, Newest
    <3> QED BY <2>1, <3>1, <3>2, <3>3
  <2>3. ASSUME NEW l \in sessions, Removed(l) PROVE A
    BY <2>1, <2>3 DEF Removed
  <2>4. ASSUME NEW i \in IssueKey, BeginIssue(i) PROVE A
    BY <2>4 DEF BeginIssue
  <2>5. ASSUME NEW i \in IssueKey, NEW r \in RenewIn, Issued(i, r) PROVE A
    BY <2>5 DEF Issued
  <2>6. CASE RenewalTick
    BY <2>6 DEF RenewalTick, issueVars
  <2> QED BY <2>2, <2>3, <2>4, <2>5, <2>6 DEF RenewalNext
<1> QED BY <1>1, RenewalInvariant, PTL DEF RenewalSpec, OnlyNewestActivates

-------------------------------------------------------------------------------
(***************************************************************************)
(* TransitDetector                                                         *)
(***************************************************************************)

INSTANCE WellFoundedInduction

\* A set of natural numbers that is not empty and has a bound has a greatest
\* element.
LEMMA HasGreatest ==
    ASSUME NEW n \in Nat, NEW S, S \subseteq 0 .. n, S # {}
    PROVE  \E g \in S : \A m \in S : m <= g
<1> DEFINE R == OpToRel(<, Nat)
<1>1. IsWellFoundedOn(R, Nat)
  BY Zenon, NatLessThanWellFounded
<1>2. \A x, y \in Nat : x < y => <<x, y>> \in R
  BY DEF OpToRel
<1> HIDE DEF R
<1> DEFINE T == {d \in 0 .. n : n - d \in S}
<1>3. T \subseteq Nat /\ T # {}
  <2>1. PICK m \in S : m \in 0 .. n
    BY Zenon
  <2>2. n - m \in 0 .. n /\ n - (n - m) = m
    BY <2>1
  <2> QED  BY <2>1, <2>2
<1>4. PICK d \in T : \A e \in T : ~(<<e, d>> \in R)
  BY Zenon, <1>1, <1>3, WFMin
<1>5. \A e \in T : ~(e < d)
  BY Zenon, <1>2, <1>3, <1>4
<1>6. ASSUME NEW m \in S
      PROVE  m <= n - d
  <2>1. m \in 0 .. n /\ n - m \in 0 .. n /\ n - (n - m) = m
    OBVIOUS
  <2>2. ~(n - m < d)
    BY <1>5, <2>1
  <2> QED  BY <2>1, <2>2
<1> QED  BY <1>6

\* The length of a peer's longest prefix for an address.
LEMMA MaxMatching ==
    ASSUME NEW p, NEW address, Matching(p, address) # {}
    PROVE  /\ Max(Matching(p, address)) \in Matching(p, address)
           /\ Max(Matching(p, address)) \in 0 .. Bits
           /\ \A n \in Matching(p, address) : n <= Max(Matching(p, address))
<1> DEFINE M == Matching(p, address)
<1>1. M \subseteq 0 .. Bits
  BY TransitAssumption DEF Matching
<1> HIDE DEF M
<1>2. M # {}
  BY DEF M
<1>3. PICK g \in M : \A m \in M : m <= g
  BY Zenon, <1>1, <1>2, HasGreatest, TransitAssumption
<1>4. \A m \in M : g >= m
  BY <1>1, <1>3
<1>5. Max(M) \in M /\ \A m \in M : Max(M) >= m
  BY <1>3, <1>4 DEF Max
<1> QED  BY <1>1, <1>5 DEF M

\* Every peer has its place in the list.
LEMMA ListedFacts == \A p \in PeerKey : Listed(p) \in 0 .. Len(Peers) /\ Len(Peers) \in Nat
<1>1. DOMAIN Peers = 1 .. Len(Peers) /\ Len(Peers) \in Nat
  BY TransitAssumption
<1>2. \A p \in PeerKey : \E i \in DOMAIN Peers : Peers[i] = p
  BY DEF PeerKey, Range
<1>3. \A p \in PeerKey : Listed(p) \in DOMAIN Peers
  BY <1>2 DEF Listed
<1> QED  BY <1>1, <1>3

\* The lookup finds a candidate whose prefix is at least as long as that of
\* every other candidate.
LEMMA LongestFacts ==
    ASSUME NEW address, NEW exclude,
           longest_matching_prefix(address, exclude) # NoPeer
    PROVE  LET d == longest_matching_prefix(address, exclude)
           IN  /\ d \in Candidates(address, exclude)
               /\ \A q \in Candidates(address, exclude) :
                     Max(Matching(q, address)) <= Max(Matching(d, address))
<1> DEFINE d == longest_matching_prefix(address, exclude)
<1> DEFINE C == Candidates(address, exclude)
<1> DEFINE L == {p \in C : \A q \in C : Max(Matching(q, address)) <= Max(Matching(p, address))}
<1>1. d = IF L = {} THEN NoPeer ELSE CHOOSE p \in L : \A q \in L : Listed(q) <= Listed(p)
  BY DEF longest_matching_prefix
<1>2. L # {}
  BY <1>1
<1>3. L \subseteq PeerKey
  BY DEF Candidates
<1> HIDE DEF L
<1> DEFINE places == {Listed(p) : p \in L}
<1>4. places \subseteq 0 .. Len(Peers) /\ places # {} /\ Len(Peers) \in Nat
  BY <1>2, <1>3, ListedFacts
<1>5. PICK i \in places : \A m \in places : m <= i
  BY Zenon, <1>4, HasGreatest
<1>6. \E p \in L : \A q \in L : Listed(q) <= Listed(p)
  BY <1>5
<1> HIDE DEF d
<1>7. d \in L
  BY Zenon, <1>1, <1>2, <1>6
<1> QED  BY <1>7 DEF d, L

-------------------------------------------------------------------------------
\* A reported flow goes to the peer with the longest prefix.
LEMMA ReportIsLongest ==
    ASSUME TransitInv, NEW path, NEW upstream \in PeerKey, NEW source, NEW destination,
           Observe(path, upstream, source, destination)
    PROVE  DownstreamIsLongest'
<1> DEFINE d == longest_matching_prefix(destination, upstream)
<1>1. /\ d # NoPeer /\ UNCHANGED owner
      /\ report' = [upstream |-> upstream, downstream |-> d, source |-> source, destination |-> destination]
  BY DEF Observe, Forwarded
<1>2. /\ d \in Candidates(destination, upstream)
      /\ \A q \in Candidates(destination, upstream) :
            Max(Matching(q, destination)) <= Max(Matching(d, destination))
  BY <1>1, LongestFacts
<1> HIDE DEF d
<1>3. Matching(d, destination) # {}
  BY <1>2 DEF Candidates
<1>4. Max(Matching(d, destination)) \in Matching(d, destination) /\ Max(Matching(d, destination)) \in 0 .. Bits
  BY ZenonT(30), <1>3, MaxMatching
<1>5. PICK x \in Prefix : /\ owner[x] = d /\ contains(x, destination)
                          /\ x.len = Max(Matching(d, destination))
  BY <1>4 DEF Matching
<1>6. ASSUME NEW y \in Prefix, owner[y] \notin {NoPeer, upstream}, contains(y, destination)
      PROVE  y.len <= x.len
  <2> DEFINE q == owner[y]
  <2>1. q \in PeerKey \ {upstream}
    BY Zenon, <1>6 DEF TransitInv
  <2>2. y.len \in Matching(q, destination)
    BY <1>6 DEF Matching
  <2> HIDE DEF q
  <2>3. q \in Candidates(destination, upstream)
    BY <2>1, <2>2 DEF Candidates
  <2>4. /\ y.len <= Max(Matching(q, destination)) /\ Max(Matching(q, destination)) \in 0 .. Bits
    BY ZenonT(30), <2>2, MaxMatching
  <2>5. Max(Matching(q, destination)) <= x.len
    BY <1>2, <1>5, <2>3
  <2>6. y.len \in Nat /\ x.len \in Nat
    BY TransitAssumption
  <2> QED  BY <2>4, <2>5, <2>6
<1>7. report'.upstream = upstream /\ report'.downstream = d /\ report'.destination = destination
  BY ZenonT(30), <1>1
<1> QED  BY ZenonT(30), <1>1, <1>5, <1>6, <1>7 DEF DownstreamIsLongest, contains

\* What a report adds to the map and to its history.
LEMMA ObserveFacts ==
    ASSUME TransitInv, NEW path, NEW upstream \in PeerKey, NEW source, NEW destination,
           Observe(path, upstream, source, destination)
    PROVE  \E flow :
              /\ ~Suppressed(flow)
              /\ observed' = Observed(flow)
              /\ reported' = [f \in DOMAIN reported \cup {flow} |-> IF f = flow THEN clock ELSE reported[f]]
              /\ UNCHANGED <<clock, steps, owner>>
BY Zenon DEF Observe

\* Every step keeps TransitInv.
LEMMA TransitStep == TransitInv /\ [TransitNext]_transitVars => TransitInv'
<1> SUFFICES ASSUME TransitInv, [TransitNext]_transitVars
             PROVE  TransitInv'
  OBVIOUS
<1>1. ASSUME NEW path \in {"base", "shortcut"}, NEW upstream \in PeerKey,
             NEW source \in Source, NEW destination \in Destination,
             Observe(path, upstream, source, destination)
      PROVE  TransitInv'
  <2>1. PICK flow : /\ ~Suppressed(flow)
                    /\ observed' = Observed(flow)
                    /\ reported' = [f \in DOMAIN reported \cup {flow} |->
                                       IF f = flow THEN clock ELSE reported[f]]
                    /\ UNCHANGED <<clock, steps, owner>>
    BY Zenon, <1>1, ObserveFacts
  <2>2. DownstreamIsLongest'
    BY Zenon, <1>1, ReportIsLongest
  <2>3. /\ DOMAIN observed' = {flow} \cup {g \in DOMAIN observed : Elapsed(observed[g]) < Suppression}
        /\ \A g \in DOMAIN observed' : observed'[g] = IF g = flow THEN clock ELSE observed[g]
    BY <2>1 DEF Observed
  <2>4. /\ DOMAIN reported' = DOMAIN reported \cup {flow}
        /\ \A g \in DOMAIN reported' : reported'[g] = IF g = flow THEN clock ELSE reported[g]
    BY Zenon, <2>1
  <2>5. /\ DOMAIN observed' \subseteq DOMAIN reported'
        /\ \A f \in DOMAIN reported' : reported'[f] \in Nat
        /\ \A f \in DOMAIN observed' : observed'[f] = reported'[f]
    BY Zenon, <2>3, <2>4 DEF TransitInv
  <2>6. ASSUME steps = 0, NEW f \in DOMAIN reported'
        PROVE  /\ reported'[f] <= clock
               /\ f \notin DOMAIN observed' => reported'[f] + Suppression <= clock
    <3>1. clock \in Nat /\ Suppression \in Nat
      BY TransitAssumption DEF TransitInv
    <3>2. CASE f = flow
      BY <2>3, <2>4, <3>1, <3>2
    <3>3. CASE f # flow
      <4>1. f \in DOMAIN reported /\ reported'[f] = reported[f]
        BY Zenon, <2>4, <2>6, <3>3
      <4>2. /\ reported[f] \in Nat /\ reported[f] <= clock
            /\ f \notin DOMAIN observed => reported[f] + Suppression <= clock
            /\ f \in DOMAIN observed => observed[f] = reported[f]
        BY Zenon, <2>6, <4>1 DEF TransitInv
      <4>3. f \in DOMAIN observed \ DOMAIN observed' => ~(Elapsed(observed[f]) < Suppression)
        BY <2>3
      <4> QED  BY <3>1, <4>1, <4>2, <4>3 DEF Elapsed
    <3> QED  BY <3>2, <3>3
  <2>7. ASSUME steps = 0, NEW f \in DOMAIN observed', NEW g \in DOMAIN observed'
        PROVE  observed'[f] - observed'[g] < Suppression
    <3>1. clock \in Nat /\ Suppression \in Nat \ {0}
      BY TransitAssumption DEF TransitInv
    <3>2. ASSUME NEW h \in DOMAIN observed', h # flow
          PROVE  /\ h \in DOMAIN observed /\ observed'[h] = observed[h]
                 /\ observed[h] \in Nat /\ observed[h] <= clock
                 /\ clock - observed[h] < Suppression
      <4>1. h \in DOMAIN observed /\ observed'[h] = observed[h] /\ Elapsed(observed[h]) < Suppression
        BY Zenon, <2>3, <3>2
      <4>2. observed[h] \in Nat /\ observed[h] <= clock
        BY <2>7, <4>1 DEF TransitInv
      <4> QED  BY Zenon, <3>1, <4>1, <4>2 DEF Elapsed
    <3>3. flow \in DOMAIN observed' /\ observed'[flow] = clock
      BY <2>3
    <3>4. CASE f # flow /\ g # flow
      BY <2>7, <3>2, <3>4 DEF TransitInv
    <3>5. CASE f = flow /\ g = flow
      BY <3>1, <3>3, <3>5
    <3>6. CASE f = flow /\ g # flow
      <4>1. observed'[g] = observed[g] /\ observed[g] \in Nat /\ clock - observed[g] < Suppression
        BY Zenon, <3>2, <3>6
      <4> QED  BY <3>3, <3>6, <4>1
    <3>7. CASE f # flow /\ g = flow
      <4>1. observed'[f] = observed[f] /\ observed[f] \in Nat /\ observed[f] <= clock
        BY Zenon, <3>2, <3>7
      <4> QED  BY <3>1, <3>3, <3>7, <4>1
    <3> QED  BY Zenon, <3>4, <3>5, <3>6, <3>7
  <2> QED  BY Zenon, <2>1, <2>2, <2>5, <2>6, <2>7 DEF TransitInv
<1>2. CASE \E p \in PeerKey : Handshake(p)
  BY Zenon, <1>2 DEF Handshake, TransitInv, DownstreamIsLongest
<1>3. CASE ClockTick
  <2>1. clock' = clock + 1 /\ UNCHANGED <<steps, owner, observed, report, reported>>
    BY Zenon, <1>3 DEF ClockTick
  <2>2. clock \in Nat /\ Suppression \in Nat
    BY Zenon, TransitAssumption DEF TransitInv
  <2>3. clock' \in Nat
    BY <2>1, <2>2
  <2>4. ASSUME NEW f \in DOMAIN reported, reported[f] \in Nat
        PROVE  /\ reported[f] <= clock => reported[f] <= clock'
               /\ reported[f] + Suppression <= clock => reported[f] + Suppression <= clock'
    BY <2>1, <2>2, <2>4
  <2>5. DownstreamIsLongest'
    BY Zenon, <2>1 DEF TransitInv, DownstreamIsLongest
  <2> QED  BY Zenon, <2>1, <2>3, <2>4, <2>5 DEF TransitInv
<1>4. CASE \E t \in 1 .. MaxClock : StepBack(t)
  <2>1. PICK t \in 1 .. MaxClock : StepBack(t)
    BY Zenon, <1>4
  <2>2. steps' = steps + 1 /\ clock' = t /\ UNCHANGED <<owner, observed, report, reported>>
    BY Zenon, <2>1 DEF StepBack
  <2>3. steps \in Nat /\ MaxClock \in Nat
    BY Zenon, TransitAssumption DEF TransitInv
  <2>4. steps' \in Nat /\ steps' # 0 /\ clock' \in Nat
    BY <2>2, <2>3
  <2>5. DownstreamIsLongest'
    BY ZenonT(30), <2>2 DEF TransitInv, DownstreamIsLongest
  <2> QED  BY Zenon, <2>2, <2>4, <2>5 DEF TransitInv
<1>5. CASE UNCHANGED transitVars
  BY <1>5 DEF transitVars, TransitInv, DownstreamIsLongest
<1> QED  BY <1>1, <1>2, <1>3, <1>4, <1>5 DEF TransitNext

LEMMA TransitAlways == TransitSpec => []TransitInv
<1>1. ASSUME TransitInit PROVE TransitInv
  <2>1. DOMAIN observed = {} /\ DOMAIN reported = {} /\ report = NoReport
    BY <1>1 DEF TransitInit
  <2>2. clock \in Nat /\ steps \in Nat /\ owner \in [Prefix -> PeerKey \cup {NoPeer}]
    BY Zenon, <1>1 DEF TransitInit
  <2>3. DownstreamIsLongest
    BY Zenon, <2>1 DEF DownstreamIsLongest
  <2> QED  BY <2>1, <2>2, <2>3 DEF TransitInv
<1> QED  BY <1>1, TransitStep, PTL DEF TransitSpec

\* The opportunity's downstream peer is one whose prefixes match at least as
\* closely as those of every other peer but the upstream, for any list of peers
\* and any prefixes (wireguard.rs:81).
THEOREM ReportsLongestMatch == TransitSpec => []DownstreamIsLongest
<1>1. TransitInv => DownstreamIsLongest
  BY Zenon DEF TransitInv
<1> QED  BY <1>1, TransitAlways, PTL

\* However the clock is set, no flow is suppressed past the suppression time
\* of its last report; without steps back the map holds only the flows of one
\* suppression time (transit.rs:85-92).
THEOREM SuppressionIsBounded == TransitSpec => []SuppressionEnds
<1>1. TransitInv => SuppressionEnds
  <2> SUFFICES ASSUME TransitInv PROVE SuppressionEnds
    BY Zenon
  <2>1. clock \in Nat /\ Suppression \in Nat
    BY Zenon, TransitAssumption DEF TransitInv
  <2>2. ASSUME NEW f \in Flow, Suppressed(f)
        PROVE  f \in DOMAIN reported /\ clock < reported[f] + Suppression
    <3>1. f \in DOMAIN reported /\ reported[f] \in Nat /\ Elapsed(reported[f]) < Suppression
      BY Zenon, <2>2 DEF TransitInv, Suppressed
    <3> QED  BY <2>1, <3>1 DEF Elapsed
  <2> QED  BY Zenon, <2>2 DEF TransitInv, SuppressionEnds
<1> QED  BY <1>1, TransitAlways, PTL

\* While the clock is not set back, two reports of a flow are at least the
\* suppression time apart (transit.rs:85-93).
THEOREM ReportsAreSpaced == TransitSpec => OncePerWindow
<1>1. TransitInv /\ [TransitNext]_transitVars =>
         [\A f \in DOMAIN reported :
             steps = 0 /\ reported'[f] # reported[f] =>
                 reported'[f] >= reported[f] + Suppression]_transitVars
  <2> SUFFICES ASSUME TransitInv, TransitNext, NEW f \in DOMAIN reported,
                      steps = 0, reported'[f] # reported[f]
               PROVE  reported'[f] >= reported[f] + Suppression
    BY ZenonT(30)
  <2>1. PICK path \in {"base", "shortcut"}, upstream \in PeerKey, source \in Source, destination \in Destination :
           Observe(path, upstream, source, destination)
    BY DEF TransitNext, Handshake, ClockTick, StepBack
  <2>2. PICK flow : /\ ~Suppressed(flow)
                    /\ reported' = [g \in DOMAIN reported \cup {flow} |->
                                       IF g = flow THEN clock ELSE reported[g]]
    BY Zenon, <2>1, ObserveFacts
  <2>3. f = flow /\ reported'[f] = clock
    BY <2>2
  <2> QED  BY <2>2, <2>3, TransitAssumption DEF TransitInv, Suppressed, Elapsed
<1> QED  BY <1>1, TransitAlways, PTL DEF TransitSpec, OncePerWindow

===============================================================================
