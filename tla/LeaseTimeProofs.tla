--------------------------- MODULE LeaseTimeProofs ----------------------------
(***************************************************************************)
(* Proofs about times: the leases of a hub, which must not end before they *)
(* are replaced, and the names of relays, which change with the hour.      *)
(***************************************************************************)
EXTENDS HubIssuer, IdentityRotation, TLAPS

-------------------------------------------------------------------------------
(***************************************************************************)
(* HubIssuer                                                               *)
(*                                                                         *)
(* The hub's tickets are valid and bounded by both base handshakes, for    *)
(* every set of peers, every choice of the times, and whatever the network *)
(* loses or delays.                                                        *)
(***************************************************************************)

\* A bound that counts its own delay stays ahead of the clock, and so does
\* one that is not due yet.
LEMMA TickBounds ==
    /\ \A c, e, l, m \in Nat : c < e + m + l => c + 1 < e + m + (l + 1)
    /\ \A c, e, s, m \in Nat : c < e + s /\ s < m => c + 1 < e + m + 0
OBVIOUS

\* A bound that moves with the clock stays ahead of it.
LEMMA MovingBounds ==
    /\ \A c, e, s \in Nat : c < e + s => c + 1 < e + (s + 1)
    /\ \A c, e, m, p, s \in Nat : c < e + m + p + s => c + 1 < e + m + p + (s + 1)
OBVIOUS

\* Handshakes are dated in the past, so a new one only moves a deadline out.
HandshakesPast == \A p \in Peer : latest_handshake[p] <= now

HubInv == HubTypeOK /\ HandshakesPast /\ LeaseWithinHandshakes /\ TicketsValid

\* What the planner computes for a pair with two renewable handshakes:
\* the renewal window at its full length, within both deadlines.
LEMMA PlanFacts ==
    ASSUME HubTypeOK, NEW e \in Pair, Renewable(e)
    PROVE  /\ expires_at(e) \in Nat
           /\ renew_at(e) = now + RenewAfter
           /\ renew_at(e) < expires_at(e)
           /\ expires_at(e) <= now + MaxLease
           /\ next_issue(e) \in Nat
           /\ \A p \in {e[1], e[2]} :
                 expires_at(e) <= latest_handshake[p] + HandshakeLifetime
<1>1. e[1] \in Peer /\ e[2] \in Peer
  BY HubAssumption
<1>2. latest_handshake[e[1]] \in Nat /\ latest_handshake[e[2]] \in Nat /\ now \in Nat
  BY <1>1 DEF HubTypeOK
<1>3. /\ now + RenewAfter + 1 <= latest_handshake[e[1]] + HandshakeLifetime
      /\ now + RenewAfter + 1 <= latest_handshake[e[2]] + HandshakeLifetime
  BY DEF Renewable, renewable_handshake
<1>4. /\ RenewAfter \in Nat \ {0} /\ ExpiresAfter \in Nat /\ RenewAfter < ExpiresAfter
      /\ MaxLease \in Nat /\ ExpiresAfter <= MaxLease
      /\ HandshakeLifetime \in Nat /\ RenewalLead \in Nat
  BY HubAssumption
<1>5. /\ handshake_deadline(e) \in Nat
      /\ handshake_deadline(e) <= latest_handshake[e[1]] + HandshakeLifetime
      /\ handshake_deadline(e) <= latest_handshake[e[2]] + HandshakeLifetime
      /\ now + RenewAfter + 1 <= handshake_deadline(e)
  BY <1>2, <1>3, <1>4 DEF handshake_deadline, LesserOf
<1>6. /\ expires_at(e) \in Nat
      /\ expires_at(e) <= handshake_deadline(e)
      /\ expires_at(e) <= now + ExpiresAfter
      /\ now + RenewAfter + 1 <= expires_at(e)
  BY <1>2, <1>4, <1>5 DEF expires_at, LesserOf
<1>7. renew_at(e) = now + RenewAfter
  BY <1>2, <1>4, <1>6 DEF renew_at, LesserOf
<1>8. next_issue(e) \in Nat
  BY <1>2, <1>4, <1>7 DEF next_issue, GreaterOf
<1> QED
  BY <1>2, <1>4, <1>5, <1>6, <1>7, <1>8

\* The issue time of a pair after a poll.
LEMMA IssueTimeType ==
    ASSUME HubTypeOK, NEW e \in Pair, NEW sent
    PROVE  IssueTime(e, sent) \in Nat
<1>1. now \in Nat /\ issues[e] \in Nat /\ RetryAfter \in Nat
  BY HubAssumption DEF HubTypeOK
<1>2. Planned(e) => next_issue(e) \in Nat
  BY PlanFacts DEF Planned
<1> QED
  BY <1>1, <1>2 DEF IssueTime

\* A ticket that a poll sends.
LEMMA SentTicket ==
    ASSUME HubTypeOK, NEW e \in Pair, NEW p \in Peer, Planned(e)
    PROVE  LET t == TicketFor(e, p)
           IN  /\ t \in Ticket
               /\ t.issued_at < t.renew_at
               /\ t.renew_at < t.expires_at
               /\ t.renew_at = t.issued_at + RenewAfter
               /\ t.expires_at <= t.issued_at + MaxLease
               /\ \A q \in {t.pair[1], t.pair[2]} :
                     t.expires_at <= latest_handshake[q] + HandshakeLifetime
<1>1. Renewable(e)
  BY DEF Planned
<1>2. now \in Nat /\ RenewAfter \in Nat \ {0}
  BY HubAssumption DEF HubTypeOK
<1> QED
  BY <1>1, <1>2, PlanFacts DEF TicketFor, Ticket

\* Init establishes the invariant.
LEMMA HubInitInv == HubInit => HubInv
  BY HubAssumption
  DEF HubInit, HubInv, HubTypeOK, HandshakesPast, LeaseWithinHandshakes, TicketsValid, Ticket

\* The count of faults stays a number.
LEMMA CountedType ==
    ASSUME HubTypeOK, NEW wrong \in BOOLEAN, Counted(wrong)
    PROVE  faults' \in Nat
BY DEF Counted, HubTypeOK

\* Every step preserves the invariant.
LEMMA HubStepInv == HubInv /\ [HubNext]_hubVars => HubInv'
<1> SUFFICES ASSUME HubInv, [HubNext]_hubVars
             PROVE  HubInv'
  OBVIOUS
<1> USE DEF HubInv
<1>1. CASE Poll
  <2>1. PICK sent \in [Pair -> SUBSET Peer] :
            /\ issues' = [e \in Pair |-> IssueTime(e, sent[e])]
            /\ inFlight' = inFlight \cup
                  {TicketFor(d.pair, d.to) : d \in
                      {d \in [pair : Pair, to : Peer] :
                          Planned(d.pair) /\ d.to \in sent[d.pair]}}
            /\ rekeying' \subseteq rekeying \cup Peer
            /\ Counted(\E e \in Pair : sent[e] # {e[1], e[2]})
    BY Zenon, <1>1 DEF Poll
  <2>2. UNCHANGED <<now, latest_handshake, held>>
    BY <1>1 DEF Poll
  <2>3. \A t \in inFlight' \ inFlight :
            \E e \in Pair, p \in Peer : Planned(e) /\ t = TicketFor(e, p)
    BY <2>1
  <2>4. nextPoll' \in Nat
    BY <1>1, HubAssumption DEF Poll, HubTypeOK
  <2>5. issues' \in [Pair -> Nat]
    BY <2>1, IssueTimeType
  <2>6. inFlight' \subseteq Ticket
    BY <2>3, SentTicket DEF HubTypeOK
  <2>7. HubTypeOK'
    <3>1. faults' \in Nat
      BY Zenon, <2>1, CountedType
    <3> QED
      BY <2>1, <2>2, <2>4, <2>5, <2>6, <3>1 DEF HubTypeOK
  <2>8. TicketsValid'
    <3> SUFFICES ASSUME NEW t \in inFlight'
                 PROVE  /\ t.issued_at < t.renew_at
                        /\ t.renew_at < t.expires_at
                        /\ t.renew_at = t.issued_at + RenewAfter
                        /\ t.expires_at <= t.issued_at + MaxLease
      BY DEF TicketsValid
    <3>1. CASE t \in inFlight
      BY <3>1 DEF TicketsValid
    <3>2. CASE t \notin inFlight
      BY <3>2, <2>3, SentTicket
    <3> QED
      BY <3>1, <3>2
  <2>9. LeaseWithinHandshakes'
    <3> SUFFICES ASSUME NEW t \in inFlight' \cup held', NEW p \in Peer,
                        p \in {t.pair[1], t.pair[2]}
                 PROVE  t.expires_at <= latest_handshake[p] + HandshakeLifetime
      BY <2>2 DEF LeaseWithinHandshakes
    <3>1. CASE t \in inFlight \cup held
      BY <3>1 DEF LeaseWithinHandshakes
    <3>2. CASE t \notin inFlight \cup held
      BY <3>2, <2>2, <2>3, SentTicket
    <3> QED
      BY <3>1, <3>2
  <2> QED
    BY <2>2, <2>7, <2>8, <2>9 DEF HandshakesPast
<1>2. CASE Restart
  BY <1>2 DEF Restart, HubTypeOK, HandshakesPast, LeaseWithinHandshakes, TicketsValid
<1>3. ASSUME NEW p \in Peer, Handshake(p)
      PROVE  HubInv'
  <2>1. /\ latest_handshake' \in [Peer -> Nat]
        /\ \A q \in Peer : latest_handshake[q] <= latest_handshake'[q]
        /\ \A q \in Peer : latest_handshake'[q] <= now
    BY <1>3 DEF Handshake, HubTypeOK, HandshakesPast
  <2>2. HubTypeOK' /\ HandshakesPast' /\ TicketsValid'
    BY <1>3, <2>1 DEF Handshake, HubTypeOK, HandshakesPast, TicketsValid
  <2>3. LeaseWithinHandshakes'
    <3> SUFFICES ASSUME NEW t \in inFlight \cup held, NEW q \in Peer,
                        q \in {t.pair[1], t.pair[2]}
                 PROVE  t.expires_at <= latest_handshake'[q] + HandshakeLifetime
      BY <1>3 DEF Handshake, LeaseWithinHandshakes
    <3>1. t.expires_at \in Nat /\ latest_handshake[q] \in Nat /\ latest_handshake'[q] \in Nat
      BY <2>1 DEF HubTypeOK, Ticket
    <3>2. t.expires_at <= latest_handshake[q] + HandshakeLifetime
      BY DEF LeaseWithinHandshakes
    <3> QED
      BY <2>1, <3>1, <3>2, HubAssumption
  <2> QED
    BY <2>2, <2>3
<1>4. ASSUME NEW t \in inFlight, Accept(t)
      PROVE  HubInv'
  BY <1>4 DEF Accept, HubTypeOK, HandshakesPast, LeaseWithinHandshakes, TicketsValid
<1>5. ASSUME NEW t \in inFlight, Lose(t)
      PROVE  HubInv'
  <2>1. faults' \in Nat
    BY <1>5 DEF Lose, Counted, HubTypeOK
  <2> QED
    BY <1>5, <2>1 DEF Lose, HubTypeOK, HandshakesPast, LeaseWithinHandshakes, TicketsValid
<1>6. ASSUME NEW t \in held, Lapse(t)
      PROVE  HubInv'
  BY <1>6 DEF Lapse, HubTypeOK, HandshakesPast, LeaseWithinHandshakes, TicketsValid
<1>7. CASE Tick
  <2>1. faults' \in Nat
    BY Zenon, <1>7, CountedType DEF Tick
  <2> QED
    BY <1>7, <2>1 DEF Tick, HubTypeOK, HandshakesPast, LeaseWithinHandshakes, TicketsValid
<1>8. CASE UNCHANGED hubVars
  BY <1>8 DEF hubVars, HubTypeOK, HandshakesPast, LeaseWithinHandshakes, TicketsValid
<1> QED
  BY <1>1, <1>2, <1>3, <1>4, <1>5, <1>6, <1>7, <1>8 DEF HubNext

\* No lease the hub has issued outlives the base handshake of either endpoint
\* by more than the handshake lifetime (main.rs:630, cascade.rs:57).
THEOREM LeasesWithinHandshakes == HubSpec => []LeaseWithinHandshakes
<1>1. HubInv => LeaseWithinHandshakes
  BY DEF HubInv
<1> QED
  BY <1>1, HubInitInv, HubStepInv, PTL DEF HubSpec

\* Every ticket the hub sends has its full renewal window and passes its
\* recipient's checks of the lease times (main.rs:675, control.rs:183).
THEOREM SentTicketsAreValid == HubSpec => []TicketsValid
<1>1. HubInv => TicketsValid
  BY DEF HubInv
<1> QED
  BY <1>1, HubInitInv, HubStepInv, PTL DEF HubSpec

-------------------------------------------------------------------------------
(***************************************************************************)
(* No lease lapses while nothing fails.  A held lease lasts until the poll *)
(* that replaces it: HoldsUntilIssue says at which of the next three due   *)
(* polls that happens, and every step keeps it true or issues the ticket.  *)
(***************************************************************************)

\* The numbers that a pair's lease is about.
LEMMA PairNumbers ==
    ASSUME HubTypeOK, NEW e \in Pair
    PROVE  /\ e[1] \in Peer /\ e[2] \in Peer
           /\ latest_handshake[e[1]] \in Nat /\ latest_handshake[e[2]] \in Nat
           /\ now \in Nat /\ nextPoll \in Nat /\ issues[e] \in Nat
           /\ RenewAfter \in Nat \ {0} /\ HandshakeLifetime \in Nat
           /\ PollInterval \in Nat \ {0} /\ RenewalLead \in Nat /\ RekeyAfter \in Nat
           /\ FirstDue(e) \in Nat /\ nextPoll <= FirstDue(e)
<1>1. e[1] \in Peer /\ e[2] \in Peer
  BY HubAssumption
<1>2. latest_handshake[e[1]] \in Nat /\ latest_handshake[e[2]] \in Nat
      /\ now \in Nat /\ nextPoll \in Nat /\ issues[e] \in Nat
  BY <1>1 DEF HubTypeOK
<1> QED
  BY <1>1, <1>2, HubAssumption DEF FirstDue

\* A lease that holds until its replacement is issued has not run out.
LEMMA HoldsNow ==
    ASSUME HubTypeOK, now <= nextPoll, NEW t \in Ticket, HoldsUntilIssue(t)
    PROVE  now < t.expires_at
<1>1. t.pair \in Pair /\ t.expires_at \in Nat
  BY DEF Ticket
<1>2. FirstDue(t.pair) < t.expires_at
  BY <1>1, PairNumbers DEF HoldsUntilIssue
<1> QED
  BY <1>1, <1>2, PairNumbers

\* It still does when the polls come no later and the handshakes last as long.
LEMMA HoldsOn ==
    ASSUME HubTypeOK, HubTypeOK', NEW t \in Ticket, HoldsUntilIssue(t),
           now' = now,
           FirstDue(t.pair)' <= FirstDue(t.pair),
           \A p \in {t.pair[1], t.pair[2]} :
              /\ latest_handshake[p] <= latest_handshake'[p]
              /\ p \in rekeying => p \in rekeying' \/ latest_handshake'[p] = now
    PROVE  HoldsUntilIssue(t)'
<1> DEFINE e == t.pair
<1>1. e \in Pair /\ t.expires_at \in Nat
  BY DEF Ticket
<1>2. /\ now \in Nat /\ PollInterval \in Nat /\ RenewAfter \in Nat /\ HandshakeLifetime \in Nat
      /\ FirstDue(e) \in Nat
  BY <1>1, PairNumbers
<1>3. FirstDue(e)' \in Nat
  BY <1>1, <1>2, HubAssumption DEF FirstDue, HubTypeOK
<1>4. \A p \in {e[1], e[2]} : latest_handshake[p] \in Nat /\ latest_handshake'[p] \in Nat
  BY <1>1, PairNumbers DEF HubTypeOK
<1>5. ASSUME NEW p \in {e[1], e[2]}, NEW a \in Nat, NEW b \in Nat, b <= a
      PROVE  /\ LastsUntil(p, a) => LastsUntil(p, b)'
             /\ WillLastUntil(p, a) => WillLastUntil(p, b)'
  <2>1. latest_handshake[p] <= latest_handshake'[p]
        /\ (p \in rekeying => p \in rekeying' \/ latest_handshake'[p] = now)
    BY <1>5
  <2> QED
    BY <1>2, <1>4, <1>5, <2>1 DEF LastsUntil, WillLastUntil
<1>6. PICK a \in Nat, b \in Nat : a = FirstDue(e) /\ b = FirstDue(e)'
  BY <1>2, <1>3
<1>7. b <= a /\ a + PollInterval \in Nat /\ b + PollInterval \in Nat
      /\ b + PollInterval <= a + PollInterval
  BY <1>2, <1>6
<1> DEFINE soon == now + PollInterval
<1>8. soon \in Nat /\ soon + PollInterval \in Nat /\ soon' = soon
  BY <1>2
<1>9. \/ a < t.expires_at /\ \A p \in {e[1], e[2]} : LastsUntil(p, a)
      \/ a <= soon /\ soon < t.expires_at /\ \A p \in {e[1], e[2]} : WillLastUntil(p, soon)
      \/ a + PollInterval < t.expires_at
         /\ \E p \in {e[1], e[2]} : LastsUntil(p, a + PollInterval)
      \/ a <= soon /\ soon + PollInterval < t.expires_at
         /\ \E p \in {e[1], e[2]} : WillLastUntil(p, soon + PollInterval)
      \/ a + 2 * PollInterval < t.expires_at
  BY <1>6 DEF HoldsUntilIssue
<1>10. SUFFICES
      \/ b < t.expires_at /\ \A p \in {e[1], e[2]} : LastsUntil(p, b)'
      \/ b <= soon /\ soon < t.expires_at /\ \A p \in {e[1], e[2]} : WillLastUntil(p, soon)'
      \/ b + PollInterval < t.expires_at
         /\ \E p \in {e[1], e[2]} : LastsUntil(p, b + PollInterval)'
      \/ b <= soon /\ soon + PollInterval < t.expires_at
         /\ \E p \in {e[1], e[2]} : WillLastUntil(p, soon + PollInterval)'
      \/ b + 2 * PollInterval < t.expires_at
  BY <1>6, <1>8 DEF HoldsUntilIssue
<1> HIDE DEF soon, e
<1> QED
  BY <1>1, <1>2, <1>5, <1>7, <1>8, <1>9

\* It does not depend on the leases.
LEMMA HoldsSame ==
    ASSUME NEW t, UNCHANGED <<now, nextPoll, issues, latest_handshake, rekeying>>
    PROVE  HoldsUntilIssue(t)' = HoldsUntilIssue(t)
BY DEF HoldsUntilIssue, FirstDue, LastsUntil, WillLastUntil

\* A pair that a poll finds due and renewable gets its tickets.
LEMMA DueIsPlanned ==
    ASSUME HubTypeOK, NEW e \in Pair, Due(e), Renewable(e)
    PROVE  Planned(e)
BY PlanFacts, PairNumbers DEF Planned

\* A handshake that lasts until now is renewable, and one that is not old
\* enough to be renewed by a datagram lasts.
LEMMA LastingIsRenewable ==
    ASSUME HubTypeOK, NEW p \in Peer, latest_handshake[p] # 0
    PROVE  /\ LastsUntil(p, now) => renewable_handshake(latest_handshake[p])
           /\ LeadSuffices /\ ~renewable_handshake(latest_handshake[p]) =>
                 now >= latest_handshake[p] + RekeyAfter
<1>1. /\ latest_handshake[p] \in Nat /\ now \in Nat /\ RenewAfter \in Nat
      /\ HandshakeLifetime \in Nat /\ RekeyAfter \in Nat
  BY HubAssumption DEF HubTypeOK
<1> QED
  BY <1>1 DEF LastsUntil, renewable_handshake, fresh_handshake, LeadSuffices

\* What a poll does when no send fails.
LEMMA FaultlessPoll ==
    ASSUME HubTypeOK, Poll, faults' = 0
    PROVE  /\ faults = 0
           /\ nextPoll' \in (now + 1) .. (now + PollInterval)
           /\ issues' = [e \in Pair |-> IssueTime(e, {e[1], e[2]})]
           /\ inFlight' = inFlight \cup
                 {TicketFor(d.pair, d.to) : d \in
                     {d \in [pair : Pair, to : Peer] :
                         Planned(d.pair) /\ d.to \in {d.pair[1], d.pair[2]}}}
           /\ rekeying \subseteq rekeying'
           /\ \A e \in Pair, p \in Peer :
                 /\ p \in {e[1], e[2]} /\ Due(e) /\ ~Renewable(e)
                 /\ now >= latest_handshake[p] + RekeyAfter
                 => p \in rekeying'
           /\ UNCHANGED <<now, latest_handshake, held>>
<1>1. PICK sent \in [Pair -> SUBSET Peer] :
          /\ issues' = [e \in Pair |-> IssueTime(e, sent[e])]
          /\ inFlight' = inFlight \cup
                {TicketFor(d.pair, d.to) : d \in
                    {d \in [pair : Pair, to : Peer] :
                        Planned(d.pair) /\ d.to \in sent[d.pair]}}
          /\ rekeying' = rekeying \cup
                {p \in Peer :
                    /\ now >= latest_handshake[p] + RekeyAfter
                    /\ \E e \in Pair :
                          /\ p \in sent[e] /\ Due(e)
                          /\ Planned(e) \/ ~Renewable(e)}
          /\ Counted(\E e \in Pair : sent[e] # {e[1], e[2]})
  BY Zenon DEF Poll
<1>2. faults = 0 /\ ~(\E e \in Pair : sent[e] # {e[1], e[2]})
  BY <1>1 DEF Counted, HubTypeOK
<1>3. \A e \in Pair : sent[e] = {e[1], e[2]}
  BY <1>2
<1>4. issues' = [e \in Pair |-> IssueTime(e, {e[1], e[2]})]
  BY Zenon, <1>1, <1>3
<1>5. {d \in [pair : Pair, to : Peer] : Planned(d.pair) /\ d.to \in sent[d.pair]}
      = {d \in [pair : Pair, to : Peer] : Planned(d.pair) /\ d.to \in {d.pair[1], d.pair[2]}}
  BY <1>3
<1>6. \A e \in Pair, p \in Peer :
         /\ p \in {e[1], e[2]} /\ Due(e) /\ ~Renewable(e)
         /\ now >= latest_handshake[p] + RekeyAfter
         => p \in rekeying'
  BY <1>1, <1>3
<1> QED
  BY <1>1, <1>2, <1>4, <1>5, <1>6 DEF Poll

\* A poll that sends no ticket for the lease's pair leaves it with one poll
\* less to wait for, and with one handshake more that is being renewed.
LEMMA PollWaits ==
    ASSUME LeadSuffices, HubInv, HubInv', now = nextPoll, Poll, faults' = 0,
           NEW t \in Ticket, HoldsUntilIssue(t), ~Planned(t.pair),
           latest_handshake[t.pair[1]] # 0, latest_handshake[t.pair[2]] # 0
    PROVE  HoldsUntilIssue(t)'
<1> DEFINE e == t.pair
<1>1. e \in Pair /\ t.expires_at \in Nat
  BY DEF Ticket
<1>2. HubTypeOK /\ HubTypeOK'
  BY DEF HubInv
<1>3. /\ nextPoll' \in (now + 1) .. (now + PollInterval)
      /\ issues'[e] = IssueTime(e, {e[1], e[2]})
      /\ rekeying \subseteq rekeying'
      /\ \A p \in Peer :
            /\ p \in {e[1], e[2]} /\ Due(e) /\ ~Renewable(e)
            /\ now >= latest_handshake[p] + RekeyAfter
            => p \in rekeying'
      /\ now' = now /\ latest_handshake' = latest_handshake
  BY <1>1, <1>2, FaultlessPoll
<1>4. /\ e[1] \in Peer /\ e[2] \in Peer
      /\ latest_handshake[e[1]] \in Nat /\ latest_handshake[e[2]] \in Nat
      /\ now \in Nat /\ nextPoll \in Nat /\ issues[e] \in Nat
      /\ RenewAfter \in Nat \ {0} /\ HandshakeLifetime \in Nat
      /\ PollInterval \in Nat \ {0} /\ RenewalLead \in Nat /\ RekeyAfter \in Nat
      /\ FirstDue(e) \in Nat
  BY <1>1, <1>2, PairNumbers
<1>5. nextPoll' \in Nat /\ nextPoll' <= now + PollInterval /\ nextPoll' >= now + 1
  BY <1>3, <1>4
<1>6. CASE ~Due(e)
  <2>1. issues'[e] = issues[e] /\ issues[e] > now
    BY <1>3, <1>4, <1>6 DEF IssueTime, Due
  <2>2. FirstDue(e)' <= FirstDue(e)
    BY <1>4, <1>5, <2>1 DEF FirstDue
  <2>3. \A p \in {e[1], e[2]} :
           /\ latest_handshake[p] <= latest_handshake'[p]
           /\ p \in rekeying => p \in rekeying'
    BY <1>3, <1>4
  <2> HIDE DEF e
  <2> QED
    BY <1>2, <1>3, <2>2, <2>3, HoldsOn DEF e
<1>7. CASE Due(e)
  <2>1. ~Renewable(e)
    BY <1>1, <1>2, <1>7, DueIsPlanned
  <2>2. PICK p \in {e[1], e[2]} : ~renewable_handshake(latest_handshake[p])
    BY <2>1 DEF Renewable
  <2>3. p \in Peer /\ latest_handshake[p] # 0 /\ latest_handshake[p] \in Nat
    BY <1>4
  <2>4. p \in rekeying' /\ ~LastsUntil(p, now)
    BY <1>2, <1>3, <1>7, <2>1, <2>2, <2>3, LastingIsRenewable
  <2>5. FirstDue(e) = now
    BY <1>7 DEF FirstDue, Due
  <2>6. issues'[e] = now + 1
    BY <1>3, <1>7, <2>1 DEF IssueTime
  <2>7. FirstDue(e)' = nextPoll'
    BY <1>4, <1>5, <2>6 DEF FirstDue
  <2> DEFINE soon == now + PollInterval
  <2>8. soon \in Nat /\ soon + PollInterval \in Nat /\ soon' = soon
    BY <1>3, <1>4
  <2>9. ASSUME NEW q \in {e[1], e[2]}, NEW a \in Nat
        PROVE  WillLastUntil(q, a) => WillLastUntil(q, a)'
    BY <1>3, <2>9 DEF WillLastUntil, LastsUntil
  <2>10. WillLastUntil(p, soon)' /\ WillLastUntil(p, soon + PollInterval)'
    BY <1>3, <1>4, <2>4 DEF WillLastUntil, LeadSuffices
  <2>11. \/ now < t.expires_at /\ \A q \in {e[1], e[2]} : LastsUntil(q, now)
         \/ now <= soon /\ soon < t.expires_at /\ \A q \in {e[1], e[2]} : WillLastUntil(q, soon)
         \/ soon < t.expires_at /\ \E q \in {e[1], e[2]} : LastsUntil(q, soon)
         \/ now <= soon /\ soon + PollInterval < t.expires_at
            /\ \E q \in {e[1], e[2]} : WillLastUntil(q, soon + PollInterval)
         \/ now + 2 * PollInterval < t.expires_at
    BY <2>5 DEF HoldsUntilIssue
  <2>12. soon + PollInterval = now + 2 * PollInterval
    BY <1>4
  <2>13. SUFFICES
         \/ soon < t.expires_at /\ \A q \in {e[1], e[2]} : WillLastUntil(q, soon)'
         \/ soon + PollInterval < t.expires_at
            /\ \E q \in {e[1], e[2]} : WillLastUntil(q, soon + PollInterval)'
    BY <1>5, <2>7, <2>8 DEF HoldsUntilIssue
  <2>14. CASE soon < t.expires_at /\ \E q \in {e[1], e[2]} : LastsUntil(q, soon)
    <3>1. PICK q \in {e[1], e[2]} : LastsUntil(q, soon)
      BY <2>14
    <3>2. LastsUntil(q, soon) => LastsUntil(q, now)
      BY <1>4 DEF LastsUntil
    <3>3. q # p
      BY <2>4, <3>1, <3>2
    <3>4. WillLastUntil(q, soon)'
      BY <2>8, <2>9, <3>1 DEF WillLastUntil
    <3> QED
      BY <2>10, <2>14, <3>3, <3>4
  <2> HIDE DEF soon
  <2> QED
    BY <2>4, <2>8, <2>9, <2>10, <2>11, <2>12, <2>14
<1> QED
  BY <1>6, <1>7

\* A ticket of this second, whose pair the poll sends tickets for, holds for
\* three polls.
LEMMA PollIssues ==
    ASSUME LeadSuffices, HubInv, Poll, faults' = 0,
           NEW t \in Ticket, Planned(t.pair), t.expires_at >= now + RenewAfter + 1
    PROVE  HoldsUntilIssue(t)'
<1> DEFINE e == t.pair
<1>1. e \in Pair /\ t.expires_at \in Nat
  BY DEF Ticket
<1>2. HubTypeOK /\ Due(e) /\ Renewable(e)
  BY DEF HubInv, Planned
<1>3. /\ now \in Nat /\ RenewAfter \in Nat /\ RenewalLead \in Nat
      /\ PollInterval \in Nat \ {0}
  BY <1>1, <1>2, PairNumbers
<1>4. nextPoll' \in (now + 1) .. (now + PollInterval)
      /\ issues'[e] = IssueTime(e, {e[1], e[2]})
  BY <1>1, <1>2, FaultlessPoll
<1>5. issues'[e] = next_issue(e)
  BY <1>2, <1>4 DEF IssueTime
<1>6. renew_at(e) = now + RenewAfter
  BY <1>1, <1>2, PlanFacts
<1>7. \/ issues'[e] = now + 1
      \/ issues'[e] = now + RenewAfter - RenewalLead
  BY <1>3, <1>5, <1>6 DEF next_issue, GreaterOf
<1>8. FirstDue(e)' + 2 * PollInterval < t.expires_at
  BY <1>1, <1>3, <1>4, <1>7 DEF FirstDue, LeadSuffices
<1> QED
  BY <1>8 DEF HoldsUntilIssue

\* Init establishes the invariant.
LEMMA LapseInitInv == HubInit => LapseInv
BY DEF HubInit, LapseInv

\* The lease times of a ticket that is on its way.
LEMMA FlyingTicket ==
    ASSUME HubInv, NEW t \in inFlight
    PROVE  t \in Ticket /\ t.expires_at >= t.issued_at + RenewAfter + 1
<1>1. t \in Ticket /\ RenewAfter \in Nat
  BY HubAssumption DEF HubInv, HubTypeOK
<1>2. t.expires_at \in Nat /\ t.issued_at \in Nat /\ t.renew_at \in Nat
  BY <1>1 DEF Ticket
<1> QED
  BY <1>1, <1>2 DEF HubInv, TicketsValid

\* A poll keeps it: what it leaves waiting holds, and what it issues replaces
\* the leases of the pair.
LEMMA PollLapse ==
    ASSUME LeadSuffices, HubInv, HubInv', LapseInv, Poll
    PROVE  LapseInv'
<1>1. HubTypeOK /\ now = nextPoll /\ now >= 1
  <2>1. now \in Nat /\ nextPoll \in Nat
    BY DEF HubInv, HubTypeOK
  <2>2. now >= nextPoll
    BY DEF Poll
  <2>3. HubTypeOK /\ now <= nextPoll /\ now >= 1
    BY DEF HubInv, LapseInv
  <2> QED
    BY <2>1, <2>2, <2>3
<1>2. now' = now /\ latest_handshake' = latest_handshake /\ held' = held
      /\ nextPoll' \in (now + 1) .. (now + PollInterval)
  BY DEF Poll
<1>3. now \in Nat /\ PollInterval \in Nat
  BY <1>1, HubAssumption DEF HubTypeOK
<1>4. now' >= 1 /\ now' <= nextPoll'
  BY <1>1, <1>2, <1>3
<1>5. \A t \in inFlight' \ inFlight :
          \E e \in Pair, p \in Peer : Planned(e) /\ p \in {e[1], e[2]} /\ t = TicketFor(e, p)
  <2>1. PICK sent \in [Pair -> SUBSET Peer] :
            /\ \A e \in Pair : sent[e] \in SentTo(e)
            /\ inFlight' = inFlight \cup
                  {TicketFor(d.pair, d.to) : d \in
                      {d \in [pair : Pair, to : Peer] :
                          Planned(d.pair) /\ d.to \in sent[d.pair]}}
    BY DEF Poll
  <2>2. \A e \in Pair : sent[e] \subseteq {e[1], e[2]}
    BY <2>1 DEF SentTo
  <2> QED
    BY <2>1, <2>2
<1>6. \A t \in inFlight' \cup held' :
         /\ t.recipient \in {t.pair[1], t.pair[2]}
         /\ latest_handshake'[t.pair[1]] # 0 /\ latest_handshake'[t.pair[2]] # 0
  <2> SUFFICES ASSUME NEW t \in inFlight' \cup held'
               PROVE  /\ t.recipient \in {t.pair[1], t.pair[2]}
                      /\ latest_handshake[t.pair[1]] # 0 /\ latest_handshake[t.pair[2]] # 0
    BY <1>2
  <2>1. CASE t \in inFlight \cup held
    BY <2>1 DEF LapseInv
  <2>2. CASE t \notin inFlight \cup held
    <3>1. PICK e \in Pair, p \in Peer : Planned(e) /\ p \in {e[1], e[2]} /\ t = TicketFor(e, p)
      BY <1>2, <1>5, <2>2
    <3>2. t.pair = e /\ t.recipient = p
      BY <3>1 DEF TicketFor
    <3> QED
      BY <3>1, <3>2 DEF Planned, Renewable, renewable_handshake, fresh_handshake
  <2> QED
    BY <2>1, <2>2
<1>7. ASSUME faults' = 0
      PROVE  /\ \A t \in inFlight' : t.issued_at = now' /\ HoldsUntilIssue(t)'
             /\ \A t \in held' :
                   HoldsUntilIssue(t)' \/ (now' < t.expires_at /\ Replaced(t)')
  <2>1. /\ faults = 0
        /\ inFlight' = inFlight \cup
              {TicketFor(d.pair, d.to) : d \in
                  {d \in [pair : Pair, to : Peer] :
                      Planned(d.pair) /\ d.to \in {d.pair[1], d.pair[2]}}}
    BY <1>1, <1>7, FaultlessPoll
  <2>2. ASSUME NEW t \in inFlight'
        PROVE  t.issued_at = now' /\ HoldsUntilIssue(t)'
    <3>1. t \in Ticket /\ t.expires_at >= t.issued_at + RenewAfter + 1
      BY <2>2, FlyingTicket, HubAssumption
         DEF HubInv, HubTypeOK, TicketsValid, Ticket
    <3>2. CASE t \in inFlight
      <4>1. t.issued_at = now /\ HoldsUntilIssue(t)
            /\ latest_handshake[t.pair[1]] # 0 /\ latest_handshake[t.pair[2]] # 0
        BY <2>1, <3>2 DEF LapseInv
      <4>2. HoldsUntilIssue(t)'
        BY <1>1, <1>7, <3>1, <4>1, PollWaits, PollIssues
      <4> QED
        BY <1>2, <4>1, <4>2
    <3>3. CASE t \notin inFlight
      <4>1. PICK e \in Pair, p \in Peer : Planned(e) /\ p \in {e[1], e[2]} /\ t = TicketFor(e, p)
        BY <1>5, <2>2, <3>3
      <4>2. t.issued_at = now /\ t.pair = e
        BY <4>1 DEF TicketFor
      <4>3. HoldsUntilIssue(t)'
        BY <1>7, <3>1, <4>1, <4>2, PollIssues
      <4> QED
        BY <1>2, <4>2, <4>3
    <3> QED
      BY <3>2, <3>3
  <2>3. ASSUME NEW t \in held'
        PROVE  HoldsUntilIssue(t)' \/ (now' < t.expires_at /\ Replaced(t)')
    <3>1. t \in held /\ t \in Ticket /\ t.pair \in Pair /\ t.recipient \in {t.pair[1], t.pair[2]}
          /\ latest_handshake[t.pair[1]] # 0 /\ latest_handshake[t.pair[2]] # 0
      BY <1>2, <2>3 DEF HubInv, HubTypeOK, LapseInv, Ticket
    <3>2. CASE ~HoldsUntilIssue(t)
      <4>1. now < t.expires_at /\ Replaced(t)
        BY <2>1, <3>1, <3>2 DEF LapseInv
      <4> QED
        BY <1>2, <2>1, <4>1 DEF Replaced
    <3>3. CASE HoldsUntilIssue(t) /\ ~Planned(t.pair)
      BY <1>1, <1>7, <3>1, <3>3, PollWaits
    <3>4. CASE HoldsUntilIssue(t) /\ Planned(t.pair)
      <4>1. now < t.expires_at
        BY <1>1, <1>3, <3>1, <3>4, HoldsNow
      <4>2. t.recipient \in Peer
        BY <3>1 DEF Ticket
      <4> DEFINE d == [pair |-> t.pair, to |-> t.recipient]
      <4>3. d \in [pair : Pair, to : Peer] /\ d.pair = t.pair /\ d.to = t.recipient
        BY <3>1, <4>2
      <4>4. TicketFor(t.pair, t.recipient) \in inFlight'
        BY Zenon, <2>1, <3>1, <3>4, <4>3
      <4>5. Replaced(t)'
        BY <4>4 DEF Replaced, TicketFor
      <4> QED
        BY <1>2, <4>1, <4>5
    <3> QED
      BY <3>2, <3>3, <3>4
  <2> QED
    BY <2>2, <2>3
<1> QED
  BY <1>4, <1>6, <1>7 DEF LapseInv

\* A step within the second that delays no poll and sets back no handshake
\* keeps what holds.
LEMMA QuietLapse ==
    ASSUME HubInv, HubInv', LapseInv, now' = now, now <= nextPoll',
           \A e \in Pair : FirstDue(e)' <= FirstDue(e),
           \A p \in Peer :
              /\ latest_handshake[p] <= latest_handshake'[p]
              /\ p \in rekeying => p \in rekeying' \/ latest_handshake'[p] = now,
           UNCHANGED <<inFlight, held, faults>>
    PROVE  LapseInv'
<1>1. ASSUME NEW t \in inFlight \cup held
      PROVE  /\ t \in Ticket /\ t.pair \in Pair /\ t.pair[1] \in Peer /\ t.pair[2] \in Peer
             /\ latest_handshake[t.pair[1]] \in Nat /\ latest_handshake[t.pair[2]] \in Nat
             /\ latest_handshake'[t.pair[1]] \in Nat /\ latest_handshake'[t.pair[2]] \in Nat
  <2>1. t \in Ticket /\ t.pair \in Pair
    BY Zenon, <1>1 DEF HubInv, HubTypeOK, Ticket
  <2> QED
    BY <2>1, PairNumbers DEF HubInv, HubTypeOK
<1>2. \A t \in inFlight \cup held : HoldsUntilIssue(t) => HoldsUntilIssue(t)'
  BY <1>1, HoldsOn DEF HubInv
<1>3. \A t \in inFlight \cup held :
         latest_handshake'[t.pair[1]] # 0 /\ latest_handshake'[t.pair[2]] # 0
  BY <1>1 DEF LapseInv
<1>4. \A t \in held : Replaced(t)' = Replaced(t)
  BY DEF Replaced
<1> QED
  BY <1>2, <1>3, <1>4 DEF LapseInv

\* A second passes without a fault when everything asked for has arrived.
LEMMA TickLapse ==
    ASSUME HubInv, LapseInv, Tick
    PROVE  LapseInv'
<1>1. HubTypeOK /\ now \in Nat /\ nextPoll \in Nat
  BY DEF HubInv, HubTypeOK
<1>2. /\ now < nextPoll /\ now' = now + 1
      /\ UNCHANGED <<nextPoll, issues, latest_handshake, rekeying, inFlight, held>>
  BY DEF Tick
<1>3. now' >= 1 /\ now' <= nextPoll'
  BY <1>1, <1>2
<1>4. ASSUME faults' = 0
      PROVE  /\ faults = 0 /\ inFlight = {} /\ rekeying = {}
             /\ \A t \in held : HoldsUntilIssue(t)'
  <2>1. faults = 0 /\ inFlight = {} /\ rekeying = {}
    BY <1>1, <1>4 DEF Tick, Counted, HubTypeOK
  <2>2. ASSUME NEW t \in held
        PROVE  HoldsUntilIssue(t)'
    <3> DEFINE e == t.pair
    <3>1. e \in Pair /\ t.expires_at \in Nat /\ HoldsUntilIssue(t)
      BY <1>1, <2>1, <2>2 DEF HubTypeOK, Ticket, LapseInv, Replaced
    <3>2. /\ latest_handshake[e[1]] \in Nat /\ latest_handshake[e[2]] \in Nat
          /\ RenewAfter \in Nat /\ HandshakeLifetime \in Nat /\ PollInterval \in Nat
          /\ FirstDue(e) \in Nat
      BY <1>1, <3>1, PairNumbers
    <3>3. FirstDue(e)' = FirstDue(e)
      BY <1>2 DEF FirstDue
    <3>4. PICK due \in Nat : due = FirstDue(e) /\ due = FirstDue(e)'
      BY <3>2, <3>3
    <3> DEFINE soon == now + PollInterval
    <3>5. ASSUME NEW p \in {e[1], e[2]}, NEW a \in Nat, NEW b \in Nat, b <= a
          PROVE  (LastsUntil(p, a) => LastsUntil(p, b)') /\ (WillLastUntil(p, a) => LastsUntil(p, b)')
      BY <1>2, <2>1, <3>2, <3>5 DEF LastsUntil, WillLastUntil
    <3>6. \/ due < t.expires_at /\ \A p \in {e[1], e[2]} : LastsUntil(p, due)
          \/ due <= soon /\ soon < t.expires_at /\ \A p \in {e[1], e[2]} : WillLastUntil(p, soon)
          \/ due + PollInterval < t.expires_at
             /\ \E p \in {e[1], e[2]} : LastsUntil(p, due + PollInterval)
          \/ due <= soon /\ soon + PollInterval < t.expires_at
             /\ \E p \in {e[1], e[2]} : WillLastUntil(p, soon + PollInterval)
          \/ due + 2 * PollInterval < t.expires_at
      BY Zenon, <3>1, <3>4 DEF HoldsUntilIssue
    <3>7. SUFFICES
          \/ due < t.expires_at /\ \A p \in {e[1], e[2]} : LastsUntil(p, due)'
          \/ due + PollInterval < t.expires_at
             /\ \E p \in {e[1], e[2]} : LastsUntil(p, due + PollInterval)'
          \/ due + 2 * PollInterval < t.expires_at
      BY <3>4 DEF HoldsUntilIssue
    <3>8. /\ soon \in Nat /\ soon + PollInterval \in Nat /\ due + PollInterval \in Nat
          /\ due <= soon => due + PollInterval <= soon + PollInterval
      BY <1>1, <3>2
    <3> HIDE DEF soon, e
    <3> QED
      BY <3>1, <3>5, <3>6, <3>8
  <2> QED
    BY <2>1, <2>2
<1> QED
  BY <1>2, <1>3, <1>4 DEF LapseInv

\* Every step preserves the invariant.
LEMMA LapseStepInv ==
    ASSUME LeadSuffices, HubInv, HubInv', LapseInv, [HubNext]_hubVars
    PROVE  LapseInv'
<1>0. HubTypeOK /\ HubTypeOK' /\ HandshakesPast
  BY DEF HubInv
<1>1. CASE Poll
  BY <1>1, PollLapse
<1>2. CASE Restart
  <2>1. \A e \in Pair : FirstDue(e)' <= FirstDue(e)
    <3> SUFFICES ASSUME NEW e \in Pair
                 PROVE  FirstDue(e)' <= FirstDue(e)
      OBVIOUS
    <3>1. issues'[e] = 0 /\ nextPoll' = now
      BY <1>2 DEF Restart
    <3> QED
      BY <1>0, <3>1, PairNumbers DEF FirstDue, LapseInv
  <2>2. now' = now /\ now <= nextPoll'
        /\ \A p \in Peer :
              /\ latest_handshake[p] <= latest_handshake'[p]
              /\ p \in rekeying => p \in rekeying'
    <3>1. now \in Nat /\ \A p \in Peer : latest_handshake[p] \in Nat
      BY <1>0 DEF HubTypeOK
    <3>2. nextPoll' = now /\ UNCHANGED <<now, latest_handshake, rekeying>>
      BY Zenon, <1>2 DEF Restart
    <3> QED
      BY <3>1, <3>2
  <2> QED
    BY <1>2, <2>1, <2>2, QuietLapse DEF Restart
<1>3. ASSUME NEW p \in Peer, Handshake(p)
      PROVE  LapseInv'
  <2>1. \A e \in Pair : FirstDue(e)' <= FirstDue(e)
    <3>1. \A e \in Pair : FirstDue(e)' = FirstDue(e)
      BY <1>3 DEF Handshake, FirstDue
    <3> QED
      BY <1>0, <3>1, PairNumbers
  <2>2. \A q \in Peer :
           /\ latest_handshake[q] <= latest_handshake'[q]
           /\ q \in rekeying => q \in rekeying' \/ latest_handshake'[q] = now
    BY <1>0, <1>3 DEF Handshake, HubTypeOK, HandshakesPast
  <2> QED
    BY <1>3, <2>1, <2>2, QuietLapse DEF Handshake, LapseInv
<1>4. ASSUME NEW t \in inFlight, Accept(t)
      PROVE  LapseInv'
  <2>1. /\ inFlight' = inFlight \ {t}
        /\ held' = {h \in held : <<h.pair, h.recipient>> # <<t.pair, t.recipient>>} \cup {t}
        /\ UNCHANGED <<now, nextPoll, issues, latest_handshake, rekeying, faults>>
    BY <1>4 DEF Accept
  <2>2. \A h \in inFlight \cup held : HoldsUntilIssue(h)' = HoldsUntilIssue(h)
    BY <2>1, HoldsSame
  <2>3. \A h \in held' : h = t \/ (h \in held /\ (Replaced(h) => Replaced(h)'))
    BY <2>1 DEF Replaced
  <2> QED
    BY <2>1, <2>2, <2>3 DEF LapseInv
<1>5. ASSUME NEW t \in inFlight, Lose(t)
      PROVE  LapseInv'
  <2>1. faults' # 0
    <3>1. faults = 0 => now < t.expires_at
      BY <1>0, FlyingTicket, HoldsNow DEF LapseInv
    <3> QED
      BY <1>0, <1>5, <3>1 DEF Lose, Counted, HubTypeOK
  <2> QED
    BY <1>5, <2>1 DEF Lose, LapseInv
<1>6. ASSUME NEW t \in held, Lapse(t)
      PROVE  LapseInv'
  <2>1. /\ held' = held \ {t}
        /\ UNCHANGED <<now, nextPoll, issues, latest_handshake, rekeying, inFlight, faults>>
    BY <1>6 DEF Lapse
  <2>2. \A h \in inFlight \cup held :
           HoldsUntilIssue(h)' = HoldsUntilIssue(h) /\ Replaced(h)' = Replaced(h)
    BY <2>1, HoldsSame DEF Replaced
  <2> QED
    BY <2>1, <2>2 DEF LapseInv
<1>7. CASE Tick
  BY <1>7, TickLapse
<1>8. CASE UNCHANGED hubVars
  <2>1. \A h \in inFlight \cup held :
           HoldsUntilIssue(h)' = HoldsUntilIssue(h) /\ Replaced(h)' = Replaced(h)
    BY <1>8, HoldsSame DEF hubVars, Replaced
  <2> QED
    BY <1>8, <2>1 DEF hubVars, LapseInv
<1> QED
  BY <1>1, <1>2, <1>3, <1>4, <1>5, <1>6, <1>7, <1>8 DEF HubNext

\* While nothing fails no lease runs out, for all times that LeadSuffices
\* admits.  With the code's 120, 180 and 30 s these are polls of at most 10 s,
\* and a kernel that answers a keepalive with a handshake once the last one is
\* 60 s old, which is what refresh_hub_handshakes counts on (main.rs:518, 649).
THEOREM LeasesNeverLapse ==
    ASSUME LeadSuffices
    PROVE  HubSpec => []NeverLapses
<1>1. HubInv /\ LapseInv => NeverLapses
  BY HoldsNow DEF HubInv, HubTypeOK, LapseInv, NeverLapses
<1>2. HubInit => HubInv /\ LapseInv
  BY HubInitInv, LapseInitInv
<1>3. HubInv /\ LapseInv /\ [HubNext]_hubVars => HubInv' /\ LapseInv'
  BY HubStepInv, LapseStepInv
<1> QED
  BY <1>1, <1>2, <1>3, PTL DEF HubSpec

-------------------------------------------------------------------------------
(***************************************************************************)
(* IdentityRotation                                                        *)
(*                                                                         *)
(* UninterruptedRotation for every period length, skew and pair of delays  *)
(* that fit into a period.  The inductive invariant bounds how far a clock *)
(* can be past the end of the period that an advertised, a spread and a    *)
(* resolvable name stands for: by the time since the owner's refresh, by   *)
(* that plus the time spreading has taken, and by both plus the time since *)
(* the reader's refresh.                                                   *)
(***************************************************************************)

Clock(n) == utc + IF n = "A" THEN SkewOfA ELSE 0

\* The second at which the period v is over.
EndOf(v) == (v + 1) * PeriodSeconds

Naming ==
    /\ utc \in Nat
    /\ advertised_period \in [Ends -> Nat]
    /\ spread \in [Ends -> Nat]
    /\ late \in [Ends -> 0 .. MaxSpread]
    /\ resolvable \in [Ends -> Nat]
    /\ since \in [Ends -> 0 .. MaxRefresh]

\* No name is ahead of its owner's clock.
Dated ==
    \A n \in Ends :
        /\ advertised_period[n] <= current_peer_id_period(n)
        /\ spread[n] <= current_peer_id_period(Opposite(n))
        /\ resolvable[n] <= current_peer_id_period(Opposite(n))

\* No name is further behind than the delays allow.
Recent ==
    \A n \in Ends :
        /\ Clock(n) < EndOf(advertised_period[n]) + since[n]
        /\ Clock(Opposite(n)) < EndOf(spread[n]) + MaxRefresh + late[n]
        /\ Clock(Opposite(n)) < EndOf(resolvable[n]) + MaxRefresh + MaxSpread + since[n]

RotationInv == Naming /\ Dated /\ Recent

-------------------------------------------------------------------------------
\* A clock is before the end of a period exactly if its own period is not later.
LEMMA PeriodEnds ==
    ASSUME NEW x \in Nat, NEW v \in Nat
    PROVE  /\ x \div PeriodSeconds \in Nat
           /\ EndOf(v) \in Nat
           /\ x < EndOf(v) <=> x \div PeriodSeconds <= v
<1>1. PeriodSeconds \in Nat /\ PeriodSeconds > 0
  BY RotationAssumption
<1>2. EndOf(v) \in Nat
  BY <1>1 DEF EndOf
<1> DEFINE q == x \div PeriodSeconds
<1>3. q \in Nat /\ q * PeriodSeconds <= x /\ x < (q + 1) * PeriodSeconds
  BY <1>1
<1>4. CASE q <= v
  <2>1. (q + 1) * PeriodSeconds <= (v + 1) * PeriodSeconds
    BY <1>1, <1>3, <1>4
  <2> QED BY <1>1, <1>2, <1>3, <1>4, <2>1 DEF EndOf
<1>5. CASE ~(q <= v)
  <2>1. v + 1 <= q
    BY <1>3, <1>5
  <2>2. (v + 1) * PeriodSeconds <= q * PeriodSeconds
    BY <1>1, <1>3, <2>1
  <2> QED BY <1>1, <1>2, <1>3, <1>5, <2>2 DEF EndOf
<1> QED BY <1>4, <1>5

\* The period of a node's clock.
LEMMA ClockPeriod ==
    ASSUME utc \in Nat, NEW n \in Ends
    PROVE  /\ Clock(n) \in Nat
           /\ current_peer_id_period(n) = Clock(n) \div PeriodSeconds
           /\ current_peer_id_period(n) \in Nat
           /\ Opposite(n) \in Ends
           /\ Opposite(Opposite(n)) = n
           /\ Clock(n) <= Clock(Opposite(n)) + SkewOfA
           /\ Clock(n) < EndOf(current_peer_id_period(n))
<1>1. SkewOfA \in Nat
  BY RotationAssumption
<1>2. Clock(n) \in Nat
  BY <1>1 DEF Clock
<1>3. current_peer_id_period(n) = Clock(n) \div PeriodSeconds
  BY DEF Clock, current_peer_id_period
<1>4. /\ current_peer_id_period(n) \in Nat
      /\ Clock(n) < EndOf(current_peer_id_period(n))
  BY <1>2, <1>3, PeriodEnds
<1>5. Opposite(n) \in Ends /\ Opposite(Opposite(n)) = n
  BY DEF Ends, Opposite
<1>6. Clock(n) <= Clock(Opposite(n)) + SkewOfA
  BY <1>1 DEF Clock, Ends, Opposite
<1> QED BY <1>2, <1>3, <1>4, <1>5, <1>6

\* The bounds make every name resolvable unless its owner's clock is ahead.
LEMMA RotationInvSuffices ==
    RotationInv => UninterruptedRotation
<1> SUFFICES ASSUME RotationInv, NEW n \in Ends,
                    ~(current_peer_id_period(Opposite(n)) > current_peer_id_period(n))
             PROVE  Resolves(n)
  BY DEF UninterruptedRotation
<1> DEFINE m == Opposite(n)
           v == resolvable[n]
<1>1. /\ v \in Nat /\ since[n] \in 0 .. MaxRefresh /\ utc \in Nat
      /\ {SkewOfA, MaxRefresh, MaxSpread, PeriodSeconds} \subseteq Nat
      /\ 2 * MaxRefresh + MaxSpread + SkewOfA <= PeriodSeconds
  BY RotationAssumption DEF RotationInv, Naming
<1>2. m \in Ends
  BY DEF Ends, Opposite
<1>3. /\ Clock(n) \in Nat /\ Clock(m) \in Nat
      /\ Clock(n) <= Clock(m) + SkewOfA
      /\ current_peer_id_period(n) \in Nat /\ current_peer_id_period(m) \in Nat
      /\ current_peer_id_period(n) = Clock(n) \div PeriodSeconds
  BY <1>1, <1>2, ClockPeriod
<1>4. /\ v <= current_peer_id_period(m)
      /\ Clock(m) < EndOf(v) + MaxRefresh + MaxSpread + since[n]
  BY DEF RotationInv, Dated, Recent
<1>5. EndOf(v) \in Nat /\ EndOf(v + 1) = EndOf(v) + PeriodSeconds
  BY <1>1 DEF EndOf
<1>6. Clock(n) < EndOf(v + 1)
  BY <1>1, <1>3, <1>4, <1>5
<1>7. v + 1 \in Nat
  BY <1>1
<1>8. current_peer_id_period(n) <= v + 1
  BY <1>3, <1>6, <1>7, PeriodEnds
<1>9. v <= current_peer_id_period(n)
  BY <1>1, <1>3, <1>4
<1>10. v = current_peer_id_period(n) \/ v = current_peer_id_period(n) - 1
  <2>1. \A x, y \in Nat : x <= y /\ y <= x + 1 => x = y \/ x = y - 1
    OBVIOUS
  <2>2. v \in Nat /\ current_peer_id_period(n) \in Nat
    BY <1>1, <1>3
  <2> QED BY <1>8, <1>9, <2>1, <2>2
<1>11. \/ v = current_peer_id_period(n)
       \/ v = IF current_peer_id_period(n) = 0 THEN 0 ELSE current_peer_id_period(n) - 1
  BY <1>1, <1>3, <1>10
<1> QED BY <1>11 DEF Resolves, active_peer_id_periods

\* Init establishes the invariant.
LEMMA RotationInitInv == RotationInit => RotationInv
<1> SUFFICES ASSUME RotationInit PROVE RotationInv
  OBVIOUS
<1>1. utc \in Nat
  BY RotationAssumption DEF RotationInit
<1>2. MaxRefresh \in Nat /\ MaxSpread \in Nat
  BY RotationAssumption
<1>3. \A n \in Ends :
        /\ current_peer_id_period(n) \in Nat
        /\ Clock(n) \in Nat
        /\ Clock(n) < EndOf(current_peer_id_period(n))
        /\ EndOf(current_peer_id_period(n)) \in Nat
        /\ Opposite(n) \in Ends
  BY <1>1, ClockPeriod, PeriodEnds
<1>4. Naming
  BY <1>1, <1>2, <1>3 DEF RotationInit, Naming
<1>5. Dated
  BY <1>3 DEF RotationInit, Dated
<1>6. Recent
  BY <1>2, <1>3 DEF RotationInit, Recent
<1> QED BY <1>4, <1>5, <1>6 DEF RotationInv

\* While time stands still, only the names matter.
LEMMA ClockStands ==
    ASSUME UNCHANGED utc
    PROVE  \A n \in Ends : /\ Clock(n)' = Clock(n)
                           /\ current_peer_id_period(n)' = current_peer_id_period(n)
  BY DEF Clock, current_peer_id_period

\* A second adds one to every clock.
LEMMA ClockTicks ==
    ASSUME utc \in Nat, utc' = utc + 1, NEW n \in Ends
    PROVE  /\ Clock(n) \in Nat
           /\ Clock(n)' = Clock(n) + 1
           /\ current_peer_id_period(n) \in Nat
           /\ current_peer_id_period(n)' \in Nat
           /\ current_peer_id_period(n) <= current_peer_id_period(n)'
<1>1. SkewOfA \in Nat
  BY RotationAssumption
<1>2. Clock(n) \in Nat /\ Clock(n)' = Clock(n) + 1
  BY <1>1 DEF Clock
<1>3. /\ current_peer_id_period(n) = Clock(n) \div PeriodSeconds
      /\ current_peer_id_period(n)' = Clock(n)' \div PeriodSeconds
  BY DEF Clock, current_peer_id_period
<1> DEFINE v == Clock(n)' \div PeriodSeconds
<1>4. Clock(n)' \in Nat /\ v \in Nat /\ Clock(n) \div PeriodSeconds \in Nat
  BY <1>2, PeriodEnds
<1>5. Clock(n)' < EndOf(v) /\ EndOf(v) \in Nat
  BY <1>4, PeriodEnds
<1>6. Clock(n) < EndOf(v)
  BY <1>2, <1>5
<1>7. Clock(n) \div PeriodSeconds <= v
  BY <1>2, <1>4, <1>6, PeriodEnds
<1> QED BY <1>2, <1>3, <1>4, <1>7

\* Every step preserves the invariant.
LEMMA RotationNextInv == RotationInv /\ [RotationNext]_rotationVars => RotationInv'
<1> SUFFICES ASSUME RotationInv, [RotationNext]_rotationVars
             PROVE  RotationInv'
  OBVIOUS
<1>1. /\ utc \in Nat
      /\ MaxRefresh \in Nat /\ MaxSpread \in Nat
      /\ \A n \in Ends : /\ advertised_period[n] \in Nat
                         /\ spread[n] \in Nat
                         /\ resolvable[n] \in Nat
                         /\ late[n] \in 0 .. MaxSpread
                         /\ since[n] \in 0 .. MaxRefresh
                         /\ Opposite(n) \in Ends
                         /\ Opposite(Opposite(n)) = n
  BY RotationAssumption, ClockPeriod DEF RotationInv, Naming
<1>2. \A n \in Ends :
        /\ current_peer_id_period(n) \in Nat
        /\ Clock(n) \in Nat
        /\ Clock(n) < EndOf(current_peer_id_period(n))
  BY <1>1, ClockPeriod
<1>3. \A v \in Nat : EndOf(v) \in Nat
  BY PeriodEnds
<1>4. ASSUME NEW m \in Ends, Refresh(m) PROVE RotationInv'
  <2>1. UNCHANGED utc
    BY <1>4 DEF Refresh
  <2>2. Naming'
    BY <1>1, <1>2, <1>4 DEF Refresh, RotationInv, Naming
  <2>3. \A n \in Ends :
          /\ advertised_period'[n] =
                IF n = m THEN current_peer_id_period(n) ELSE advertised_period[n]
          /\ resolvable'[n] = IF n = m THEN spread[n] ELSE resolvable[n]
          /\ since'[n] = IF n = m THEN 0 ELSE since[n]
          /\ spread'[n] = spread[n] /\ late'[n] = late[n]
    BY <1>4 DEF Refresh, RotationInv, Naming
  <2>4. Dated'
    BY <1>1, <1>2, <2>1, <2>3, ClockStands DEF RotationInv, Dated
  <2>5. ASSUME NEW n \in Ends
        PROVE  /\ Clock(n) < EndOf(advertised_period'[n]) + since'[n]
               /\ Clock(Opposite(n)) < EndOf(spread'[n]) + MaxRefresh + late'[n]
               /\ Clock(Opposite(n)) < EndOf(resolvable'[n]) + MaxRefresh + MaxSpread + since'[n]
    <3>1. /\ Clock(n) < EndOf(advertised_period[n]) + since[n]
          /\ Clock(Opposite(n)) < EndOf(spread[n]) + MaxRefresh + late[n]
          /\ Clock(Opposite(n)) < EndOf(resolvable[n]) + MaxRefresh + MaxSpread + since[n]
      BY DEF RotationInv, Recent
    <3>2. /\ EndOf(spread[n]) \in Nat /\ EndOf(current_peer_id_period(n)) \in Nat
          /\ Clock(Opposite(n)) \in Nat
      BY Zenon, <1>1, <1>2, <1>3
    <3>3. Clock(n) < EndOf(advertised_period'[n]) + since'[n]
      BY <1>2, <2>3, <3>1, <3>2
    <3>4. Clock(Opposite(n)) < EndOf(spread[n]) + MaxRefresh + MaxSpread
      BY <1>1, <3>1, <3>2
    <3>5. Clock(Opposite(n)) < EndOf(resolvable'[n]) + MaxRefresh + MaxSpread + since'[n]
      BY <1>1, <2>3, <3>1, <3>2, <3>4
    <3> QED BY Zenon, <2>3, <3>1, <3>3, <3>5
  <2>6. Recent'
    <3>1. \A n \in Ends : /\ Clock(n)' = Clock(n) /\ Clock(Opposite(n))' = Clock(Opposite(n))
      BY <1>1, <2>1, ClockStands
    <3> QED BY <2>5, <3>1 DEF Recent, EndOf, Opposite
  <2> QED BY <2>2, <2>4, <2>6 DEF RotationInv
<1>5. ASSUME NEW m \in Ends, Spread(m) PROVE RotationInv'
  <2>1. UNCHANGED utc
    BY <1>5 DEF Spread
  <2>2. Naming'
    BY <1>1, <1>2, <1>5 DEF Spread, RotationInv, Naming
  <2>3. \A n \in Ends :
          /\ spread'[n] = IF n = m THEN advertised_period[Opposite(n)] ELSE spread[n]
          /\ late'[n] = IF n = m THEN 0 ELSE late[n]
          /\ advertised_period'[n] = advertised_period[n]
          /\ resolvable'[n] = resolvable[n] /\ since'[n] = since[n]
    BY <1>5 DEF Spread, RotationInv, Naming
  <2>4. Dated'
    BY Zenon, <1>1, <1>2, <2>1, <2>3, ClockStands DEF RotationInv, Dated
  <2>5. ASSUME NEW n \in Ends
        PROVE  /\ Clock(n) < EndOf(advertised_period'[n]) + since'[n]
               /\ Clock(Opposite(n)) < EndOf(spread'[n]) + MaxRefresh + late'[n]
               /\ Clock(Opposite(n)) < EndOf(resolvable'[n]) + MaxRefresh + MaxSpread + since'[n]
    <3>1. /\ Clock(n) < EndOf(advertised_period[n]) + since[n]
          /\ Clock(Opposite(n)) < EndOf(advertised_period[Opposite(n)]) + since[Opposite(n)]
          /\ Clock(Opposite(n)) < EndOf(spread[n]) + MaxRefresh + late[n]
          /\ Clock(Opposite(n)) < EndOf(resolvable[n]) + MaxRefresh + MaxSpread + since[n]
      BY <1>1 DEF RotationInv, Recent
    <3>2. /\ EndOf(advertised_period[Opposite(n)]) \in Nat
          /\ Clock(Opposite(n)) \in Nat /\ since[Opposite(n)] \in 0 .. MaxRefresh
      BY <1>1, <1>2, <1>3
    <3>3. Clock(Opposite(n)) < EndOf(advertised_period[Opposite(n)]) + MaxRefresh + 0
      BY <1>1, <3>1, <3>2
    <3> QED BY Zenon, <2>3, <3>1, <3>3
  <2>6. Recent'
    <3>1. \A n \in Ends : /\ Clock(n)' = Clock(n) /\ Clock(Opposite(n))' = Clock(Opposite(n))
      BY <1>1, <2>1, ClockStands
    <3> QED BY <2>5, <3>1 DEF Recent, EndOf, Opposite
  <2> QED BY <2>2, <2>4, <2>6 DEF RotationInv
<1>6. CASE UtcTick
  <2>1. utc' = utc + 1
    BY <1>6 DEF UtcTick
  <2>2. \A n \in Ends :
          /\ since'[n] = since[n] + 1 /\ since[n] < MaxRefresh
          /\ late'[n] = (IF spread[n] = advertised_period[Opposite(n)] THEN 0 ELSE late[n] + 1)
          /\ spread[n] # advertised_period[Opposite(n)] => late[n] < MaxSpread
          /\ advertised_period'[n] = advertised_period[n]
          /\ spread'[n] = spread[n] /\ resolvable'[n] = resolvable[n]
    BY <1>6 DEF UtcTick
  <2>3. \A n \in Ends : since[n] + 1 \in 0 .. MaxRefresh /\ late'[n] \in 0 .. MaxSpread
    BY <1>1, <2>2
  <2>4. Naming'
    BY <1>1, <1>6, <2>1, <2>2, <2>3 DEF UtcTick, RotationInv, Naming
  <2>5. \A n \in Ends :
          /\ Clock(n)' = Clock(n) + 1
          /\ current_peer_id_period(n)' \in Nat
          /\ current_peer_id_period(n) <= current_peer_id_period(n)'
    BY Zenon, <1>1, <2>1, ClockTicks
  <2>6. Dated'
    BY <1>1, <1>2, <2>2, <2>5 DEF RotationInv, Dated
  <2>7. ASSUME NEW n \in Ends
        PROVE  /\ Clock(n) + 1 < EndOf(advertised_period'[n]) + since'[n]
               /\ Clock(Opposite(n)) + 1 < EndOf(spread'[n]) + MaxRefresh + late'[n]
               /\ Clock(Opposite(n)) + 1 <
                     EndOf(resolvable'[n]) + MaxRefresh + MaxSpread + since'[n]
    <3>1. /\ Clock(n) < EndOf(advertised_period[n]) + since[n]
          /\ Clock(Opposite(n)) < EndOf(advertised_period[Opposite(n)]) + since[Opposite(n)]
          /\ Clock(Opposite(n)) < EndOf(spread[n]) + MaxRefresh + late[n]
          /\ Clock(Opposite(n)) < EndOf(resolvable[n]) + MaxRefresh + MaxSpread + since[n]
      BY Zenon, <1>1 DEF RotationInv, Recent
    <3>2. /\ EndOf(advertised_period[Opposite(n)]) \in Nat /\ EndOf(advertised_period[n]) \in Nat
          /\ EndOf(spread[n]) \in Nat /\ EndOf(resolvable[n]) \in Nat
          /\ Clock(Opposite(n)) \in Nat /\ Clock(n) \in Nat
          /\ since[Opposite(n)] \in 0 .. MaxRefresh /\ since[Opposite(n)] < MaxRefresh
          /\ since[n] \in 0 .. MaxRefresh /\ late[n] \in 0 .. MaxSpread
      BY ZenonT(30), <1>1, <1>2, <1>3, <2>2
    <3>3. late[n] \in Nat /\ since[Opposite(n)] \in Nat /\ since[n] \in Nat
      BY <3>2
    <3>4. Clock(n) + 1 < EndOf(advertised_period'[n]) + since'[n]
      <4>1. Clock(n) + 1 < EndOf(advertised_period[n]) + (since[n] + 1)
        BY ZenonT(30), <3>1, <3>2, <3>3, MovingBounds
      <4> QED BY Zenon, <2>2, <4>1
    <3>5. Clock(Opposite(n)) + 1 < EndOf(spread'[n]) + MaxRefresh + late'[n]
      <4>1. spread[n] # advertised_period[Opposite(n)] =>
              Clock(Opposite(n)) + 1 < EndOf(spread[n]) + MaxRefresh + (late[n] + 1)
        BY ZenonT(30), <1>1, <3>1, <3>2, <3>3, TickBounds
      <4>2. spread[n] = advertised_period[Opposite(n)] =>
              Clock(Opposite(n)) + 1 < EndOf(spread[n]) + MaxRefresh + 0
        BY ZenonT(30), <1>1, <3>1, <3>2, <3>3, TickBounds
      <4> QED BY Zenon, <2>2, <4>1, <4>2
    <3>6. Clock(Opposite(n)) + 1 < EndOf(resolvable'[n]) + MaxRefresh + MaxSpread + since'[n]
      <4>1. Clock(Opposite(n)) + 1 < EndOf(resolvable[n]) + MaxRefresh + MaxSpread + (since[n] + 1)
        BY ZenonT(30), <1>1, <3>1, <3>2, <3>3, MovingBounds
      <4> QED BY Zenon, <2>2, <4>1
    <3> QED BY Zenon, <3>4, <3>5, <3>6
  <2>8. Recent'
    <3>1. \A n \in Ends : /\ Clock(n)' = Clock(n) + 1
                          /\ Clock(Opposite(n))' = Clock(Opposite(n)) + 1
      BY Zenon, <1>1, <2>5
    <3> QED BY <2>7, <3>1 DEF Recent, EndOf, Opposite
  <2> QED BY <2>4, <2>6, <2>8 DEF RotationInv
<1>7. CASE UNCHANGED rotationVars
  BY <1>7 DEF rotationVars, RotationInv, Naming, Dated, Recent, Clock, EndOf,
       current_peer_id_period, Opposite
<1> QED BY <1>4, <1>5, <1>6, <1>7 DEF RotationNext

\* For every period length, skew and delays that fit into one period, a peer
\* stays addressable across rotations unless its clock is a period ahead
\* (resolve_peer_id and the refresh arm of run_relay).
THEOREM RotationUninterrupted == RotationSpec => []UninterruptedRotation
<1>1. RotationSpec => []RotationInv
  BY RotationInitInv, RotationNextInv, PTL DEF RotationSpec
<1> QED BY <1>1, RotationInvSuffices, PTL
===============================================================================
