------------------------------ MODULE HubIssuer ------------------------------
(***************************************************************************)
(* The issuing side of a hub: issue_hub_shortcuts and the planner it calls *)
(* (main.rs, cascade.rs).  At every poll the hub looks at each pair of its *)
(* WireGuard peers and either leaves it alone until its next issue time,   *)
(* sends keepalives that should refresh the two base handshakes, or sends  *)
(* a ticket to both.  The two sends are separate datagrams: the second may *)
(* fail after the first has left, and each may be lost.                    *)
(*                                                                         *)
(* The endpoints appear as the leases they hold; ShortcutEndpoint models   *)
(* them in full.  The kernel's base handshakes are external: the hub only  *)
(* reads when the latest one happened.                                     *)
(***************************************************************************)
EXTENDS Naturals

CONSTANTS
    Peer,                \* the hub's peers that have a host address
    Pair,                \* the pairs <<left, right>> of the snapshot's order
    RenewAfter,          \* DEFAULT_RENEW_AFTER_SECONDS
    ExpiresAfter,        \* DEFAULT_EXPIRES_AFTER_SECONDS
    HandshakeLifetime,   \* BASE_HANDSHAKE_LIFETIME_SECONDS
    RenewalLead,         \* HUB_SHORTCUT_RENEWAL_LEAD_SECONDS
    RetryAfter,          \* wait after a failed send
    MaxLease,            \* MAX_LEASE_SECONDS
    PollInterval,        \* config.poll_interval()
    RekeyAfter,          \* age from which a keepalive makes the kernel rekey
    MaxFault,            \* bound on what fails, is lost or is late
    MaxTime              \* bound on the clock

ASSUME HubAssumption ==
    /\ Pair \subseteq Peer \X Peer
    /\ \A e \in Pair : e[1] # e[2] /\ <<e[2], e[1]>> \notin Pair
    /\ RenewAfter \in Nat \ {0}
    /\ ExpiresAfter \in Nat /\ RenewAfter < ExpiresAfter
    /\ MaxLease \in Nat /\ ExpiresAfter <= MaxLease
    /\ HandshakeLifetime \in Nat
    /\ RenewalLead \in Nat
    /\ RetryAfter \in Nat
    /\ PollInterval \in Nat \ {0}
    /\ RekeyAfter \in Nat
    /\ MaxFault \in Nat
    /\ MaxTime \in Nat

VARIABLES
    now,                \* unix_now(), in seconds
    nextPoll,           \* when the poll interval ticks next
    issues,             \* pair -> next issue time, 0 where the map has none
    latest_handshake,   \* peer -> time of its last base handshake, 0 for none
    rekeying,           \* peers the kernel is about to shake hands with
    inFlight,           \* tickets on their way
    held,               \* leases at the endpoints
    faults              \* failed sends, lost tickets and late answers so far

hubVars == <<now, nextPoll, issues, latest_handshake, rekeying, inFlight, held, faults>>

Ticket ==
    [pair : Pair, recipient : Peer, issued_at : Nat, renew_at : Nat, expires_at : Nat]

HubTypeOK ==
    /\ now \in Nat
    /\ nextPoll \in Nat
    /\ issues \in [Pair -> Nat]
    /\ latest_handshake \in [Peer -> Nat]
    /\ rekeying \subseteq Peer
    /\ inFlight \subseteq Ticket
    /\ held \subseteq Ticket
    /\ faults \in Nat

\* A time of 0 means "never", so the clock starts at 1.
HubInit ==
    /\ now = 1
    /\ nextPoll = 1
    /\ issues = [e \in Pair |-> 0]
    /\ latest_handshake = [p \in Peer |-> 0]
    /\ rekeying = {}
    /\ inFlight = {}
    /\ held = {}
    /\ faults = 0

-------------------------------------------------------------------------------
LesserOf(a, b) == IF a <= b THEN a ELSE b
GreaterOf(a, b) == IF a <= b THEN b ELSE a

fresh_handshake(latest) ==
    latest # 0 /\ now <= latest + HandshakeLifetime

\* Mutant: any fresh handshake is good enough.
renewable_whenever_fresh(latest) == fresh_handshake(latest)

renewable_handshake(latest) ==
    /\ fresh_handshake(latest)
    /\ now + RenewAfter + 1 <= latest + HandshakeLifetime

\* What plan_peer_pair and cascade::plan compute for a pair.
handshake_deadline(e) ==
    LesserOf(latest_handshake[e[1]], latest_handshake[e[2]]) + HandshakeLifetime
\* Mutant: the handshake deadline does not limit the lease.
expires_at_unlimited(e) == now + ExpiresAfter

expires_at(e) == LesserOf(now + ExpiresAfter, handshake_deadline(e))
renew_at(e) == LesserOf(now + RenewAfter, expires_at(e) - 1)
\* Mutant: the replacement is not prepared ahead of the renewal time.
next_issue_without_lead(e) == GreaterOf(renew_at(e), now + 1)

next_issue(e) == GreaterOf(renew_at(e) - RenewalLead, now + 1)

TicketFor(e, p) ==
    [pair |-> e, recipient |-> p,
     issued_at |-> now, renew_at |-> renew_at(e), expires_at |-> expires_at(e)]

\* The state of one pair at a poll.
Due(e) == now >= issues[e]
Renewable(e) == \A p \in {e[1], e[2]} : renewable_handshake(latest_handshake[p])
Planned(e) == Due(e) /\ Renewable(e) /\ expires_at(e) > now + 1

\* The recipients a pair's two sends reach: left first, and right only if the
\* first send succeeded.
SentTo(e) == IF Due(e) THEN {{}, {e[1]}, {e[1], e[2]}} ELSE {{e[1], e[2]}}

\* A step that counts as a fault if `wrong` holds.
Counted(wrong) ==
    /\ wrong => faults < MaxFault
    /\ faults' = IF wrong THEN faults + 1 ELSE faults

IssueTime(e, sent) ==
    IF ~Due(e) THEN issues[e]
    ELSE IF sent # {e[1], e[2]} THEN now + RetryAfter
    ELSE IF ~Renewable(e) THEN now + 1
    ELSE IF Planned(e) THEN next_issue(e)
    ELSE now + RetryAfter

\* A poll of the hub: issue_hub_shortcuts over all pairs.  Every datagram to
\* a peer whose base session is old makes the kernel renew that session.
Poll ==
    /\ now >= nextPoll
    /\ nextPoll' \in (now + 1) .. (now + PollInterval)
    /\ \E sent \in [Pair -> SUBSET Peer] :
          /\ \A e \in Pair : sent[e] \in SentTo(e)
          /\ issues' = [e \in Pair |-> IssueTime(e, sent[e])]
          /\ inFlight' = inFlight \cup
                {TicketFor(d.pair, d.to) : d \in
                    {d \in [pair : Pair, to : Peer] :
                        Planned(d.pair) /\ d.to \in sent[d.pair]}}
          /\ rekeying' = rekeying \cup
                {p \in Peer :
                    /\ now >= latest_handshake[p] + RekeyAfter
                    /\ \E e \in Pair :
                          /\ p \in sent[e] /\ Due(e)
                          /\ Planned(e) \/ ~Renewable(e)}
          /\ Counted(\E e \in Pair : sent[e] # {e[1], e[2]})
    /\ UNCHANGED <<now, latest_handshake, held>>

\* The hub's generation is restarted: the issue times are forgotten and the
\* new interval ticks at once.
Restart ==
    /\ issues' = [e \in Pair |-> 0]
    /\ nextPoll' = now
    /\ UNCHANGED <<now, latest_handshake, rekeying, inFlight, held, faults>>

\* A base handshake completes, because of the hub's datagrams or of others.
Handshake(p) ==
    /\ latest_handshake' = [latest_handshake EXCEPT ![p] = now]
    /\ rekeying' = rekeying \ {p}
    /\ UNCHANGED <<now, nextPoll, issues, inFlight, held, faults>>

\* An endpoint takes a ticket (ShortcutTicket::validate); once its session is
\* authenticated it replaces the lease the endpoint had for that remote.
Accept(t) ==
    /\ t \in inFlight
    /\ now < t.expires_at
    /\ inFlight' = inFlight \ {t}
    /\ held' = {h \in held : <<h.pair, h.recipient>> # <<t.pair, t.recipient>>} \cup {t}
    /\ UNCHANGED <<now, nextPoll, issues, latest_handshake, rekeying, faults>>

\* A ticket is lost, or reaches its recipient after its expiry.
Lose(t) ==
    /\ t \in inFlight
    /\ Counted(now < t.expires_at)
    /\ inFlight' = inFlight \ {t}
    /\ UNCHANGED <<now, nextPoll, issues, latest_handshake, rekeying, held>>

\* An endpoint's poll drops an expired lease.
Lapse(t) ==
    /\ t \in held
    /\ now >= t.expires_at
    /\ held' = held \ {t}
    /\ UNCHANGED <<now, nextPoll, issues, latest_handshake, rekeying, inFlight, faults>>

\* The hub polls when its interval ticks.  A ticket that is not there, and a
\* handshake that is asked for and not done, within the second is a fault.
Tick ==
    /\ now < MaxTime
    /\ now < nextPoll
    /\ Counted(inFlight # {} \/ rekeying # {})
    /\ now' = now + 1
    /\ UNCHANGED <<nextPoll, issues, latest_handshake, rekeying, inFlight, held>>

HubNext ==
    \/ Poll
    \/ Restart
    \/ \E p \in Peer : Handshake(p)
    \/ \E t \in inFlight : Accept(t)
    \/ \E t \in inFlight : Lose(t)
    \/ \E t \in held : Lapse(t)
    \/ Tick

HubSpec == HubInit /\ [][HubNext]_hubVars

-------------------------------------------------------------------------------
\* A lease never outlives the base authentication of either endpoint: when
\* the hub or a peer goes quiet, no endpoint keeps the shortcut beyond the
\* earlier of the two handshake deadlines, whatever was lost, delayed or
\* issued twice (main.rs:633).
LeaseWithinHandshakes ==
    \A t \in inFlight \cup held, p \in Peer :
        p \in {t.pair[1], t.pair[2]} =>
            t.expires_at <= latest_handshake[p] + HandshakeLifetime

\* Every ticket the hub sends passes its recipient's checks on arrival: the
\* renewal window is open, at its full length, and the lease is not too long.
\* renewable_handshake promises to the planner that the handshake deadline
\* never cuts the renewal time (main.rs:675, cascade.rs:54, control.rs:162).
TicketsValid ==
    \A t \in inFlight :
        /\ t.issued_at < t.renew_at
        /\ t.renew_at < t.expires_at
        /\ t.renew_at = t.issued_at + RenewAfter
        /\ t.expires_at <= t.issued_at + MaxLease

\* While no send fails, no ticket is lost and the kernel answers keepalives, no
\* lease runs out: the replacement arrives while the old lease still holds,
\* across restarts of the hub and whenever the base handshakes happen
\* (main.rs:514, 649).
NeverLapses == faults = 0 => \A t \in held : now < t.expires_at

\* When the lead is long enough for that: a keepalive makes the kernel renew
\* every handshake that is not renewable any more, and after the polls that
\* find this out, for one peer and then for the other, there is a third one for
\* the ticket.
LeadSuffices ==
    /\ RekeyAfter + RenewAfter <= HandshakeLifetime
    /\ 2 * PollInterval + RenewAfter + 1 <= HandshakeLifetime
    /\ 3 * PollInterval <= RenewAfter
    /\ 3 * PollInterval <= RenewalLead + 1

\* Why it holds then, as an inductive invariant.  The latest time of the first
\* poll that is due for a pair:
FirstDue(e) == IF issues[e] <= nextPoll THEN nextPoll ELSE issues[e] + PollInterval - 1

\* The handshake is renewable until then, as it is or once it has been renewed.
LastsUntil(p, time) == time + RenewAfter + 1 <= latest_handshake[p] + HandshakeLifetime
WillLastUntil(p, time) ==
    LastsUntil(p, time) \/ (p \in rekeying /\ time + RenewAfter + 1 <= now + HandshakeLifetime)

\* The lease holds until the poll that issues its replacement: the first, the
\* second or the third one due, by what is known or expected of the handshakes.
HoldsUntilIssue(t) ==
    LET due == FirstDue(t.pair)
        soon == now + PollInterval
        ends == {t.pair[1], t.pair[2]}
    IN  \/ due < t.expires_at /\ \A p \in ends : LastsUntil(p, due)
        \/ due <= soon /\ soon < t.expires_at /\ \A p \in ends : WillLastUntil(p, soon)
        \/ due + PollInterval < t.expires_at /\ \E p \in ends : LastsUntil(p, due + PollInterval)
        \/ due <= soon /\ soon + PollInterval < t.expires_at
           /\ \E p \in ends : WillLastUntil(p, soon + PollInterval)
        \/ due + 2 * PollInterval < t.expires_at

Replaced(h) == \E t \in inFlight : t.pair = h.pair /\ t.recipient = h.recipient

LapseInv ==
    /\ now >= 1 /\ now <= nextPoll
    /\ \A t \in inFlight \cup held :
          /\ t.recipient \in {t.pair[1], t.pair[2]}
          /\ latest_handshake[t.pair[1]] # 0 /\ latest_handshake[t.pair[2]] # 0
    /\ faults = 0 =>
          /\ \A t \in inFlight : t.issued_at = now /\ HoldsUntilIssue(t)
          /\ \A t \in held : HoldsUntilIssue(t) \/ (now < t.expires_at /\ Replaced(t))
===============================================================================
