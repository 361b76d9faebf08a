---------------------------- MODULE RenewalScheduler ----------------------------
(***************************************************************************)
(* RenewalScheduler (shortcut/renewal.rs): when an endpoint issues again   *)
(* for a (peer, selector) pair, given tickets that are never answered,     *)
(* handshakes that complete late, and sessions that are removed at any     *)
(* time.                                                                   *)
(*                                                                         *)
(* The callers' side is what the scheduler's interface asks for: a ticket  *)
(* is issued after a successful begin_issue, every ticket has a new        *)
(* session, and time does not run backwards.  Session 0 is None.           *)
(***************************************************************************)
EXTENDS Integers

CONSTANTS
    IssueKey,
    Retry,              \* ISSUE_RETRY_SECONDS
    HandshakeTimeout,   \* HANDSHAKE_TIMEOUT_SECONDS
    Lead,               \* RENEWAL_LEAD_SECONDS
    RenewIn,            \* how long after its issue a ticket is to be renewed
    MaxSession, MaxTime  \* bounds on tickets and on time

ASSUME RenewalAssumption ==
    /\ Retry \in Nat \ {0} /\ HandshakeTimeout \in Nat /\ Lead \in Nat
    /\ Retry <= HandshakeTimeout
    /\ RenewIn \subseteq Nat
    /\ \A r \in RenewIn : Lead + Retry <= r
    /\ MaxSession \in Nat /\ MaxTime \in Nat

None == 0

VARIABLES
    time,
    active, pending, next_issue,   \* IssueState of each key
    sessions,       \* set of [id, issue, renew_at]: sessions, as SessionLease
    issuing,        \* keys between begin_issue and issued
    last_session,   \* the session issued last
    newest,         \* history: key -> the session last issued for it
    begun           \* history: key -> time of the last successful begin_issue

issueVars == <<active, pending, next_issue>>
renewalVars == <<time, active, pending, next_issue, sessions, issuing, last_session,
                 newest, begun>>

Lease == [id : Nat \ {None}, issue : IssueKey, renew_at : Nat]

RenewalTypeOK ==
    /\ time \in Nat
    /\ active \in [IssueKey -> Nat]
    /\ pending \in [IssueKey -> Nat]
    /\ next_issue \in [IssueKey -> Nat]
    /\ sessions \subseteq Lease
    /\ issuing \subseteq IssueKey
    /\ last_session \in Nat
    /\ newest \in [IssueKey -> Nat]
    /\ begun \in [IssueKey -> Int]

\* Keys that have no IssueState yet have the default one.
RenewalInit ==
    /\ time = 0
    /\ active = [i \in IssueKey |-> None]
    /\ pending = [i \in IssueKey |-> None]
    /\ next_issue = [i \in IssueKey |-> 0]
    /\ sessions = {}
    /\ issuing = {}
    /\ last_session = None
    /\ newest = [i \in IssueKey |-> None]
    /\ begun = [i \in IssueKey |-> 0 - Retry]

-------------------------------------------------------------------------------
\* begin_issue, when it returns an attempt.  The session that was pending is
\* handed out as stale, but keeps its lease until it is removed.
BeginIssue(i) ==
    /\ time >= next_issue[i]
    /\ next_issue' = [next_issue EXCEPT ![i] = time + Retry]
    /\ pending' = [pending EXCEPT ![i] = None]
    /\ issuing' = issuing \cup {i}
    /\ begun' = [begun EXCEPT ![i] = time]
    /\ UNCHANGED <<time, active, sessions, last_session, newest>>

Issued(i, renew_in) ==
    LET s == last_session + 1
    IN  /\ i \in issuing
        /\ s <= MaxSession
        /\ pending' = [pending EXCEPT ![i] = s]
        /\ next_issue' = [next_issue EXCEPT ![i] = time + HandshakeTimeout]
        /\ sessions' = sessions \cup {[id |-> s, issue |-> i, renew_at |-> time + renew_in]}
        /\ issuing' = issuing \ {i}
        /\ last_session' = s
        /\ newest' = [newest EXCEPT ![i] = s]
        /\ UNCHANGED <<time, active, begun>>

Greatest(a, b) == IF a >= b THEN a ELSE b
Lesser(a, b) == IF a <= b THEN a ELSE b

\* Mutant: the next ticket is due a whole lease later.
AuthenticatedWithoutLead(l) ==
    /\ l \in sessions
    /\ pending[l.issue] = l.id
    /\ active' = [active EXCEPT ![l.issue] = l.id]
    /\ pending' = [pending EXCEPT ![l.issue] = None]
    /\ next_issue' = [next_issue EXCEPT ![l.issue] = Greatest(l.renew_at, time + 1)]
    /\ UNCHANGED <<time, sessions, issuing, last_session, newest, begun>>

\* authenticated, for a session that has a lease and is pending.
Authenticated(l) ==
    /\ l \in sessions
    /\ pending[l.issue] = l.id
    /\ active' = [active EXCEPT ![l.issue] = l.id]
    /\ pending' = [pending EXCEPT ![l.issue] = None]
    /\ next_issue' = [next_issue EXCEPT ![l.issue] = Greatest(l.renew_at - Lead, time + 1)]
    /\ UNCHANGED <<time, sessions, issuing, last_session, newest, begun>>

\* Mutant: losing a session makes a ticket due at once.
RemovedAtOnce(l) ==
    LET i == l.issue
    IN  /\ l \in sessions
        /\ sessions' = sessions \ {l}
        /\ pending' = [pending EXCEPT ![i] = IF @ = l.id THEN None ELSE @]
        /\ active' = [active EXCEPT ![i] = IF @ = l.id THEN None ELSE @]
        /\ next_issue' = [next_issue EXCEPT ![i] = Lesser(@, time)]
        /\ UNCHANGED <<time, issuing, last_session, newest, begun>>

\* removed, for a session that has a lease: whatever it was, it is no more; a
\* new ticket is due soon if it was pending, or active without a successor.
Removed(l) ==
    LET i == l.issue
        was_pending == pending[i] = l.id
        was_active == active[i] = l.id
    IN  /\ l \in sessions
        /\ sessions' = sessions \ {l}
        /\ pending' = [pending EXCEPT ![i] = IF was_pending THEN None ELSE @]
        /\ active' = [active EXCEPT ![i] = IF was_active THEN None ELSE @]
        /\ next_issue' = [next_issue EXCEPT ![i] =
              IF was_pending \/ (was_active /\ pending[i] = None)
              THEN Lesser(@, time + Retry) ELSE @]
        /\ UNCHANGED <<time, issuing, last_session, newest, begun>>

RenewalTick ==
    /\ time < MaxTime
    /\ time' = time + 1
    /\ UNCHANGED <<issueVars, sessions, issuing, last_session, newest, begun>>

RenewalNext ==
    \/ \E i \in IssueKey : BeginIssue(i)
    \/ \E i \in IssueKey : \E renew_in \in RenewIn : Issued(i, renew_in)
    \/ \E l \in sessions : Authenticated(l)
    \/ \E l \in sessions : Removed(l)
    \/ RenewalTick

RenewalSpec == RenewalInit /\ [][RenewalNext]_renewalVars

-------------------------------------------------------------------------------
\* A ticket is never put off by more than the handshake timeout, except until
\* the active lease is to be renewed: a lost, refused or removed session never
\* leaves a selector waiting (renewal.rs:65, 80).
NextIssueBounded ==
    \A i \in IssueKey :
        \/ next_issue[i] <= time + HandshakeTimeout
        \/ \E l \in sessions : /\ l.id = active[i] /\ l.issue = i
                               /\ next_issue[i] <= l.renew_at - Lead

\* Whatever is lost or removed, tickets for one key are begun at least Retry
\* seconds apart (renewal.rs:46, 95).
IssuesThrottled == \A i \in IssueKey : next_issue[i] >= begun[i] + Retry

\* Only the ticket issued last for a key can become active: a handshake that
\* completes after its ticket was replaced changes nothing (renewal.rs:68).
OnlyNewestActivates ==
    [][\A i \in IssueKey :
          active'[i] \notin {active[i], None} => active'[i] = newest[i]]_renewalVars
===============================================================================
