--------------------------- MODULE ShortcutManager ---------------------------
(***************************************************************************)
(* ShortcutManager (shortcut/state.rs): the leases one node holds, the     *)
(* phase of each, and which lease carries which selector.  Every method    *)
(* that changes state is an operator here; ShortcutEndpoint composes them  *)
(* into the handlers of the main loop.                                     *)
(***************************************************************************)
EXTENDS RouteTable

CONSTANTS
    Ticket,          \* the tickets in circulation, a set of records
    Peer,            \* public keys of the base WireGuard peers
    Local,           \* this node's public key
    MaxClockSkew,    \* MAX_CLOCK_SKEW_SECONDS
    MaxLease,        \* MAX_LEASE_SECONDS
    RemoveCanFail    \* whether `ip rule del` may fail

\* A ticket as far as the manager looks at it.  well_formed stands for the
\* version, epoch, key and delegation checks of validate.
TicketRecord ==
    [session : Session, selector : Selector,
     issuer : Peer, recipient : Peer \cup {Local}, remote : Peer,
     issued_at : Nat, renew_at : Nat, expires_at : Nat, well_formed : BOOLEAN]

ASSUME ManagerAssumption ==
    /\ Ticket \subseteq TicketRecord
    /\ Local \notin Peer
    /\ MaxClockSkew \in Nat
    /\ MaxLease \in Nat
    /\ RemoveCanFail \in BOOLEAN

VARIABLES
    sessions,        \* SessionKey -> [ticket, phase]
    active_routes,   \* selector -> SessionKey
    routes           \* the RouteManager, see RouteTable

managerVars == <<sessions, active_routes, routes>>

SessionPhase == {"Prepared", "Handshaking", "Active", "Draining"}
ManagedSession == [ticket : Ticket, phase : SessionPhase]

ManagerTypeOK ==
    /\ MapType(sessions, Session, ManagedSession)
    /\ MapType(active_routes, Selector, Session)
    /\ RouteStateOK(routes)

\* ShortcutManager::new over an AtomicRouteManager::new, in a kernel that
\* still holds `rules`.
ManagerNew(rules) ==
    /\ sessions = EmptyMap
    /\ active_routes = EmptyMap
    /\ routes = TunClosed(rules)

-------------------------------------------------------------------------------
\* Mutant: the length of the lease is not checked.
ValidateAnyLength(t, now) ==
    /\ t.well_formed
    /\ t.issued_at <= now + MaxClockSkew
    /\ t.issued_at < t.renew_at
    /\ t.renew_at < t.expires_at
    /\ now < t.expires_at

\* ShortcutTicket::validate.
Validate(t, now) ==
    /\ t.well_formed
    /\ t.issued_at <= now + MaxClockSkew
    /\ t.issued_at < t.renew_at
    /\ t.renew_at < t.expires_at
    /\ t.expires_at - t.issued_at <= MaxLease
    /\ now < t.expires_at

\* receive_ticket, when it adds a session.  A ticket for a session that is
\* already managed changes nothing, whether it agrees with it (already_present)
\* or conflicts with it (an error).
ReceiveTicket(t, sender, now) ==
    /\ Validate(t, now)
    /\ t.issuer = sender
    /\ t.recipient = Local
    /\ t.session \notin DOMAIN sessions
    /\ sessions' = Put(sessions, t.session, [ticket |-> t, phase |-> "Prepared"])
    /\ UNCHANGED <<active_routes, routes>>

\* mark_handshaking.
MarkHandshaking(s) ==
    /\ s \in DOMAIN sessions
    /\ sessions' = IF sessions[s].phase = "Prepared"
                   THEN [sessions EXCEPT ![s].phase = "Handshaking"]
                   ELSE sessions
    /\ UNCHANGED <<active_routes, routes>>

\* The selectors whose active route is their own session of S.
Carried(S) ==
    {sel \in DOMAIN active_routes :
        /\ active_routes[sel] \in S \cap DOMAIN sessions
        /\ sessions[active_routes[sel]].ticket.selector = sel}

\* authenticated_handshake once the route is active: the previous session of
\* the selector drains, this one becomes Active.
Promoted(s) ==
    LET selector == sessions[s].ticket.selector
        previous == {p \in DOMAIN sessions \ {s} :
                        /\ selector \in DOMAIN active_routes
                        /\ active_routes[selector] = p}
    IN  [x \in DOMAIN sessions |->
            IF x = s THEN [sessions[x] EXCEPT !.phase = "Active"]
            ELSE IF x \in previous THEN [sessions[x] EXCEPT !.phase = "Draining"]
            ELSE sessions[x]]

\* retire_draining, on a session map m.
Draining(m) == {x \in DOMAIN m : m[x].phase = "Draining"}
RetireDraining(m) == Drop(m, Draining(m))

\* Mutant: the lease's expiry is not checked again at activation.
MayActivateExpired(s, now) ==
    s \in DOMAIN sessions /\ sessions[s].phase # "Active"

\* authenticated_handshake reaches routes.activate: the session is known,
\* unexpired and not Active yet.
MayActivate(s, now) ==
    /\ s \in DOMAIN sessions
    /\ now < sessions[s].ticket.expires_at
    /\ sessions[s].phase # "Active"

\* authenticated_handshake succeeds, followed by the controller's
\* retire_draining.
Authenticate(s) ==
    LET selector == sessions[s].ticket.selector
    IN  /\ routes' = Activated(routes, selector, s)
        /\ sessions' = RetireDraining(Promoted(s))
        /\ active_routes' = Put(active_routes, selector, s)

\* fail, on the route state r that the handler has reached.  The session is
\* removed before the route is: a failing rule removal leaves the route behind.
Fail(s, r) ==
    /\ sessions' = Drop(sessions, {s})
    /\ \/ /\ active_routes' = Drop(active_routes, Carried({s}))
          /\ routes' = Deactivated(r, Carried({s}))
       \/ /\ RemoveCanFail
          /\ Carried({s}) # {}
          /\ active_routes' = active_routes
          /\ routes' = r

\* Mutant: only sessions that never became Active expire.
ExpiredInactive(now) ==
    {s \in DOMAIN sessions : now >= sessions[s].ticket.expires_at /\ sessions[s].phase # "Active"}

\* The sessions expire(now) collects.
Expired(now) == {s \in DOMAIN sessions : now >= sessions[s].ticket.expires_at}

\* expire, for the collected set.
Expire(expired) ==
    /\ sessions' = Drop(sessions, expired)
    /\ active_routes' = Drop(active_routes, Carried(expired))
    /\ routes' = Deactivated(routes, Carried(expired))
===============================================================================
