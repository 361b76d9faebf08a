--------------------------- MODULE ShortcutEndpoint ---------------------------
(***************************************************************************)
(* The shortcut control plane of one node: the main loop of                *)
(* run_generation_inner (main.rs) driving the ShortcutController, with the *)
(* supervisor that restarts a generation and the kernel rules that outlive *)
(* it.  The device task is the environment here: any session may be        *)
(* reported authenticated or failed at any time, which covers late and     *)
(* repeated events.  ShortcutNode adds the device and its channels.        *)
(*                                                                         *)
(* The loop is one task, so a handler's effect on the manager is one step. *)
(* Where a handler awaits the device the loop is busy and no other handler *)
(* runs, while time goes on: `preparing` is the session whose preparation  *)
(* reply is awaited, `sending` says that commands are being queued.        *)
(***************************************************************************)
EXTENDS ShortcutManager

CONSTANTS
    NoSession,           \* no preparation is awaited
    BasePath,            \* the path of a selector without a shortcut
    HandshakeLifetime,   \* BASE_HANDSHAKE_LIFETIME_SECONDS
    PollInterval,        \* config.poll_interval()
    MaxTime              \* bound on the clock

ASSUME EndpointAssumption ==
    /\ NoSession \notin Session
    /\ BasePath \notin Ticket
    /\ HandshakeLifetime \in Nat
    /\ PollInterval \in Nat \ {0}
    /\ MaxTime \in Nat

VARIABLES
    generation,   \* "running", "stopping" or "stopped"
    preparing,    \* session whose Prepare reply the loop awaits, or NoSession
    sending,      \* the loop is queueing device commands
    now,          \* unix_now(), in seconds
    nextPoll      \* when the poll interval ticks next

loopVars == <<preparing, sending>>
vars == <<managerVars, generation, loopVars, now, nextPoll>>

EndpointTypeOK ==
    /\ ManagerTypeOK
    /\ generation \in {"running", "stopping", "stopped"}
    /\ preparing \in Session \cup {NoSession}
    /\ sending \in BOOLEAN
    /\ now \in Nat
    /\ nextPoll \in Nat

\* The daemon has not started a generation yet; a crash of an earlier run
\* may have left rules in the kernel.
Init ==
    /\ \E rules \in SUBSET Selector : ManagerNew(rules)
    /\ generation = "stopped"
    /\ preparing = NoSession
    /\ sending = FALSE
    /\ now = 0
    /\ nextPoll = 0

Running == generation = "running"
Busy == preparing # NoSession \/ sending
PollDue == now >= nextPoll

\* The select is biased and polls first: no other handler runs while a poll
\* is due.
Selecting == Running /\ ~Busy /\ ~PollDue

fresh_handshake(latest_handshake) ==
    latest_handshake # 0 /\ now <= latest_handshake + HandshakeLifetime

-------------------------------------------------------------------------------
\* A ticket arrives from the peer `sender`, whose base handshake the snapshot
\* dates at latest_handshake; receive_ticket then awaits device.prepare.
OnTicket(t, sender, latest_handshake) ==
    /\ Selecting
    /\ fresh_handshake(latest_handshake)
    /\ ReceiveTicket(t, sender, now)
    /\ preparing' = t.session
    /\ UNCHANGED <<generation, sending, now, nextPoll>>

\* The device answered Prepare.
OnPrepared ==
    /\ Running
    /\ preparing # NoSession
    /\ MarkHandshaking(preparing)
    /\ preparing' = NoSession
    /\ UNCHANGED <<generation, sending, now, nextPoll>>

\* The device refused Prepare: the session is failed.
OnPrepareFailed ==
    /\ Running
    /\ preparing # NoSession
    /\ Fail(preparing, routes)
    /\ preparing' = NoSession
    /\ UNCHANGED <<generation, sending, now, nextPoll>>

\* An AuthenticatedHandshake event that activates a route; the retired
\* sessions are removed from the device.
OnAuthenticated(s) ==
    /\ Selecting
    /\ MayActivate(s, now)
    /\ Authenticate(s)
    /\ sending' = (Draining(Promoted(s)) # {})
    /\ UNCHANGED <<generation, preparing, now, nextPoll>>

\* An AuthenticatedHandshake event that is rejected, because the session is
\* unknown or expired: it is failed and removed from the device.
OnAuthenticatedLate(s) ==
    /\ Selecting
    /\ s \notin DOMAIN sessions \/ s \in Expired(now)
    /\ Fail(s, routes)
    /\ sending' = TRUE
    /\ UNCHANGED <<generation, preparing, now, nextPoll>>

\* An AuthenticatedHandshake event whose activation fails in policy.install:
\* the route is rolled back, the session failed and removed from the device.
OnActivationFailed(s) ==
    /\ Selecting
    /\ MayActivate(s, now)
    /\ \E table \in {routes.table, TRUE} :
          Fail(s, ActivationRolledBack(routes, sessions[s].ticket.selector, s, table))
    /\ sending' = TRUE
    /\ UNCHANGED <<generation, preparing, now, nextPoll>>

\* A SessionFailed event.  An error of controller.fail is only logged.
OnSessionFailed(s) ==
    /\ Selecting
    /\ Fail(s, routes)
    /\ UNCHANGED <<generation, loopVars, now, nextPoll>>

\* A datagram from a relay is passed to the device.
OnInbound ==
    /\ Selecting
    /\ sending' = TRUE
    /\ UNCHANGED <<managerVars, generation, preparing, now, nextPoll>>

\* The device queue has taken the handler's commands.
CommandsSent ==
    /\ Running
    /\ sending
    /\ sending' = FALSE
    /\ UNCHANGED <<managerVars, generation, preparing, now, nextPoll>>

\* The poll tick: expired leases lose their routes, then their device
\* sessions.  MissedTickBehavior::Skip puts the next tick at most one
\* interval away.
Poll ==
    /\ Running
    /\ ~Busy
    /\ PollDue
    /\ Expire(Expired(now))
    /\ sending' = (Expired(now) # {})
    /\ nextPoll' \in (now + 1) .. (now + PollInterval)
    /\ UNCHANGED <<generation, preparing, now>>

-------------------------------------------------------------------------------
\* The generation is over, with the rules in `left` still in the kernel.
Stop(left) ==
    /\ generation' = "stopped"
    /\ sessions' = EmptyMap
    /\ active_routes' = EmptyMap
    /\ routes' = TunClosed(left)
    /\ preparing' = NoSession
    /\ sending' = FALSE
    /\ UNCHANGED <<now, nextPoll>>

\* Cancelled, or the device closed its event channel: expire(u64::MAX), then
\* the tasks are awaited.
Shutdown ==
    /\ Running
    /\ ~Busy
    /\ Expire(DOMAIN sessions)
    /\ generation' = "stopping"
    /\ UNCHANGED <<loopVars, now, nextPoll>>

\* Every task has ended.
Stopped ==
    /\ generation = "stopping"
    /\ Stop(routes.rules)

\* expire fails part of the way, at a poll or at shutdown: the error ends the
\* generation with the remaining rules in place.
ExpireFails ==
    /\ Running
    /\ ~Busy
    /\ RemoveCanFail
    /\ \E expired \in {Expired(now), DOMAIN sessions} :
          \E done \in SUBSET Carried(expired) :
              done # Carried(expired) /\ Stop(routes.rules \ done)

\* The generation ends without cleaning up: `wg show`, `wg set` or a device
\* command fails, or the process dies.
Abort ==
    /\ generation # "stopped"
    /\ Stop(routes.rules)

\* The supervisor starts a generation: cleanup_stale, then a new TUN and a
\* new manager.  The poll interval's first tick is immediate.
Start ==
    /\ generation = "stopped"
    /\ generation' = "running"
    /\ routes' = CleanedUp(routes, {})
    /\ nextPoll' = now
    /\ UNCHANGED <<sessions, active_routes, loopVars, now>>

\* The start fails; cleanup_stale may have deleted some of the rules.
StartFails ==
    /\ generation = "stopped"
    /\ \E left \in SUBSET routes.rules : routes' = CleanedUp(routes, left)
    /\ UNCHANGED <<sessions, active_routes, generation, loopVars, now, nextPoll>>

\* Handlers take no time; time passes while the loop sleeps or awaits.
Tick ==
    /\ now < MaxTime
    /\ Running => (Busy \/ ~PollDue)
    /\ now' = now + 1
    /\ UNCHANGED <<managerVars, generation, loopVars, nextPoll>>

Handler ==
    \/ \E t \in Ticket, sender \in Peer, latest_handshake \in 0 .. now :
          OnTicket(t, sender, latest_handshake)
    \/ OnPrepared
    \/ OnPrepareFailed
    \/ \E s \in Session : OnAuthenticated(s)
    \/ \E s \in Session : OnAuthenticatedLate(s)
    \/ \E s \in Session : OnActivationFailed(s)
    \/ \E s \in Session : OnSessionFailed(s)
    \/ OnInbound
    \/ CommandsSent
    \/ Poll

Lifecycle == Shutdown \/ Stopped \/ ExpireFails \/ Abort \/ Start \/ StartFails

Next == Handler \/ Lifecycle \/ Tick

Spec == Init /\ [][Next]_vars

\* The loop, the device's answers, the end of the tasks and the clock keep
\* going; nothing is assumed of the network or of the supervisor.
EndpointFairness ==
    /\ WF_vars(Poll)
    /\ WF_vars(CommandsSent)
    /\ WF_vars(OnPrepared \/ OnPrepareFailed)
    /\ WF_vars(Stopped)
    /\ WF_vars(Tick)

FairSpec == Spec /\ EndpointFairness

-------------------------------------------------------------------------------
\* The four copies of "which selector is on which session" agree whenever no
\* handler is running: the device's map, the route manager's, the shortcut
\* manager's, and the kernel's rules.  Activation writes them one after the
\* other and may fail in between (policy.rs:46, state.rs:120).
RoutesAgree ==
    generation # "stopped" =>
        /\ routes.userspace = routes.active
        /\ routes.active = active_routes
        /\ routes.rules = DOMAIN active_routes

\* No black hole: a rule that diverts a selector to the TUN leads to a session
\* that is managed, Active and for that selector.  Rules a dead generation
\* left in the kernel divert nothing, and are gone before a new generation
\* fills the table again.
RouteBacked ==
    \A sel \in routes.rules : routes.table =>
        /\ sel \in DOMAIN routes.userspace
        /\ routes.userspace[sel] \in DOMAIN sessions
        /\ sessions[routes.userspace[sel]].phase = "Active"
        /\ sessions[routes.userspace[sel]].ticket.selector = sel

\* An Active session carries its selector.  authenticated_handshake returns
\* early for an Active session, so one that had lost its route could never
\* get it back (state.rs:128).  With it, at most one session per selector is
\* Active, and none is left Draining between two handlers.
ActiveIsRouted ==
    \A s \in DOMAIN sessions :
        /\ sessions[s].phase # "Draining"
        /\ sessions[s].phase = "Active" =>
              LET sel == sessions[s].ticket.selector
              IN  sel \in DOMAIN active_routes /\ active_routes[sel] = s

\* While the loop keeps up with its poll interval, a selector leaves its lease
\* less than one interval after the lease's expiry, and no lease reaches
\* further than MAX_LEASE plus the clock skew into the future.
LeaseBound ==
    Running /\ now <= nextPoll =>
        \A sel \in routes.rules :
            \E s \in DOMAIN sessions :
                /\ routes.userspace[sel] = s
                /\ now < sessions[s].ticket.expires_at + PollInterval
                /\ sessions[s].ticket.expires_at <= now + MaxClockSkew + MaxLease

\* Why the above hold, as inductive invariants.  AgreeInv does not depend on
\* RemoveCanFail: a stopped generation has left nothing but kernel rules.
StoppedIsEmpty ==
    generation = "stopped" =>
        /\ sessions = EmptyMap
        /\ active_routes = EmptyMap
        /\ routes = TunClosed(routes.rules)

AgreeInv == EndpointTypeOK /\ StoppedIsEmpty /\ RoutesAgree

\* Every active route is that of an Active session for its selector, in a
\* table that leads to the TUN.
ActiveRouteBacked ==
    \A sel \in DOMAIN active_routes :
        /\ active_routes[sel] \in DOMAIN sessions
        /\ sessions[active_routes[sel]].phase = "Active"
        /\ sessions[active_routes[sel]].ticket.selector = sel
        /\ routes.table

\* The next poll comes within an interval of now, and of every lease's expiry.
PollTimely ==
    /\ nextPoll <= now + PollInterval
    /\ \A s \in DOMAIN sessions :
          /\ nextPoll < sessions[s].ticket.expires_at + PollInterval
          /\ sessions[s].ticket.expires_at <= now + MaxClockSkew + MaxLease

\* The invariant behind the lease properties, when rule removals succeed: it
\* ties every copy of a route to a managed session and every session to the
\* poll that will end it.
LeaseInv == AgreeInv /\ ActiveRouteBacked /\ ActiveIsRouted /\ PollTimely

\* A selector stays on its session for as long as that session is managed and
\* the generation runs: a replacement that fails to authenticate, to prepare
\* or to be installed leaves the old route untouched.
RouteKeptStep ==
    \A sel \in DOMAIN active_routes :
        (generation' = "running" /\ active_routes[sel] \in DOMAIN sessions') =>
            /\ sel \in routes'.rules
            /\ sel \in DOMAIN routes'.userspace
            /\ routes'.userspace[sel] = active_routes[sel]

\* No step of the loop takes the route of a managed session away or moves it
\* (state.rs:120, 149, 185).
RouteKept == [][RouteKeptStep]_vars

\* Once no lease is granted any more, every selector that is diverted to the
\* TUN returns to the base path: at the poll after its lease's expiry, or
\* because the generation ends.
Diverted(sel) == routes.table /\ sel \in routes.rules

DivertedReturns == \A sel \in Selector : Diverted(sel) ~> ~Diverted(sel)

\* Where the kernel and the device together send a selector.
PathOf(sel) ==
    IF Diverted(sel) THEN sessions[routes.userspace[sel]].ticket ELSE BasePath

Lease == INSTANCE LeaseRouting WITH
    path <- [sel \in Selector |-> PathOf(sel)],
    clock <- now,
    late <- now > nextPoll,
    Grace <- PollInterval

\* The control plane keeps the promise of LeaseRouting: a step of any handler
\* moves at most one selector onto a lease, an unexpired one for that
\* selector, and otherwise only returns selectors to the base path, in time.
ImplementsLeaseRouting == Lease!LeaseSpec
===============================================================================
