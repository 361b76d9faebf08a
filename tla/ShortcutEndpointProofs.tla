------------------------ MODULE ShortcutEndpointProofs ------------------------
(***************************************************************************)
(* Proofs about ShortcutEndpoint, for any sets of selectors, sessions and  *)
(* tickets, any clock bound and any timing constants.                      *)
(***************************************************************************)
EXTENDS ShortcutEndpoint, TLAPS

-------------------------------------------------------------------------------
(* Maps *)

\* What an insertion leaves in a map.
LEMMA PutFacts ==
    ASSUME NEW f, NEW k, NEW v
    PROVE  /\ DOMAIN Put(f, k, v) = DOMAIN f \cup {k}
           /\ Put(f, k, v)[k] = v
           /\ \A x \in DOMAIN f \ {k} : Put(f, k, v)[x] = f[x]
BY DEF Put

\* What a removal leaves in a map.
LEMMA DropFacts ==
    ASSUME NEW f, NEW K
    PROVE  /\ DOMAIN Drop(f, K) = DOMAIN f \ K
           /\ \A x \in DOMAIN f \ K : Drop(f, K)[x] = f[x]
BY DEF Drop

\* Insertion keeps a map's type.
LEMMA PutType ==
    ASSUME NEW f, NEW K, NEW V, MapType(f, K, V), NEW k \in K, NEW v \in V
    PROVE  MapType(Put(f, k, v), K, V)
BY DEF Put, MapType

\* Removal keeps a map's type.
LEMMA DropType ==
    ASSUME NEW f, NEW K, NEW V, MapType(f, K, V), NEW S
    PROVE  MapType(Drop(f, S), K, V)
BY DEF Drop, MapType

\* The empty map has every map type.
LEMMA EmptyType == ASSUME NEW K, NEW V PROVE MapType(EmptyMap, K, V)
BY DEF EmptyMap, MapType

\* The rollback of activate (policy.rs:46) undoes its replacement exactly: the
\* entry goes back to the value it had, or away if it had none.
LEMMA RollbackRestores ==
    ASSUME NEW f, f = [x \in DOMAIN f |-> f[x]], NEW k, NEW v
    PROVE  /\ k \in DOMAIN f => Put(Put(f, k, v), k, f[k]) = f
           /\ k \notin DOMAIN f => Drop(Put(f, k, v), {k}) = f
<1>1. CASE k \in DOMAIN f
  BY <1>1 DEF Put
<1>2. CASE k \notin DOMAIN f
  BY <1>2 DEF Put, Drop
<1> QED  BY <1>1, <1>2

-------------------------------------------------------------------------------
(* Route states *)

\* Every operation of the route manager keeps the type of its state.
LEMMA RouteOperationsType ==
    ASSUME NEW r, RouteStateOK(r)
    PROVE  /\ \A sel \in Selector, s \in Session : RouteStateOK(Activated(r, sel, s))
           /\ \A sel \in Selector, s \in Session, table \in BOOLEAN :
                 RouteStateOK(ActivationRolledBack(r, sel, s, table))
           /\ \A S : RouteStateOK(Deactivated(r, S))
           /\ \A left \in SUBSET Selector :
                 /\ RouteStateOK(TunClosed(left))
                 /\ RouteStateOK(CleanedUp(r, left))
<1>1. ASSUME NEW sel \in Selector, NEW s \in Session
      PROVE  RouteStateOK(Activated(r, sel, s))
  BY PutType DEF RouteStateOK, Activated
<1>2. ASSUME NEW sel \in Selector, NEW s \in Session, NEW table \in BOOLEAN
      PROVE  RouteStateOK(ActivationRolledBack(r, sel, s, table))
  <2>1. MapType(Put(r.userspace, sel, s), Selector, Session)
    BY PutType DEF RouteStateOK
  <2>2. sel \in DOMAIN r.active => r.active[sel] \in Session
    BY DEF RouteStateOK, MapType
  <2>3. sel \in DOMAIN r.active =>
          MapType(Put(Put(r.userspace, sel, s), sel, r.active[sel]), Selector, Session)
    BY <2>1, <2>2, PutType
  <2>4. MapType(Drop(Put(r.userspace, sel, s), {sel}), Selector, Session)
    BY <2>1, DropType
  <2> QED  BY <2>3, <2>4 DEF RouteStateOK, ActivationRolledBack
<1>3. ASSUME NEW S
      PROVE  RouteStateOK(Deactivated(r, S))
  BY DropType DEF RouteStateOK, Deactivated
<1>4. ASSUME NEW left \in SUBSET Selector
      PROVE  /\ RouteStateOK(TunClosed(left))
             /\ RouteStateOK(CleanedUp(r, left))
  BY EmptyType DEF RouteStateOK, TunClosed, CleanedUp
<1> QED  BY <1>1, <1>2, <1>3, <1>4

-------------------------------------------------------------------------------
(* Type correctness of the manager's methods *)

\* A ticket in circulation is for a session and a selector.
LEMMA TicketFields ==
    ASSUME NEW t \in Ticket
    PROVE  /\ t.session \in Session
           /\ t.selector \in Selector
           /\ t.issued_at \in Nat
           /\ t.expires_at \in Nat
BY ManagerAssumption DEF TicketRecord

\* A managed session has a phase and a ticket in circulation.
LEMMA SessionFields ==
    ASSUME ManagerTypeOK, NEW s \in DOMAIN sessions
    PROVE  /\ s \in Session
           /\ sessions[s] \in ManagedSession
           /\ sessions[s].phase \in SessionPhase
           /\ sessions[s].ticket \in Ticket
           /\ sessions[s].ticket.selector \in Selector
           /\ sessions[s].ticket.expires_at \in Nat
<1>1. s \in Session /\ sessions[s] \in ManagedSession
  BY DEF ManagerTypeOK, MapType
<1>2. sessions[s].phase \in SessionPhase /\ sessions[s].ticket \in Ticket
  BY <1>1 DEF ManagedSession
<1> QED  BY <1>1, <1>2, TicketFields

\* receive_ticket keeps the manager's types.
LEMMA ReceiveTicketType ==
    ASSUME ManagerTypeOK, NEW t \in Ticket, NEW sender, ReceiveTicket(t, sender, now)
    PROVE  ManagerTypeOK'
<1>1. t.session \in Session
  BY TicketFields
<1>2. [ticket |-> t, phase |-> "Prepared"] \in ManagedSession
  BY DEF ManagedSession, SessionPhase
<1>3. MapType(sessions', Session, ManagedSession)
  BY <1>1, <1>2, PutType DEF ManagerTypeOK, ReceiveTicket
<1> QED  BY <1>3 DEF ManagerTypeOK, ReceiveTicket

\* mark_handshaking keeps the manager's types.
LEMMA MarkHandshakingType ==
    ASSUME ManagerTypeOK, NEW s, MarkHandshaking(s)
    PROVE  ManagerTypeOK'
<1>1. CASE sessions[s].phase = "Prepared"
  <2>1. sessions' = [sessions EXCEPT ![s].phase = "Handshaking"]
    BY <1>1 DEF MarkHandshaking
  <2>2. sessions = [x \in DOMAIN sessions |-> sessions[x]]
    BY DEF ManagerTypeOK, MapType
  <2>3. ASSUME NEW x \in DOMAIN sessions'
        PROVE  sessions'[x] \in ManagedSession
    <3>1. sessions[x] \in ManagedSession
      BY <2>1, <2>2, SessionFields
    <3> QED  BY <2>1, <2>2, <3>1 DEF ManagedSession, SessionPhase
  <2>4. MapType(sessions', Session, ManagedSession)
    BY Zenon, <2>1, <2>2, <2>3 DEF ManagerTypeOK, MapType
  <2> QED  BY <2>4 DEF ManagerTypeOK, MarkHandshaking
<1>2. CASE sessions[s].phase # "Prepared"
  BY <1>2 DEF ManagerTypeOK, MarkHandshaking
<1> QED  BY <1>1, <1>2

\* Promoting a session keeps the sessions and changes phases only.
LEMMA PromotedFacts ==
    ASSUME ManagerTypeOK, NEW s \in DOMAIN sessions
    PROVE  /\ MapType(Promoted(s), Session, ManagedSession)
           /\ DOMAIN Promoted(s) = DOMAIN sessions
           /\ Promoted(s)[s].phase = "Active"
           /\ \A x \in DOMAIN sessions : Promoted(s)[x].ticket = sessions[x].ticket
<1>1. \A x \in DOMAIN sessions : sessions[x] \in ManagedSession
  BY SessionFields
<1>2. DOMAIN Promoted(s) = DOMAIN sessions
  BY DEF Promoted
<1>3. \A x \in DOMAIN sessions :
         /\ Promoted(s)[x] \in ManagedSession
         /\ Promoted(s)[x].ticket = sessions[x].ticket
  BY <1>1 DEF Promoted, ManagedSession, SessionPhase
<1>4. Promoted(s)[s].phase = "Active"
  BY <1>1 DEF Promoted, ManagedSession
<1>5. Promoted(s) = [x \in DOMAIN Promoted(s) |-> Promoted(s)[x]]
  BY DEF Promoted
<1>6. DOMAIN sessions \subseteq Session
  BY DEF ManagerTypeOK, MapType
<1> QED  BY <1>2, <1>3, <1>4, <1>5, <1>6 DEF MapType

\* authenticated_handshake with retire_draining keeps the manager's types.
LEMMA AuthenticateType ==
    ASSUME ManagerTypeOK, NEW s \in DOMAIN sessions, Authenticate(s)
    PROVE  ManagerTypeOK'
<1>1. s \in Session /\ sessions[s].ticket.selector \in Selector
  BY SessionFields
<1>2. MapType(sessions', Session, ManagedSession)
  BY PromotedFacts, DropType DEF Authenticate, RetireDraining
<1>3. MapType(active_routes', Selector, Session)
  BY <1>1, PutType DEF Authenticate, ManagerTypeOK
<1>4. RouteStateOK(routes')
  BY <1>1, RouteOperationsType DEF Authenticate, ManagerTypeOK
<1> QED  BY <1>2, <1>3, <1>4 DEF ManagerTypeOK

\* fail keeps the manager's types, on any route state a handler has reached.
LEMMA FailType ==
    ASSUME ManagerTypeOK, NEW s, NEW r, RouteStateOK(r), Fail(s, r)
    PROVE  ManagerTypeOK'
<1>1. MapType(sessions', Session, ManagedSession)
  BY DropType DEF Fail, ManagerTypeOK
<1>2. MapType(active_routes', Selector, Session)
  BY DropType DEF Fail, ManagerTypeOK
<1>3. RouteStateOK(routes')
  BY RouteOperationsType DEF Fail
<1> QED  BY <1>1, <1>2, <1>3 DEF ManagerTypeOK

\* expire keeps the manager's types.
LEMMA ExpireType ==
    ASSUME ManagerTypeOK, NEW expired, Expire(expired)
    PROVE  ManagerTypeOK'
BY DropType, RouteOperationsType DEF Expire, ManagerTypeOK

-------------------------------------------------------------------------------
(* Type correctness of the specification *)

\* Stopping a generation empties it.
LEMMA StopType ==
    ASSUME EndpointTypeOK, NEW left \in SUBSET Selector, Stop(left)
    PROVE  EndpointTypeOK'
<1>1. ManagerTypeOK'
  BY EmptyType, RouteOperationsType DEF EndpointTypeOK, ManagerTypeOK, Stop
<1> QED  BY Zenon, <1>1 DEF EndpointTypeOK, Stop

\* Every step keeps the types.
LEMMA TypeStep == EndpointTypeOK /\ [Next]_vars => EndpointTypeOK'
<1> SUFFICES ASSUME EndpointTypeOK, [Next]_vars
             PROVE  EndpointTypeOK'
  OBVIOUS
<1> ManagerTypeOK
  BY DEF EndpointTypeOK
<1> RouteStateOK(routes)
  BY DEF ManagerTypeOK
<1>1. ASSUME NEW t \in Ticket, NEW sender \in Peer, NEW latest_handshake \in 0 .. now,
             OnTicket(t, sender, latest_handshake)
      PROVE  EndpointTypeOK'
  BY <1>1, ReceiveTicketType, TicketFields DEF OnTicket, EndpointTypeOK
<1>2. CASE OnPrepared
  BY <1>2, MarkHandshakingType DEF OnPrepared, EndpointTypeOK
<1>3. CASE OnPrepareFailed
  BY <1>3, FailType DEF OnPrepareFailed, EndpointTypeOK
<1>4. ASSUME NEW s \in Session, OnAuthenticated(s)
      PROVE  EndpointTypeOK'
  BY <1>4, AuthenticateType DEF OnAuthenticated, MayActivate, EndpointTypeOK
<1>5. ASSUME NEW s \in Session, OnAuthenticatedLate(s)
      PROVE  EndpointTypeOK'
  BY <1>5, FailType DEF OnAuthenticatedLate, EndpointTypeOK
<1>6. ASSUME NEW s \in Session, OnActivationFailed(s)
      PROVE  EndpointTypeOK'
  <2>1. PICK table \in {routes.table, TRUE} :
          Fail(s, ActivationRolledBack(routes, sessions[s].ticket.selector, s, table))
    BY Zenon, <1>6 DEF OnActivationFailed
  <2>2. table \in BOOLEAN
    BY Zenon DEF RouteStateOK
  <2>3. sessions[s].ticket.selector \in Selector
    BY <1>6, SessionFields DEF OnActivationFailed, MayActivate
  <2>4. RouteStateOK(ActivationRolledBack(routes, sessions[s].ticket.selector, s, table))
    BY <2>2, <2>3, RouteOperationsType
  <2>5. ManagerTypeOK'
    BY <2>1, <2>4, FailType
  <2> QED  BY <1>6, <2>5 DEF OnActivationFailed, EndpointTypeOK
<1>7. ASSUME NEW s \in Session, OnSessionFailed(s)
      PROVE  EndpointTypeOK'
  BY <1>7, FailType DEF OnSessionFailed, EndpointTypeOK, loopVars
<1>8. CASE OnInbound \/ CommandsSent
  BY Zenon, <1>8 DEF OnInbound, CommandsSent, EndpointTypeOK, ManagerTypeOK, managerVars
<1>9. CASE Poll
  <2>1. ManagerTypeOK'
    BY <1>9, ExpireType DEF Poll
  <2>2. nextPoll' \in Nat
    BY <1>9, EndpointAssumption DEF Poll, EndpointTypeOK
  <2> QED  BY <1>9, <2>1, <2>2 DEF Poll, EndpointTypeOK
<1>10. CASE Shutdown
  BY <1>10, ExpireType DEF Shutdown, EndpointTypeOK, loopVars
<1>11. CASE Stopped \/ Abort
  <2>1. routes.rules \in SUBSET Selector /\ Stop(routes.rules)
    BY <1>11 DEF Stopped, Abort, RouteStateOK
  <2> QED  BY <2>1, StopType
<1>12. CASE ExpireFails
  <2>1. PICK done : Stop(routes.rules \ done)
    BY Zenon, <1>12 DEF ExpireFails
  <2>2. routes.rules \ done \in SUBSET Selector
    BY DEF RouteStateOK
  <2> QED  BY <2>1, <2>2, StopType
<1>13. CASE Start
  <2>1. RouteStateOK(routes')
    BY <1>13, RouteOperationsType DEF Start
  <2> QED  BY <1>13, <2>1 DEF Start, EndpointTypeOK, ManagerTypeOK, loopVars
<1>14. CASE StartFails
  <2>1. PICK left \in SUBSET routes.rules : routes' = CleanedUp(routes, left)
    BY <1>14 DEF StartFails
  <2>2. left \in SUBSET Selector
    BY DEF RouteStateOK
  <2>3. RouteStateOK(routes')
    BY <2>1, <2>2, RouteOperationsType
  <2> QED  BY <1>14, <2>3 DEF StartFails, EndpointTypeOK, ManagerTypeOK, loopVars
<1>15. CASE Tick
  BY <1>15 DEF Tick, EndpointTypeOK, ManagerTypeOK, managerVars, loopVars
<1>16. CASE UNCHANGED vars
  BY <1>16 DEF vars, EndpointTypeOK, ManagerTypeOK, managerVars, loopVars
<1> QED
  BY <1>1, <1>2, <1>3, <1>4, <1>5, <1>6, <1>7, <1>8, <1>9, <1>10, <1>11, <1>12, <1>13,
     <1>14, <1>15, <1>16 DEF Next, Handler, Lifecycle

-------------------------------------------------------------------------------
(* The copies of the routes agree *)

\* The agreement of a route state with the shortcut manager's map.
Match(r, a) ==
    /\ r.userspace = r.active
    /\ r.active = a
    /\ r.rules = DOMAIN a

\* Each operation of the route manager keeps the agreement, with the change its
\* caller makes to active_routes.
LEMMA MatchOperations ==
    ASSUME NEW r, NEW a, Match(r, a), a = [x \in DOMAIN a |-> a[x]]
    PROVE  /\ \A sel, s : Match(Activated(r, sel, s), Put(a, sel, s))
           /\ \A sel, s, table : Match(ActivationRolledBack(r, sel, s, table), a)
           /\ \A S : Match(Deactivated(r, S), Drop(a, S))
<1>1. ASSUME NEW sel, NEW s
      PROVE  Match(Activated(r, sel, s), Put(a, sel, s))
  <2>1. /\ Activated(r, sel, s).userspace = Put(r.userspace, sel, s)
        /\ Activated(r, sel, s).active = Put(r.active, sel, s)
        /\ Activated(r, sel, s).rules = r.rules \cup {sel}
    BY DEF Activated
  <2>2. DOMAIN Put(a, sel, s) = DOMAIN a \cup {sel}
    BY Zenon, PutFacts
  <2> QED  BY <2>1, <2>2 DEF Match
<1>2. ASSUME NEW sel, NEW s, NEW table
      PROVE  Match(ActivationRolledBack(r, sel, s, table), a)
  <2>1. /\ sel \in DOMAIN a => Put(Put(a, sel, s), sel, a[sel]) = a
        /\ sel \notin DOMAIN a => Drop(Put(a, sel, s), {sel}) = a
    BY RollbackRestores
  <2> QED  BY <2>1 DEF Match, ActivationRolledBack
<1>3. ASSUME NEW S
      PROVE  Match(Deactivated(r, S), Drop(a, S))
  <2>1. /\ Deactivated(r, S).userspace = Drop(r.userspace, S)
        /\ Deactivated(r, S).active = Drop(r.active, S)
        /\ Deactivated(r, S).rules = r.rules \ S
    BY DEF Deactivated
  <2>2. DOMAIN Drop(a, S) = DOMAIN a \ S
    BY Zenon, DropFacts
  <2> QED  BY <2>1, <2>2 DEF Match
<1> QED  BY <1>1, <1>2, <1>3

\* fail keeps the agreement whether or not the rule removal succeeds.
LEMMA FailMatch ==
    ASSUME ManagerTypeOK, NEW s, NEW r, Match(r, active_routes), Fail(s, r)
    PROVE  Match(routes', active_routes')
<1>1. active_routes = [x \in DOMAIN active_routes |-> active_routes[x]]
  BY DEF ManagerTypeOK, MapType
<1>2. \A S : Match(Deactivated(r, S), Drop(active_routes, S))
  BY <1>1, MatchOperations
<1> QED  BY <1>2 DEF Fail

\* Every step keeps AgreeInv.
LEMMA AgreeStep == AgreeInv /\ [Next]_vars => AgreeInv'
<1> SUFFICES ASSUME AgreeInv, [Next]_vars
             PROVE  AgreeInv'
  OBVIOUS
<1> ManagerTypeOK
  BY DEF AgreeInv, EndpointTypeOK
<1> DEFINE a == active_routes
<1>a. a = [x \in DOMAIN a |-> a[x]]
  BY DEF ManagerTypeOK, MapType
<1>b. generation # "stopped" => Match(routes, a)
  BY DEF AgreeInv, RoutesAgree, Match
<1>c. EndpointTypeOK'
  BY TypeStep DEF AgreeInv
\* A step that leaves the generation going has to keep the agreement.
<1>d. ASSUME generation' # "stopped", Match(routes', active_routes')
      PROVE  AgreeInv'
  BY <1>c, <1>d DEF AgreeInv, StoppedIsEmpty, RoutesAgree, Match
<1> HIDE DEF a
<1>1. ASSUME NEW t, NEW sender, NEW latest_handshake, OnTicket(t, sender, latest_handshake)
      PROVE  AgreeInv'
  BY <1>1, <1>b, <1>d DEF OnTicket, ReceiveTicket, Selecting, Running, a
<1>2. CASE OnPrepared
  BY <1>2, <1>b, <1>d DEF OnPrepared, MarkHandshaking, Running, a
<1>3. CASE OnPrepareFailed
  <2>1. generation # "stopped" /\ generation' # "stopped" /\ Fail(preparing, routes)
    BY <1>3 DEF OnPrepareFailed, Running
  <2> QED  BY <2>1, <1>b, <1>d, FailMatch DEF a
<1>4. ASSUME NEW s \in Session, OnAuthenticated(s)
      PROVE  AgreeInv'
  <2>1. generation # "stopped" /\ generation' # "stopped" /\ Authenticate(s)
    BY <1>4 DEF OnAuthenticated, Selecting, Running
  <2>2. \A sel : Match(Activated(routes, sel, s), Put(a, sel, s))
    BY <2>1, <1>a, <1>b, MatchOperations
  <2> QED  BY <2>1, <2>2, <1>d DEF Authenticate, a
<1>5. ASSUME NEW s \in Session, OnAuthenticatedLate(s) \/ OnSessionFailed(s)
      PROVE  AgreeInv'
  <2>1. generation # "stopped" /\ generation' # "stopped" /\ Fail(s, routes)
    BY <1>5 DEF OnAuthenticatedLate, OnSessionFailed, Selecting, Running
  <2> QED  BY <2>1, <1>b, <1>d, FailMatch DEF a
<1>6. ASSUME NEW s \in Session, OnActivationFailed(s)
      PROVE  AgreeInv'
  <2> DEFINE back(table) ==
        ActivationRolledBack(routes, sessions[s].ticket.selector, s, table)
  <2>1. PICK table \in {routes.table, TRUE} : Fail(s, back(table))
    BY Zenon, <1>6 DEF OnActivationFailed
  <2>2. generation # "stopped" /\ generation' # "stopped"
    BY <1>6 DEF OnActivationFailed, Selecting, Running
  <2>3. Match(back(table), a)
    BY <2>2, <1>a, <1>b, MatchOperations
  <2> HIDE DEF back
  <2> QED  BY <2>1, <2>2, <2>3, <1>d, FailMatch DEF a
<1>7. CASE OnInbound \/ CommandsSent
  BY <1>7, <1>b, <1>d DEF OnInbound, CommandsSent, Selecting, Running, managerVars, a
<1>8. CASE Poll \/ Shutdown
  <2>1. PICK expired : Expire(expired)
    BY <1>8 DEF Poll, Shutdown
  <2>2. generation # "stopped" /\ generation' # "stopped"
    BY <1>8 DEF Poll, Shutdown, Running
  <2>3. \A S : Match(Deactivated(routes, S), Drop(a, S))
    BY <2>2, <1>a, <1>b, MatchOperations
  <2> QED  BY <2>1, <2>2, <2>3, <1>d DEF Expire, a
<1>9. CASE Stopped \/ Abort \/ ExpireFails
  <2>1. PICK left : Stop(left)
    BY Zenon, <1>9 DEF Stopped, Abort, ExpireFails
  <2> QED  BY <2>1, <1>c DEF Stop, TunClosed, AgreeInv, StoppedIsEmpty, RoutesAgree
<1>10. CASE Start
  <2>1. active_routes = EmptyMap /\ routes = TunClosed(routes.rules)
    BY <1>10 DEF Start, AgreeInv, StoppedIsEmpty
  <2>2. routes.userspace = EmptyMap /\ routes.active = EmptyMap
    BY <2>1 DEF TunClosed
  <2>3. /\ active_routes' = EmptyMap
        /\ routes'.userspace = EmptyMap
        /\ routes'.active = EmptyMap
        /\ routes'.rules = {}
    BY <1>10, <2>1, <2>2 DEF Start, CleanedUp
  <2>4. Match(routes', active_routes')
    BY <2>3 DEF Match, EmptyMap
  <2> QED  BY <1>10, <2>4, <1>d DEF Start
<1>11. CASE StartFails
  <2>1. routes = TunClosed(routes.rules)
    BY <1>11 DEF StartFails, AgreeInv, StoppedIsEmpty
  <2>2. routes.userspace = EmptyMap /\ routes.active = EmptyMap
    BY <2>1 DEF TunClosed
  <2>3. PICK left : routes' = CleanedUp(routes, left)
    BY <1>11 DEF StartFails
  <2>4. routes' = TunClosed(left) /\ routes'.rules = left
    BY <2>2, <2>3 DEF CleanedUp, TunClosed
  <2> QED  BY <1>11, <1>c, <2>4 DEF StartFails, AgreeInv, StoppedIsEmpty, RoutesAgree
<1>12. CASE Tick
  BY <1>12, <1>c DEF Tick, managerVars, AgreeInv, StoppedIsEmpty, RoutesAgree
<1>13. CASE UNCHANGED vars
  BY <1>13, <1>c DEF vars, managerVars, AgreeInv, StoppedIsEmpty, RoutesAgree
<1> QED
  BY <1>1, <1>2, <1>3, <1>4, <1>5, <1>6, <1>7, <1>8, <1>9, <1>10, <1>11, <1>12, <1>13
  DEF Next, Handler, Lifecycle

\* AgreeInv holds initially.
LEMMA AgreeInit == Init => AgreeInv
<1> SUFFICES ASSUME Init
             PROVE  AgreeInv
  OBVIOUS
<1>1. PICK rules \in SUBSET Selector : ManagerNew(rules)
  BY DEF Init
<1>2. RouteStateOK(TunClosed(rules))
  BY <1>1, EmptyType DEF RouteStateOK, TunClosed
<1>3. ManagerTypeOK
  BY <1>1, <1>2, EmptyType DEF ManagerNew, ManagerTypeOK
<1>4. routes = TunClosed(rules) /\ routes.rules = rules
  BY <1>1 DEF ManagerNew, TunClosed
<1> QED
  BY Zenon, <1>1, <1>3, <1>4 DEF Init, ManagerNew, AgreeInv, EndpointTypeOK, StoppedIsEmpty,
         RoutesAgree

\* AgreeInv holds throughout.
LEMMA AgreeAlways == Spec => []AgreeInv
<1> QED  BY AgreeInit, AgreeStep, PTL DEF Spec

\* Type correctness: the maps of the manager, the route manager and the device
\* hold selectors and sessions only, and every session a ticket in circulation.
THEOREM TypeCorrect == Spec => []EndpointTypeOK
<1>1. AgreeInv => EndpointTypeOK
  BY DEF AgreeInv
<1> QED  BY <1>1, AgreeAlways, PTL

\* The device's map, the route manager's map, the shortcut manager's map and
\* the kernel's rules agree between two handlers, even when `ip` commands fail.
THEOREM RoutesAlwaysAgree == Spec => []RoutesAgree
<1>1. AgreeInv => RoutesAgree
  BY DEF AgreeInv
<1> QED  BY <1>1, AgreeAlways, PTL

-------------------------------------------------------------------------------
(* A managed session keeps its route *)

\* Retiring the drained sessions removes the selector's previous session.
LEMMA PreviousRetired ==
    ASSUME ManagerTypeOK, NEW s \in DOMAIN sessions,
           NEW sel \in DOMAIN active_routes, sel = sessions[s].ticket.selector,
           active_routes[sel] # s
    PROVE  active_routes[sel] \notin DOMAIN RetireDraining(Promoted(s))
<1> DEFINE p == active_routes[sel]
           m == Promoted(s)
<1>a. DOMAIN RetireDraining(m) = DOMAIN m \ Draining(m)
  BY Zenon, DropFacts DEF RetireDraining
<1>b. DOMAIN m = DOMAIN sessions
  BY PromotedFacts
<1>1. CASE p \in DOMAIN sessions
  <2>1. Promoted(s)[p] = [sessions[p] EXCEPT !.phase = "Draining"]
    BY <1>1 DEF Promoted
  <2>2. Promoted(s)[p].phase = "Draining"
    BY <1>1, <2>1, SessionFields DEF ManagedSession
  <2>3. p \in Draining(Promoted(s))
    BY <1>1, <1>b, <2>2 DEF Draining
  <2> QED  BY <2>3, <1>a
<1>2. CASE p \notin DOMAIN sessions
  BY <1>2, <1>a, <1>b
<1> QED  BY <1>1, <1>2

\* Every step keeps the routes of the sessions that stay managed.
LEMMA RouteKeptByStep == AgreeInv /\ [Next]_vars => [RouteKeptStep]_vars
<1> SUFFICES ASSUME AgreeInv, Next, generation' = "running",
                    NEW sel \in DOMAIN active_routes,
                    active_routes[sel] \in DOMAIN sessions'
             PROVE  /\ sel \in routes'.rules
                    /\ sel \in DOMAIN routes'.userspace
                    /\ routes'.userspace[sel] = active_routes[sel]
  BY DEF RouteKeptStep
<1> ManagerTypeOK
  BY DEF AgreeInv, EndpointTypeOK
<1>a. AgreeInv'
  BY AgreeStep
<1> SUFFICES sel \in DOMAIN active_routes' /\ active_routes'[sel] = active_routes[sel]
  BY <1>a DEF AgreeInv, RoutesAgree
<1>1. CASE active_routes' = active_routes
  BY <1>1
<1>2. ASSUME NEW S, sessions' = Drop(sessions, S), active_routes' = Drop(active_routes, Carried(S))
      PROVE  sel \in DOMAIN active_routes' /\ active_routes'[sel] = active_routes[sel]
  <2>1. active_routes[sel] \notin S
    BY <1>2 DEF Drop
  <2>2. sel \notin Carried(S)
    BY <2>1 DEF Carried
  <2> QED  BY <1>2, <2>2 DEF Drop
<1>3. ASSUME NEW s, NEW r, Fail(s, r)
      PROVE  sel \in DOMAIN active_routes' /\ active_routes'[sel] = active_routes[sel]
  BY <1>1, <1>2, <1>3 DEF Fail
<1>4. ASSUME NEW s \in DOMAIN sessions, Authenticate(s)
      PROVE  sel \in DOMAIN active_routes' /\ active_routes'[sel] = active_routes[sel]
  <2>1. CASE sel # sessions[s].ticket.selector
    BY <1>4, <2>1 DEF Authenticate, Put
  <2>2. CASE sel = sessions[s].ticket.selector
    <3>1. active_routes[sel] = s
      BY <1>4, <2>2, PreviousRetired DEF Authenticate
    <3> QED  BY <1>4, <2>2, <3>1 DEF Authenticate, Put
  <2> QED  BY <2>1, <2>2
<1>5. ASSUME NEW t, NEW sender, NEW latest_handshake, OnTicket(t, sender, latest_handshake)
      PROVE  active_routes' = active_routes
  BY <1>5 DEF OnTicket, ReceiveTicket
<1>6. CASE OnPrepared \/ OnInbound \/ CommandsSent \/ Tick
  BY <1>1, <1>6 DEF OnPrepared, MarkHandshaking, OnInbound, CommandsSent, Tick, managerVars
<1>7. CASE OnPrepareFailed
  BY <1>3, <1>7 DEF OnPrepareFailed
<1>8. ASSUME NEW s \in Session, OnAuthenticated(s)
      PROVE  sel \in DOMAIN active_routes' /\ active_routes'[sel] = active_routes[sel]
  BY <1>4, <1>8 DEF OnAuthenticated, MayActivate
<1>9. ASSUME NEW s \in Session,
             OnAuthenticatedLate(s) \/ OnActivationFailed(s) \/ OnSessionFailed(s)
      PROVE  sel \in DOMAIN active_routes' /\ active_routes'[sel] = active_routes[sel]
  BY Zenon, <1>3, <1>9 DEF OnAuthenticatedLate, OnActivationFailed, OnSessionFailed
<1>10. CASE Poll
  BY <1>2, <1>10 DEF Poll, Expire
<1>11. CASE Lifecycle
  BY <1>1, <1>11
  DEF Lifecycle, Shutdown, Stopped, ExpireFails, Abort, Stop, Start, StartFails
<1> QED
  BY <1>1, <1>5, <1>6, <1>7, <1>8, <1>9, <1>10, <1>11 DEF Next, Handler

\* Make-before-break: while the generation runs, no step takes the route of a
\* managed session away or moves it to another session, whatever fails.
THEOREM RoutesAreKept == Spec => RouteKept
<1> QED  BY AgreeAlways, RouteKeptByStep, PTL DEF Spec, RouteKept

-------------------------------------------------------------------------------
(* Leases: the invariant LeaseInv, when rule removals succeed *)

Backed == ActiveRouteBacked /\ ActiveIsRouted

\* Removing sessions together with the routes they carry keeps Backed.
LEMMA BackedByDrop ==
    ASSUME LeaseInv, NEW S,
           sessions' = Drop(sessions, S),
           active_routes' = Drop(active_routes, Carried(S)),
           routes.table => routes'.table
    PROVE  Backed'
<1>1. ASSUME NEW sel \in DOMAIN active_routes'
      PROVE  /\ active_routes'[sel] \in DOMAIN sessions'
             /\ sessions'[active_routes'[sel]].phase = "Active"
             /\ sessions'[active_routes'[sel]].ticket.selector = sel
             /\ routes'.table
  <2> DEFINE q == active_routes[sel]
  <2>1. sel \in DOMAIN active_routes /\ sel \notin Carried(S) /\ active_routes'[sel] = q
    BY DEF Drop
  <2>2. /\ q \in DOMAIN sessions
        /\ sessions[q].phase = "Active"
        /\ sessions[q].ticket.selector = sel
        /\ routes.table
    BY <2>1 DEF LeaseInv, ActiveRouteBacked
  <2>3. q \notin S
    BY <2>1, <2>2 DEF Carried
  <2>4. q \in DOMAIN sessions' /\ sessions'[q] = sessions[q]
    BY <2>2, <2>3 DEF Drop
  <2> QED  BY <2>1, <2>2, <2>4
<1>2. ASSUME NEW x \in DOMAIN sessions'
      PROVE  /\ sessions'[x].phase # "Draining"
             /\ sessions'[x].phase = "Active" =>
                   /\ sessions'[x].ticket.selector \in DOMAIN active_routes'
                   /\ active_routes'[sessions'[x].ticket.selector] = x
  <2>1. x \in DOMAIN sessions /\ x \notin S /\ sessions'[x] = sessions[x]
    BY DEF Drop
  <2>2. sessions[x].phase # "Draining"
    BY <2>1 DEF LeaseInv, ActiveIsRouted
  <2>3. ASSUME sessions[x].phase = "Active"
        PROVE  /\ sessions[x].ticket.selector \in DOMAIN active_routes'
               /\ active_routes'[sessions[x].ticket.selector] = x
    <3> DEFINE sel == sessions[x].ticket.selector
    <3>1. sel \in DOMAIN active_routes /\ active_routes[sel] = x
      BY <2>1, <2>3 DEF LeaseInv, ActiveIsRouted
    <3>2. sel \notin Carried(S)
      BY <2>1, <3>1 DEF Carried
    <3> QED  BY <3>1, <3>2 DEF Drop
  <2> QED  BY <2>1, <2>2, <2>3
<1> QED  BY <1>1, <1>2 DEF Backed, ActiveRouteBacked, ActiveIsRouted

\* authenticated_handshake followed by retire_draining keeps Backed: the new
\* session takes the selector and the previous one is gone.
LEMMA BackedByAuthenticate ==
    ASSUME LeaseInv, NEW s \in DOMAIN sessions, Authenticate(s)
    PROVE  Backed'
<1> DEFINE selector == sessions[s].ticket.selector
           m == Promoted(s)
<1> ManagerTypeOK
  BY DEF LeaseInv, AgreeInv, EndpointTypeOK
<1>1. /\ DOMAIN m = DOMAIN sessions
      /\ m[s].phase = "Active"
      /\ \A x \in DOMAIN sessions : m[x].ticket = sessions[x].ticket
  BY PromotedFacts
<1>2. \A x \in DOMAIN sessions \ {s} :
         ~(selector \in DOMAIN active_routes /\ active_routes[selector] = x)
            => m[x] = sessions[x]
  BY DEF Promoted
<1>3. \A x \in DOMAIN sessions \ {s} :
         selector \in DOMAIN active_routes /\ active_routes[selector] = x
            => m[x].phase = "Draining"
  <2> SUFFICES ASSUME NEW x \in DOMAIN sessions \ {s},
                      selector \in DOMAIN active_routes, active_routes[selector] = x
               PROVE  m[x].phase = "Draining"
    OBVIOUS
  <2>1. m[x] = [sessions[x] EXCEPT !.phase = "Draining"]
    BY DEF Promoted
  <2> QED  BY <2>1, SessionFields DEF ManagedSession
<1>4. /\ sessions' = Drop(m, Draining(m))
      /\ active_routes' = Put(active_routes, selector, s)
      /\ routes'.table = TRUE
  BY DEF Authenticate, RetireDraining, Activated
<1>5. /\ DOMAIN sessions' = {x \in DOMAIN sessions : m[x].phase # "Draining"}
      /\ \A x \in DOMAIN sessions' : sessions'[x] = m[x]
  BY <1>1, <1>4 DEF Drop, Draining
<1>6. /\ DOMAIN active_routes' = DOMAIN active_routes \cup {selector}
      /\ active_routes'[selector] = s
      /\ \A x \in DOMAIN active_routes \ {selector} : active_routes'[x] = active_routes[x]
  BY <1>4 DEF Put
<1> HIDE DEF m
<1>7. ASSUME NEW sel \in DOMAIN active_routes'
      PROVE  /\ active_routes'[sel] \in DOMAIN sessions'
             /\ sessions'[active_routes'[sel]].phase = "Active"
             /\ sessions'[active_routes'[sel]].ticket.selector = sel
             /\ routes'.table
  <2>1. CASE sel = selector
    BY <2>1, <1>1, <1>4, <1>5, <1>6
  <2>2. CASE sel # selector
    <3> DEFINE q == active_routes[sel]
    <3>1. sel \in DOMAIN active_routes /\ active_routes'[sel] = q
      BY <2>2, <1>6
    <3>2. /\ q \in DOMAIN sessions
          /\ sessions[q].phase = "Active"
          /\ sessions[q].ticket.selector = sel
      BY <3>1 DEF LeaseInv, ActiveRouteBacked
    <3>3. ~(selector \in DOMAIN active_routes /\ active_routes[selector] = q)
      BY <2>2, <3>2 DEF LeaseInv, ActiveRouteBacked
    <3>4. m[q] = sessions[q]
      BY <2>2, <3>2, <3>3, <1>2
    <3> QED  BY <3>1, <3>2, <3>4, <1>4, <1>5
  <2> QED  BY <2>1, <2>2
<1>8. ASSUME NEW x \in DOMAIN sessions'
      PROVE  /\ sessions'[x].phase # "Draining"
             /\ sessions'[x].phase = "Active" =>
                   /\ sessions'[x].ticket.selector \in DOMAIN active_routes'
                   /\ active_routes'[sessions'[x].ticket.selector] = x
  <2>1. x \in DOMAIN sessions /\ sessions'[x] = m[x] /\ m[x].phase # "Draining"
    BY <1>5
  <2>2. CASE x = s
    BY <2>1, <2>2, <1>1, <1>6
  <2>3. CASE x # s
    <3>1. ~(selector \in DOMAIN active_routes /\ active_routes[selector] = x)
      BY <2>1, <2>3, <1>3
    <3>2. m[x] = sessions[x]
      BY <2>1, <2>3, <3>1, <1>2
    <3>3. sessions[x].phase = "Active" =>
             /\ sessions[x].ticket.selector \in DOMAIN active_routes
             /\ active_routes[sessions[x].ticket.selector] = x
      BY <2>1 DEF LeaseInv, ActiveIsRouted
    <3> QED  BY <2>1, <3>1, <3>2, <3>3, <1>6
  <2> QED  BY <2>2, <2>3
<1> QED  BY <1>7, <1>8 DEF Backed, ActiveRouteBacked, ActiveIsRouted

\* A ticket's session starts without a route, and replaces none.
LEMMA BackedByTicket ==
    ASSUME LeaseInv, NEW t \in Ticket, NEW sender, ReceiveTicket(t, sender, now)
    PROVE  Backed'
<1>1. /\ DOMAIN sessions' = DOMAIN sessions \cup {t.session}
      /\ sessions'[t.session].phase = "Prepared"
      /\ \A x \in DOMAIN sessions : sessions'[x] = sessions[x]
      /\ UNCHANGED <<active_routes, routes>>
  BY DEF ReceiveTicket, Put
<1>2. ActiveRouteBacked'
  BY <1>1 DEF LeaseInv, ActiveRouteBacked
<1>3. ActiveIsRouted'
  BY <1>1 DEF LeaseInv, ActiveIsRouted
<1> QED  BY <1>2, <1>3 DEF Backed

\* mark_handshaking touches no Active session.
LEMMA BackedByHandshaking ==
    ASSUME LeaseInv, NEW s, MarkHandshaking(s)
    PROVE  Backed'
<1> ManagerTypeOK
  BY DEF LeaseInv, AgreeInv, EndpointTypeOK
<1>1. /\ DOMAIN sessions' = DOMAIN sessions
      /\ \A x \in DOMAIN sessions :
            \/ sessions'[x] = sessions[x]
            \/ /\ sessions[x].phase = "Prepared"
               /\ sessions'[x].phase = "Handshaking"
               /\ sessions'[x].ticket = sessions[x].ticket
      /\ UNCHANGED <<active_routes, routes>>
  <2>1. \A x \in DOMAIN sessions : sessions[x] \in ManagedSession
    BY SessionFields
  <2> QED  BY <2>1 DEF MarkHandshaking, ManagedSession, ManagerTypeOK, MapType
<1>2. ActiveRouteBacked'
  BY <1>1 DEF LeaseInv, ActiveRouteBacked
<1>3. ActiveIsRouted'
  BY <1>1 DEF LeaseInv, ActiveIsRouted
<1> QED  BY <1>2, <1>3 DEF Backed

\* fail keeps Backed when the rule removal succeeds.
LEMMA BackedByFail ==
    ASSUME RemoveCanFail = FALSE, LeaseInv,
           NEW s, NEW r, routes.table => r.table, Fail(s, r)
    PROVE  Backed'
<1>1. /\ sessions' = Drop(sessions, {s})
      /\ active_routes' = Drop(active_routes, Carried({s}))
      /\ routes' = Deactivated(r, Carried({s}))
  BY DEF Fail
<1>2. routes.table => routes'.table
  BY <1>1 DEF Deactivated
<1> QED  BY <1>1, <1>2, BackedByDrop

\* A stopped generation has no session and no route.
LEMMA BackedByStop ==
    ASSUME NEW left, Stop(left)
    PROVE  Backed'
BY DEF Stop, EmptyMap, Backed, ActiveRouteBacked, ActiveIsRouted

\* Every step keeps Backed.
LEMMA BackedStep ==
    ASSUME RemoveCanFail = FALSE, LeaseInv, [Next]_vars
    PROVE  Backed'
<1>1. ASSUME NEW t \in Ticket, NEW sender, NEW latest_handshake,
             OnTicket(t, sender, latest_handshake)
      PROVE  Backed'
  BY <1>1, BackedByTicket DEF OnTicket
<1>2. CASE OnPrepared
  BY <1>2, BackedByHandshaking DEF OnPrepared
<1>3. CASE OnPrepareFailed
  BY Zenon, <1>3, BackedByFail DEF OnPrepareFailed
<1>4. ASSUME NEW s \in Session, OnAuthenticated(s)
      PROVE  Backed'
  BY <1>4, BackedByAuthenticate DEF OnAuthenticated, MayActivate
<1>5. ASSUME NEW s \in Session, OnAuthenticatedLate(s) \/ OnSessionFailed(s)
      PROVE  Backed'
  BY Zenon, <1>5, BackedByFail DEF OnAuthenticatedLate, OnSessionFailed
<1>6. ASSUME NEW s \in Session, OnActivationFailed(s)
      PROVE  Backed'
  <2> DEFINE back(table) ==
        ActivationRolledBack(routes, sessions[s].ticket.selector, s, table)
  <2>1. PICK table \in {routes.table, TRUE} : Fail(s, back(table))
    BY Zenon, <1>6 DEF OnActivationFailed
  <2>2. routes.table => back(table).table
    BY Zenon DEF ActivationRolledBack
  <2> HIDE DEF back
  <2> QED  BY Zenon, <2>1, <2>2, BackedByFail
<1>7. CASE Poll \/ Shutdown
  <2>1. PICK expired : Expire(expired)
    BY <1>7 DEF Poll, Shutdown
  <2>2. routes.table => routes'.table
    BY <2>1 DEF Expire, Deactivated
  <2> QED  BY <2>1, <2>2, BackedByDrop DEF Expire
<1>8. CASE Stopped \/ Abort \/ ExpireFails
  BY <1>8, BackedByStop DEF Stopped, Abort, ExpireFails
<1>9. CASE Start \/ StartFails
  <2>1. sessions' = EmptyMap /\ active_routes' = EmptyMap
    BY <1>9 DEF Start, StartFails, LeaseInv, AgreeInv, StoppedIsEmpty
  <2> QED  BY <2>1 DEF EmptyMap, Backed, ActiveRouteBacked, ActiveIsRouted
<1>10. CASE UNCHANGED managerVars
  BY <1>10 DEF managerVars, LeaseInv, Backed, ActiveRouteBacked, ActiveIsRouted
<1>11. OnInbound \/ CommandsSent \/ Tick \/ UNCHANGED vars => UNCHANGED managerVars
  BY DEF OnInbound, CommandsSent, Tick, vars
<1> QED
  BY <1>1, <1>2, <1>3, <1>4, <1>5, <1>6, <1>7, <1>8, <1>9, <1>10, <1>11
  DEF Next, Handler, Lifecycle

-------------------------------------------------------------------------------
(* Leases and the poll that ends them *)

\* A step that adds no session and leaves the poll where it is.
LEMMA TimelyKept ==
    ASSUME LeaseInv,
           DOMAIN sessions' \subseteq DOMAIN sessions,
           \A x \in DOMAIN sessions' : sessions'[x].ticket = sessions[x].ticket,
           now' \in {now, now + 1}, nextPoll' = nextPoll
    PROVE  PollTimely'
<1> now \in Nat /\ nextPoll \in Nat /\ ManagerTypeOK
  BY DEF LeaseInv, AgreeInv, EndpointTypeOK
<1> PollInterval \in Nat /\ MaxClockSkew \in Nat /\ MaxLease \in Nat
  BY EndpointAssumption, ManagerAssumption
<1>1. nextPoll' <= now' + PollInterval
  <2>1. nextPoll <= now + PollInterval
    BY DEF LeaseInv, PollTimely
  <2>2. CASE now' = now
    BY <2>1, <2>2
  <2>3. CASE now' = now + 1
    <3>1. nextPoll <= now + 1 + PollInterval
      BY <2>1
    <3> QED  BY <2>3, <3>1
  <2> QED  BY Zenon, <2>2, <2>3
<1>2. ASSUME NEW x \in DOMAIN sessions'
      PROVE  /\ nextPoll' < sessions'[x].ticket.expires_at + PollInterval
             /\ sessions'[x].ticket.expires_at <= now' + MaxClockSkew + MaxLease
  <2>1. x \in DOMAIN sessions /\ sessions[x].ticket.expires_at \in Nat
    BY SessionFields
  <2>2. /\ nextPoll < sessions[x].ticket.expires_at + PollInterval
        /\ sessions[x].ticket.expires_at <= now + MaxClockSkew + MaxLease
    BY <2>1 DEF LeaseInv, PollTimely
  <2>3. sessions'[x].ticket.expires_at = sessions[x].ticket.expires_at
    OBVIOUS
  <2> QED  BY <2>1, <2>2, <2>3
<1> QED  BY Zenon, <1>1, <1>2 DEF PollTimely

\* Removing sessions adds none.
LEMMA DropKeepsTickets ==
    ASSUME NEW S, sessions' = Drop(sessions, S)
    PROVE  /\ DOMAIN sessions' \subseteq DOMAIN sessions
           /\ \A x \in DOMAIN sessions' : sessions'[x].ticket = sessions[x].ticket
BY DEF Drop

\* Every step keeps PollTimely.
LEMMA TimelyStep == LeaseInv /\ [Next]_vars => PollTimely'
<1> SUFFICES ASSUME LeaseInv, [Next]_vars
             PROVE  PollTimely'
  OBVIOUS
<1> now \in Nat /\ nextPoll \in Nat /\ ManagerTypeOK
  BY DEF LeaseInv, AgreeInv, EndpointTypeOK
<1> PollInterval \in Nat /\ MaxClockSkew \in Nat /\ MaxLease \in Nat
  BY EndpointAssumption, ManagerAssumption
<1>1. ASSUME NEW t \in Ticket, NEW sender, NEW latest_handshake,
             OnTicket(t, sender, latest_handshake)
      PROVE  PollTimely'
  <2>1. /\ DOMAIN sessions' = DOMAIN sessions \cup {t.session}
        /\ sessions'[t.session].ticket = t
        /\ \A x \in DOMAIN sessions : sessions'[x] = sessions[x]
    BY <1>1 DEF OnTicket, ReceiveTicket, Put
  <2>2. t.issued_at \in Nat /\ t.expires_at \in Nat
    BY TicketFields
  <2>3. now < t.expires_at /\ t.expires_at <= now + MaxClockSkew + MaxLease
    BY <1>1, <2>2 DEF OnTicket, ReceiveTicket, Validate
  <2>4. nextPoll <= now + PollInterval
    BY DEF LeaseInv, PollTimely
  <2>5. nextPoll < t.expires_at + PollInterval
    BY <2>2, <2>3, <2>4
  <2>6. now' = now /\ nextPoll' = nextPoll
    BY <1>1 DEF OnTicket
  <2> QED  BY <2>1, <2>3, <2>4, <2>5, <2>6 DEF LeaseInv, PollTimely
<1>2. CASE OnPrepared
  <2>1. /\ DOMAIN sessions' = DOMAIN sessions
        /\ \A x \in DOMAIN sessions : sessions'[x].ticket = sessions[x].ticket
    <3>1. \A x \in DOMAIN sessions : sessions[x] \in ManagedSession
      BY SessionFields
    <3> QED  BY <1>2, <3>1 DEF OnPrepared, MarkHandshaking, ManagedSession
  <2> QED  BY <1>2, <2>1, TimelyKept DEF OnPrepared
<1>3. ASSUME NEW s, NEW r, Fail(s, r), now' = now, nextPoll' = nextPoll
      PROVE  PollTimely'
  <2>1. sessions' = Drop(sessions, {s})
    BY <1>3 DEF Fail
  <2>2. /\ DOMAIN sessions' \subseteq DOMAIN sessions
        /\ \A x \in DOMAIN sessions' : sessions'[x].ticket = sessions[x].ticket
    BY Zenon, <2>1, DropKeepsTickets
  <2> QED  BY <1>3, <2>2, TimelyKept
<1>4. CASE OnPrepareFailed
  BY <1>3, <1>4 DEF OnPrepareFailed
<1>5. ASSUME NEW s \in Session, OnAuthenticated(s)
      PROVE  PollTimely'
  <2>1. s \in DOMAIN sessions /\ sessions' = RetireDraining(Promoted(s))
    BY <1>5 DEF OnAuthenticated, MayActivate, Authenticate
  <2>2. /\ DOMAIN Promoted(s) = DOMAIN sessions
        /\ \A x \in DOMAIN sessions : Promoted(s)[x].ticket = sessions[x].ticket
    BY <2>1, PromotedFacts
  <2>3. /\ DOMAIN sessions' \subseteq DOMAIN sessions
        /\ \A x \in DOMAIN sessions' : sessions'[x].ticket = sessions[x].ticket
    BY <2>1, <2>2 DEF RetireDraining, Drop
  <2> QED  BY <1>5, <2>3, TimelyKept DEF OnAuthenticated
<1>6. ASSUME NEW s \in Session,
             OnAuthenticatedLate(s) \/ OnActivationFailed(s) \/ OnSessionFailed(s)
      PROVE  PollTimely'
  BY Zenon, <1>3, <1>6 DEF OnAuthenticatedLate, OnActivationFailed, OnSessionFailed
<1>7. CASE Poll
  <2>1. nextPoll' \in Nat /\ nextPoll' <= now + PollInterval /\ now' = now
    BY <1>7 DEF Poll
  <2>2. ASSUME NEW x \in DOMAIN sessions'
        PROVE  /\ nextPoll' < sessions'[x].ticket.expires_at + PollInterval
               /\ sessions'[x].ticket.expires_at <= now' + MaxClockSkew + MaxLease
    <3>1. /\ x \in DOMAIN sessions
          /\ x \notin Expired(now)
          /\ sessions'[x] = sessions[x]
      BY <1>7 DEF Poll, Expire, Drop
    <3>2. sessions[x].ticket.expires_at \in Nat
      BY <3>1, SessionFields
    <3>3. now < sessions[x].ticket.expires_at
      BY <3>1, <3>2 DEF Expired
    <3>4. sessions[x].ticket.expires_at <= now + MaxClockSkew + MaxLease
      BY <3>1 DEF LeaseInv, PollTimely
    <3> QED  BY <2>1, <3>1, <3>2, <3>3, <3>4
  <2> QED  BY <2>1, <2>2 DEF PollTimely
<1>8. CASE Shutdown
  BY <1>8, DropKeepsTickets, TimelyKept DEF Shutdown, Expire
<1>9. CASE Stopped \/ Abort \/ ExpireFails
  <2>1. DOMAIN sessions' = {} /\ now' = now /\ nextPoll' = nextPoll
    BY Zenon, <1>9 DEF Stopped, Abort, ExpireFails, Stop, EmptyMap
  <2> QED  BY <2>1, TimelyKept
<1>10. CASE Start
  <2>1. DOMAIN sessions' = {} /\ now' = now /\ nextPoll' = now
    BY <1>10 DEF Start, LeaseInv, AgreeInv, StoppedIsEmpty, EmptyMap
  <2> QED  BY <2>1 DEF PollTimely
<1>11. CASE StartFails \/ OnInbound \/ CommandsSent \/ Tick \/ UNCHANGED vars
  <2>1. sessions' = sessions /\ nextPoll' = nextPoll /\ now' \in {now, now + 1}
    BY <1>11 DEF StartFails, OnInbound, CommandsSent, Tick, vars, managerVars
  <2> QED  BY <2>1, TimelyKept
<1> QED
  BY <1>1, <1>2, <1>4, <1>5, <1>6, <1>7, <1>8, <1>9, <1>10, <1>11
  DEF Next, Handler, Lifecycle

\* Every step keeps LeaseInv.
LEMMA LeaseStep ==
    ASSUME RemoveCanFail = FALSE
    PROVE  LeaseInv /\ [Next]_vars => LeaseInv'
<1> SUFFICES ASSUME LeaseInv, [Next]_vars
             PROVE  LeaseInv'
  OBVIOUS
<1>1. AgreeInv'
  BY AgreeStep DEF LeaseInv
<1>2. Backed'
  BY Zenon, BackedStep
<1>3. PollTimely'
  BY TimelyStep
<1> QED  BY <1>1, <1>2, <1>3 DEF LeaseInv, Backed

\* LeaseInv holds initially.
LEMMA LeaseInvInit == Init => LeaseInv
<1> SUFFICES ASSUME Init
             PROVE  LeaseInv
  OBVIOUS
<1>1. AgreeInv
  BY AgreeInit
<1>2. sessions = EmptyMap /\ active_routes = EmptyMap /\ now = 0 /\ nextPoll = 0
  BY DEF Init, ManagerNew
<1>3. ActiveRouteBacked /\ ActiveIsRouted
  BY <1>2 DEF EmptyMap, ActiveRouteBacked, ActiveIsRouted
<1>4. PollTimely
  BY <1>2, EndpointAssumption DEF EmptyMap, PollTimely
<1> QED  BY <1>1, <1>3, <1>4 DEF LeaseInv

\* LeaseInv holds throughout when rule removals succeed.
THEOREM LeaseInvariant ==
    ASSUME RemoveCanFail = FALSE
    PROVE  Spec => []LeaseInv
<1> QED  BY LeaseInvInit, LeaseStep, PTL DEF Spec

\* No black hole: a rule that diverts a selector to the TUN leads to a managed,
\* Active session for that selector.
THEOREM RoutesAreBacked ==
    ASSUME RemoveCanFail = FALSE
    PROVE  Spec => []RouteBacked
<1>1. LeaseInv => RouteBacked
  <2> SUFFICES ASSUME LeaseInv, NEW sel \in routes.rules, routes.table
               PROVE  /\ sel \in DOMAIN routes.userspace
                      /\ routes.userspace[sel] \in DOMAIN sessions
                      /\ sessions[routes.userspace[sel]].phase = "Active"
                      /\ sessions[routes.userspace[sel]].ticket.selector = sel
    BY DEF RouteBacked
  <2>1. generation # "stopped"
    <3>1. TunClosed(routes.rules).table = FALSE
      BY DEF TunClosed
    <3> QED  BY <3>1 DEF LeaseInv, AgreeInv, StoppedIsEmpty
  <2>2. routes.userspace = active_routes /\ sel \in DOMAIN active_routes
    BY <2>1 DEF LeaseInv, AgreeInv, RoutesAgree
  <2> QED  BY <2>2 DEF LeaseInv, ActiveRouteBacked
<1> QED  BY <1>1, LeaseInvariant, PTL

\* An Active session carries its selector, so that at most one session per
\* selector is Active, and no session is left Draining between two handlers.
THEOREM ActiveSessionsAreRouted ==
    ASSUME RemoveCanFail = FALSE
    PROVE  Spec => []ActiveIsRouted
<1>1. LeaseInv => ActiveIsRouted
  BY DEF LeaseInv
<1> QED  BY <1>1, LeaseInvariant, PTL

\* While the loop keeps up with its poll interval, a selector leaves its lease
\* within one interval of the lease's expiry.
THEOREM LeasesAreBounded ==
    ASSUME RemoveCanFail = FALSE
    PROVE  Spec => []LeaseBound
<1>1. LeaseInv => LeaseBound
  <2> SUFFICES ASSUME LeaseInv, Running, now <= nextPoll, NEW sel \in routes.rules
               PROVE  \E s \in DOMAIN sessions :
                          /\ routes.userspace[sel] = s
                          /\ now < sessions[s].ticket.expires_at + PollInterval
                          /\ sessions[s].ticket.expires_at <= now + MaxClockSkew + MaxLease
    BY DEF LeaseBound
  <2>1. routes.userspace = active_routes /\ sel \in DOMAIN active_routes
    BY DEF LeaseInv, AgreeInv, RoutesAgree, Running
  <2>2. active_routes[sel] \in DOMAIN sessions
    BY <2>1 DEF LeaseInv, ActiveRouteBacked
  <2> DEFINE s == active_routes[sel]
  <2>3. /\ nextPoll < sessions[s].ticket.expires_at + PollInterval
        /\ sessions[s].ticket.expires_at <= now + MaxClockSkew + MaxLease
    BY <2>2 DEF LeaseInv, PollTimely
  <2>4. sessions[s].ticket.expires_at \in Nat /\ now \in Nat /\ nextPoll \in Nat
    BY <2>2, SessionFields DEF LeaseInv, AgreeInv, EndpointTypeOK
  <2>5. now < sessions[s].ticket.expires_at + PollInterval
    BY <2>3, <2>4, EndpointAssumption
  <2> QED  BY <2>1, <2>2, <2>3, <2>5
<1> QED  BY <1>1, LeaseInvariant, PTL

-------------------------------------------------------------------------------
(***************************************************************************)
(* ShortcutEndpoint implements LeaseRouting, when rule removals succeed:   *)
(* the invariant LeaseInv shows where each selector's traffic goes, and    *)
(* every step is then a Grant, a FallBack or an Advance.                   *)
(***************************************************************************)

\* The path of a selector, told from the manager's own maps.
RoutePath(sel) ==
    IF sel \in DOMAIN active_routes THEN sessions[active_routes[sel]].ticket ELSE BasePath

PathsAreRoutes == \A sel \in Selector : PathOf(sel) = RoutePath(sel)

\* Under LeaseInv the path of a selector is that of its active route.
LEMMA PathFact == LeaseInv => PathsAreRoutes
<1> SUFFICES ASSUME LeaseInv, NEW sel \in Selector
             PROVE  PathOf(sel) = RoutePath(sel)
  BY Zenon DEF PathsAreRoutes
<1>1. CASE generation = "stopped"
  <2>1. routes = TunClosed(routes.rules) /\ active_routes = EmptyMap
    BY <1>1 DEF LeaseInv, AgreeInv, StoppedIsEmpty
  <2>2. routes.table = FALSE /\ DOMAIN active_routes = {}
    BY <2>1 DEF TunClosed, EmptyMap
  <2> QED  BY <2>2 DEF PathOf, Diverted, RoutePath
<1>2. CASE generation # "stopped"
  <2>1. routes.userspace = active_routes /\ routes.rules = DOMAIN active_routes
    BY <1>2 DEF LeaseInv, AgreeInv, RoutesAgree
  <2>2. sel \in DOMAIN active_routes => routes.table
    BY DEF LeaseInv, ActiveRouteBacked
  <2> QED  BY <2>1, <2>2 DEF PathOf, Diverted, RoutePath
<1> QED  BY <1>1, <1>2

\* Every active route belongs to a managed session with a ticket.
LEMMA RouteTicket ==
    ASSUME LeaseInv, NEW sel \in DOMAIN active_routes
    PROVE  /\ sel \in Selector
           /\ active_routes[sel] \in DOMAIN sessions
           /\ sessions[active_routes[sel]].ticket \in Ticket
           /\ sessions[active_routes[sel]].ticket.expires_at \in Nat
<1>1. ManagerTypeOK
  BY DEF LeaseInv, AgreeInv, EndpointTypeOK
<1>2. sel \in Selector
  BY <1>1 DEF ManagerTypeOK, MapType
<1>3. active_routes[sel] \in DOMAIN sessions
  BY DEF LeaseInv, ActiveRouteBacked
<1> QED  BY <1>1, <1>2, <1>3, SessionFields

\* A node that is not late has no selector on a lease past its grace.
LEMMA LeaseTimely == LeaseInv => Lease!Timely
<1> SUFFICES ASSUME LeaseInv, ~(now > nextPoll), NEW sel \in Selector,
                    PathOf(sel) # BasePath
             PROVE  ~(now >= PathOf(sel).expires_at + PollInterval)
  BY Zenon DEF Lease!Timely, Lease!LeasePast
<1> DEFINE s == active_routes[sel]
<1>1. sel \in DOMAIN active_routes /\ PathOf(sel) = sessions[s].ticket
  BY PathFact DEF PathsAreRoutes, RoutePath
<1>2. s \in DOMAIN sessions /\ sessions[s].ticket.expires_at \in Nat
  BY <1>1, RouteTicket
<1>3. nextPoll < sessions[s].ticket.expires_at + PollInterval
  BY <1>2 DEF LeaseInv, PollTimely
<1>4. now \in Nat /\ nextPoll \in Nat /\ PollInterval \in Nat
  BY EndpointAssumption DEF LeaseInv, AgreeInv, EndpointTypeOK
<1>5. ~(now >= sessions[s].ticket.expires_at + PollInterval)
  BY <1>2, <1>3, <1>4
<1> QED  BY <1>1, <1>5

\* Both facts hold after a step as well.
LEMMA NextFacts == LeaseInv' => PathsAreRoutes' /\ Lease!Timely'
BY PathFact, LeaseTimely, PTL

\* A step that adds no route and keeps the tickets of the remaining ones
\* returns selectors to the base path.
LEMMA FallBackStep ==
    ASSUME LeaseInv, LeaseInv', now' = now,
           \A sel \in DOMAIN active_routes' :
               /\ sel \in DOMAIN active_routes
               /\ active_routes'[sel] = active_routes[sel]
               /\ sessions'[active_routes[sel]].ticket = sessions[active_routes[sel]].ticket
    PROVE  Lease!LeaseNext
<1> DEFINE S == {sel \in Selector : sel \notin DOMAIN active_routes'}
<1>1. ASSUME NEW sel \in Selector
      PROVE  PathOf(sel)' = IF sel \in S THEN BasePath ELSE PathOf(sel)
  <2>1. PathOf(sel)' = RoutePath(sel)' /\ PathOf(sel) = RoutePath(sel)
    BY PathFact, NextFacts DEF PathsAreRoutes
  <2> QED  BY <2>1 DEF RoutePath
<1>2. Lease!Timely'
  BY NextFacts
<1> HIDE DEF S
<1>3. [sel \in Selector |-> PathOf(sel)]' =
         [sel \in Selector |->
             IF sel \in S THEN BasePath ELSE [x \in Selector |-> PathOf(x)][sel]]
  BY <1>1
<1>4. Lease!FallBack(S)
  BY <1>2, <1>3 DEF Lease!FallBack
<1>5. S \in SUBSET Selector
  BY DEF S
<1> QED  BY <1>4, <1>5 DEF Lease!LeaseNext

\* An activation moves one selector onto a lease that has not expired.
LEMMA GrantStep ==
    ASSUME LeaseInv, LeaseInv', NEW s \in DOMAIN sessions, Authenticate(s),
           now < sessions[s].ticket.expires_at, now' = now, nextPoll' = nextPoll
    PROVE  Lease!LeaseNext
<1> DEFINE t == sessions[s].ticket
           selector == t.selector
<1> ManagerTypeOK
  BY DEF LeaseInv, AgreeInv, EndpointTypeOK
<1>1. t \in Ticket /\ selector \in Selector
  BY SessionFields
<1>2. \A x \in DOMAIN sessions' : sessions'[x].ticket = sessions[x].ticket
  <2>1. /\ DOMAIN Promoted(s) = DOMAIN sessions
        /\ \A x \in DOMAIN sessions : Promoted(s)[x].ticket = sessions[x].ticket
    BY PromotedFacts
  <2> QED  BY <2>1 DEF Authenticate, RetireDraining, Drop
<1>3. /\ DOMAIN active_routes' = DOMAIN active_routes \cup {selector}
      /\ active_routes'[selector] = s
      /\ \A x \in DOMAIN active_routes \ {selector} : active_routes'[x] = active_routes[x]
  BY DEF Authenticate, Put
<1>4. \A sel \in DOMAIN active_routes' : active_routes'[sel] \in DOMAIN sessions'
  BY DEF LeaseInv, ActiveRouteBacked
<1>5. ASSUME NEW sel \in Selector
      PROVE  PathOf(sel)' = IF sel = selector THEN t ELSE PathOf(sel)
  <2>1. PathOf(sel)' = RoutePath(sel)' /\ PathOf(sel) = RoutePath(sel)
    BY PathFact, NextFacts DEF PathsAreRoutes
  <2>2. CASE sel = selector
    <3>1. sessions'[s].ticket = t
      BY <1>2, <1>3, <1>4
    <3> QED  BY <2>1, <2>2, <3>1, <1>3 DEF RoutePath
  <2>3. CASE sel # selector
    <3>1. sel \in DOMAIN active_routes' <=> sel \in DOMAIN active_routes
      BY <2>3, <1>3
    <3>2. sel \in DOMAIN active_routes =>
             /\ active_routes'[sel] = active_routes[sel]
             /\ sessions'[active_routes[sel]].ticket = sessions[active_routes[sel]].ticket
      BY <2>3, <1>2, <1>3, <1>4
    <3> QED  BY <2>1, <2>3, <3>1, <3>2 DEF RoutePath
  <2> QED  BY <2>2, <2>3
<1> HIDE DEF t
<1>6. [sel \in Selector |-> PathOf(sel)]' =
         [[sel \in Selector |-> PathOf(sel)] EXCEPT ![t.selector] = t]
  BY Zenon, <1>5
<1>7. now < t.expires_at
  BY DEF t
<1>8. Lease!Grant(t.selector, t)
  BY <1>6, <1>7 DEF Lease!Grant
<1> QED  BY <1>1, <1>8 DEF Lease!LeaseNext

\* Every step of the endpoint is a step of LeaseRouting.
LEMMA LeaseRoutingStep ==
    ASSUME RemoveCanFail = FALSE
    PROVE  LeaseInv /\ [Next]_vars => [Lease!LeaseNext]_(Lease!pathVars)
<1> SUFFICES ASSUME LeaseInv, [Next]_vars
             PROVE  Lease!LeaseNext
  OBVIOUS
<1> LeaseInv'
  BY Zenon, LeaseStep
<1> ManagerTypeOK
  BY DEF LeaseInv, AgreeInv, EndpointTypeOK
<1> ManagerTypeOK'
  BY DEF LeaseInv, AgreeInv, EndpointTypeOK
<1>a. \A sel \in DOMAIN active_routes : active_routes[sel] \in DOMAIN sessions
  BY DEF LeaseInv, ActiveRouteBacked
<1>b. \A sel \in DOMAIN active_routes' : active_routes'[sel] \in DOMAIN sessions'
  BY DEF LeaseInv, ActiveRouteBacked
\* The routes stay, and the sessions keep their tickets.
<1>1. ASSUME active_routes' = active_routes, now' = now,
             \A x \in DOMAIN sessions : sessions'[x].ticket = sessions[x].ticket
      PROVE  Lease!LeaseNext
  BY <1>1, <1>a, FallBackStep
\* Sessions are removed with the routes they carry.
<1>2. ASSUME NEW S, NEW T, now' = now,
             sessions' = Drop(sessions, S), active_routes' = Drop(active_routes, T)
      PROVE  Lease!LeaseNext
  <2>1. ASSUME NEW sel \in DOMAIN active_routes'
        PROVE  /\ sel \in DOMAIN active_routes
               /\ active_routes'[sel] = active_routes[sel]
               /\ sessions'[active_routes[sel]].ticket = sessions[active_routes[sel]].ticket
    <3>1. sel \in DOMAIN active_routes /\ active_routes'[sel] = active_routes[sel]
      BY <1>2 DEF Drop
    <3>2. active_routes[sel] \in DOMAIN sessions'
      BY <3>1, <1>b
    <3> QED  BY <1>2, <3>1, <3>2 DEF Drop
  <2> QED  BY <1>2, <2>1, FallBackStep
<1>3. ASSUME NEW s, NEW r, Fail(s, r), now' = now
      PROVE  Lease!LeaseNext
  <2>1. sessions' = Drop(sessions, {s}) /\ active_routes' = Drop(active_routes, Carried({s}))
    BY <1>3 DEF Fail
  <2> QED  BY <1>2, <1>3, <2>1
<1>4. ASSUME NEW t, NEW sender, NEW latest_handshake, OnTicket(t, sender, latest_handshake)
      PROVE  Lease!LeaseNext
  <2>1. \A x \in DOMAIN sessions : sessions'[x].ticket = sessions[x].ticket
    BY <1>4 DEF OnTicket, ReceiveTicket, Put
  <2> QED  BY <1>1, <1>4, <2>1 DEF OnTicket, ReceiveTicket
<1>5. CASE OnPrepared
  <2>1. \A x \in DOMAIN sessions : sessions[x] \in ManagedSession
    BY SessionFields
  <2>2. \A x \in DOMAIN sessions : sessions'[x].ticket = sessions[x].ticket
    BY <1>5, <2>1 DEF OnPrepared, MarkHandshaking, ManagedSession
  <2> QED  BY <1>1, <1>5, <2>2 DEF OnPrepared, MarkHandshaking
<1>6. CASE OnPrepareFailed
  BY <1>3, <1>6 DEF OnPrepareFailed
<1>7. ASSUME NEW s \in Session, OnAuthenticated(s)
      PROVE  Lease!LeaseNext
  BY <1>7, GrantStep DEF OnAuthenticated, MayActivate
<1>8. ASSUME NEW s \in Session,
             OnAuthenticatedLate(s) \/ OnActivationFailed(s) \/ OnSessionFailed(s)
      PROVE  Lease!LeaseNext
  BY Zenon, <1>3, <1>8 DEF OnAuthenticatedLate, OnActivationFailed, OnSessionFailed
<1>9. CASE Poll \/ Shutdown
  <2>1. PICK S : Expire(S)
    BY <1>9 DEF Poll, Shutdown
  <2>2. now' = now
    BY <1>9 DEF Poll, Shutdown
  <2> QED  BY <1>2, <2>1, <2>2 DEF Expire
<1>10. CASE Stopped \/ Abort \/ ExpireFails
  <2>1. DOMAIN active_routes' = {} /\ now' = now
    BY <1>10 DEF Stopped, Abort, ExpireFails, Stop, EmptyMap
  <2> QED  BY <2>1, FallBackStep
<1>11. CASE Start \/ StartFails \/ OnInbound \/ CommandsSent \/ UNCHANGED vars
  <2>1. active_routes' = active_routes /\ sessions' = sessions /\ now' = now
    BY <1>11 DEF Start, StartFails, OnInbound, CommandsSent, vars, managerVars
  <2> QED  BY <1>1, <2>1
<1>12. CASE Tick
  <2>1. \A sel : PathOf(sel)' = PathOf(sel)
    BY <1>12 DEF Tick, managerVars, PathOf, Diverted
  <2>2. [sel \in Selector |-> PathOf(sel)]' = [sel \in Selector |-> PathOf(sel)]
    BY <2>1
  <2>3. Lease!Advance
    BY <1>12, <2>2, NextFacts DEF Tick, Lease!Advance
  <2> QED  BY <2>3 DEF Lease!LeaseNext
<1> QED
  BY <1>4, <1>5, <1>6, <1>7, <1>8, <1>9, <1>10, <1>11, <1>12 DEF Next, Handler, Lifecycle

\* The control plane of one node implements LeaseRouting: whatever the network,
\* the device and the supervisor do, a selector is only ever moved onto an
\* unexpired lease of its own, one at a time, and leaves it in time.
THEOREM EndpointImplementsLeaseRouting ==
    ASSUME RemoveCanFail = FALSE
    PROVE  Spec => ImplementsLeaseRouting
<1>1. Init => Lease!LeaseInit
  <2> SUFFICES ASSUME Init
               PROVE  Lease!LeaseInit
    OBVIOUS
  <2>1. PICK rules \in SUBSET Selector : ManagerNew(rules)
    BY DEF Init
  <2>2. routes.table = FALSE /\ now = 0 /\ nextPoll = 0
    BY <2>1 DEF Init, ManagerNew, TunClosed
  <2>3. \A sel : PathOf(sel) = BasePath
    BY <2>2 DEF PathOf, Diverted
  <2> QED  BY <2>2, <2>3 DEF Lease!LeaseInit
<1> QED
  BY <1>1, LeaseInvariant, LeaseRoutingStep, PTL
  DEF Spec, ImplementsLeaseRouting, Lease!LeaseSpec
===============================================================================
