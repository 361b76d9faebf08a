-------------------------- MODULE NodeSessionProofs ---------------------------
(***************************************************************************)
(* Proofs about the sessions of ShortcutNode when every ticket is accepted *)
(* once: none stays behind on the device, and no event is about a session  *)
(* that is gone.                                                           *)
(***************************************************************************)
EXTENDS ShortcutNodeProofs

\* The device sends the next event of its current step.
LEMMA OnceReport ==
    ASSUME NodeInv, OnceInv, DeviceReport
    PROVE  OnceInv'
<1>1. /\ UNCHANGED <<vars, deviceSessions, authenticated, replying, reply, outbox, delivered, commands>>
      /\ events' = Append(events, Head(reporting)) /\ reporting' = Tail(reporting)
      /\ reporting # <<>>
  BY DEF DeviceReport, mainVars
<1>2. events \in Seq(EventMessage) /\ reporting \in Seq(EventMessage)
  BY DEF NodeInv, ChannelTypeOK
<1>3. Head(reporting) \in EventMessage
  BY <1>1, <1>2, QueuedTail
<1>4. \A kind, s : Pending(kind, s)' <=> Pending(kind, s)
  BY <1>1, <1>2, <1>3, QueuedTail, QueuedAppend DEF Pending
<1>5. /\ UNCHANGED <<sessions, active_routes, generation, preparing>>
  BY <1>1 DEF vars, managerVars, loopVars
<1>6. \A s : (Used(s)' <=> Used(s)) /\ (Unprepared(s)' <=> Unprepared(s))
  BY <1>1, <1>4, <1>5 DEF Used, Unprepared, Removal
<1>7. deviceSessions \subseteq Session
  BY DEF NodeInv, NodeTypeOK
<1>8. NoDeviceLeak' /\ RouteAuthenticated'
  BY <1>1, <1>5 DEF OnceInv, NoDeviceLeak, RouteAuthenticated, Running, Removal
<1> QED  BY <1>1, <1>4, <1>5, <1>6, <1>8 DEF OnceInv

\* The device answers a Prepare.
LEMMA OnceReply ==
    ASSUME NodeInv, OnceInv, DeviceReply
    PROVE  OnceInv'
<1>1. /\ UNCHANGED <<vars, deviceSessions, authenticated, reporting, outbox, delivered, commands, events>>
      /\ reply' = "ok"
  BY DEF DeviceReply
<1>2. UNCHANGED <<sessions, active_routes, generation, preparing>>
  BY <1>1 DEF vars, managerVars, loopVars
<1>3. \A s : (Used(s)' <=> Used(s)) /\ ~Unprepared(s)'
  BY <1>1, <1>2 DEF Used, Unprepared, Removal, Pending
<1>4. NoDeviceLeak' /\ RouteAuthenticated'
  BY <1>1, <1>2 DEF OnceInv, NoDeviceLeak, RouteAuthenticated, Running, Removal
<1> QED  BY <1>1, <1>2, <1>3, <1>4 DEF OnceInv, Pending

\* A step of the idle device that gives sessions up and reports it, takes no
\* Prepare, and forgets a removal only with its session.
LEMMA OnceIdle ==
    ASSUME NodeInv, OnceInv, DeviceIdle,
           deviceSessions' \subseteq deviceSessions,
           authenticated \cap deviceSessions' \subseteq authenticated',
           \A s : Queued("Failed", s, reporting') => s \in deviceSessions /\ s \notin deviceSessions',
           \A s : Queued("Authenticated", s, reporting') =>
              s \in deviceSessions /\ (s \in deviceSessions' => s \in authenticated'),
           \A s : Removal(s, commands') => Removal(s, commands),
           \A s \in deviceSessions' : Removal(s, commands) => Removal(s, commands'),
           UNCHANGED <<vars, replying, reply, outbox, delivered, events>>
    PROVE  OnceInv'
<1>1. UNCHANGED <<sessions, active_routes, generation, preparing, replying, reply, outbox, delivered, events>>
  BY DEF vars, managerVars, loopVars
<1>2. \A s : Unprepared(s)' <=> Unprepared(s)
  BY <1>1 DEF Unprepared
<1>3. \A s : Pending("Failed", s)' => Pending("Failed", s) \/ s \in deviceSessions \ deviceSessions'
  BY <1>1 DEF Pending
<1>4. \A s : Pending("Authenticated", s)' =>
         Pending("Authenticated", s)
         \/ (s \in deviceSessions /\ (s \in deviceSessions' => s \in authenticated'))
  BY <1>1 DEF Pending
<1>5. \A s : Used(s)' => Used(s)
  BY <1>1, <1>3, <1>4 DEF Used, Removal
<1>6. \A s \in Session :
         /\ (Used(s) \/ s \in DOMAIN sessions => s \in delivered)'
         /\ (Unprepared(s) => ~Used(s))'
  BY <1>1, <1>2, <1>5 DEF OnceInv
<1>7. \A s \in Session :
         /\ (Pending("Failed", s) => s \notin deviceSessions)'
         /\ (Pending("Authenticated", s) /\ s \in deviceSessions => s \in authenticated)'
  BY <1>3, <1>4 DEF OnceInv
<1>8. (reply = "err" => preparing \notin deviceSessions)'
  BY <1>1 DEF OnceInv
<1>9. NoDeviceLeak'
  BY <1>1 DEF OnceInv, NoDeviceLeak, Running, Removal
<1>10. RouteAuthenticated'
  BY <1>1 DEF OnceInv, RouteAuthenticated
<1> QED  BY <1>6, <1>7, <1>8, <1>9, <1>10 DEF OnceInv

\* The device gives a session up, or reports a packet without a route.
LEMMA OnceFail ==
    ASSUME NodeInv, OnceInv, DeviceMissingRoute \/ \E s \in Session : DeviceFail(s)
    PROVE  OnceInv'
<1>1. CASE DeviceMissingRoute
  <2>1. /\ DeviceIdle /\ reporting' = <<Notice>>
        /\ UNCHANGED <<vars, deviceSessions, authenticated, replying, reply, outbox, delivered, commands, events>>
    BY <1>1 DEF DeviceMissingRoute, mainVars
  <2>2. Notice \in EventMessage
    BY DEF EventMessage
  <2>3. \A kind, s : Queued(kind, s, reporting') <=> Message("Notice", NoSession) = Message(kind, s)
    BY <2>1, <2>2, QueuedShort DEF Notice
  <2>4. \A s : ~Queued("Failed", s, reporting') /\ ~Queued("Authenticated", s, reporting')
    BY <2>3, MessageFacts
  <2> QED  BY <2>1, <2>4, OnceIdle
<1>2. ASSUME NEW s \in Session, DeviceFail(s)
      PROVE  OnceInv'
  <2>1. /\ DeviceIdle /\ s \in deviceSessions /\ reporting' = <<Message("Failed", s)>>
        /\ deviceSessions' = deviceSessions \ {s} /\ authenticated' = authenticated \ {s}
        /\ UNCHANGED <<vars, replying, reply, outbox, delivered, commands, events>>
    BY <1>2 DEF DeviceFail, mainVars
  <2>2. Message("Failed", s) \in EventMessage
    BY DEF EventMessage, Message
  <2>3. \A kind, x : Queued(kind, x, reporting') <=> Message("Failed", s) = Message(kind, x)
    BY <2>1, <2>2, QueuedShort
  <2>4. \A x : ~Queued("Authenticated", x, reporting') /\ (Queued("Failed", x, reporting') => x = s)
    BY <2>3, MessageFacts
  <2>5. authenticated \cap deviceSessions' \subseteq authenticated' /\ deviceSessions' \subseteq deviceSessions
        /\ s \notin deviceSessions'
    BY <2>1
  <2> QED  BY <2>1, <2>4, <2>5, OnceIdle
<1> QED  BY <1>1, <1>2

\* The device handles a command.
LEMMA OnceCommand ==
    ASSUME NodeInv, OnceInv, DeviceCommand
    PROVE  OnceInv'
<1> DEFINE command == Head(commands)
<1> DEFINE s == command.session
<1>1. /\ DeviceIdle /\ replying = NoSession /\ reporting = <<>>
      /\ UNCHANGED <<vars, outbox, delivered, events>>
      /\ commands # <<>> /\ commands' = Tail(commands)
  BY DEF DeviceCommand, DeviceIdle
<1>2. command \in CommandMessage /\ s \in Session /\ command = Message(command.kind, s)
  BY CommandTaken DEF CommandMessage, Message
<1>3. commands \in Seq(CommandMessage)
  BY DEF NodeInv, ChannelTypeOK
<1>4. \A x : Removal(x, commands) <=>
         \/ Removal(x, commands')
         \/ command = Message("Remove", x) \/ command = Message("Discard", x)
  BY <1>1, <1>3, QueuedTail DEF Removal
<1>5. \A kind, x : command = Message(kind, x) => command.kind = kind /\ s = x
  BY MessageFacts
<1>6. CASE command.kind = "Prepare"
  <2>1. DevicePrepare(s) /\ commands' = <<>> /\ Unprepared(s)
    BY <1>6, CommandTaken DEF DeviceCommand
  <2>2. UNCHANGED <<sessions, active_routes, generation, preparing, outbox, delivered, events>>
    BY Zenon, <1>1 DEF vars, managerVars, loopVars
  <2> HIDE DEF s
  <2>3. /\ ~Used(s) /\ s = preparing /\ reply = "none" /\ s \in DOMAIN sessions /\ s \in delivered
    BY Zenon, <1>2, <2>1, EndpointAssumption DEF OnceInv, Unprepared, NodeInv, SessionsOnDevice
  <2>4. \A x : ~Removal(x, commands) /\ ~Removal(x, commands')
    BY <1>4, <1>5, <1>6, <2>1, EmptyQueue
  <2>5. Notice \in EventMessage
    BY DEF EventMessage
  <2>6. \A kind, x : Queued(kind, x, <<Notice>>) <=> Message("Notice", NoSession) = Message(kind, x)
    BY <2>5, QueuedShort DEF Notice
  <2>7. \A x : /\ ~Queued("Failed", x, reporting') /\ ~Queued("Authenticated", x, reporting')
    <3>1. reporting' = <<Notice>> \/ reporting' = <<>>
      BY <1>1, <2>1 DEF DevicePrepare
    <3>2. \A x : /\ ~Queued("Failed", x, <<Notice>>) /\ ~Queued("Authenticated", x, <<Notice>>)
      BY <2>6, MessageFacts
    <3>3. \A kind, x : ~Queued(kind, x, <<>>)
      BY Zenon, QueuedShort
    <3> QED  BY <3>1, <3>2, <3>3
  <2>8. \A x : /\ Pending("Failed", x)' => Pending("Failed", x)
               /\ Pending("Authenticated", x)' => Pending("Authenticated", x)
    BY <2>2, <2>7 DEF Pending
  <2>9. deviceSessions' \subseteq deviceSessions \cup {s} /\ authenticated \ {s} \subseteq authenticated'
    BY <2>1 DEF DevicePrepare
  <2>10. \A x : Used(x)' => Used(x) \/ x = s
    BY Zenon, <2>2, <2>4, <2>8, <2>9 DEF Used, Removal
  <2>11. \A x : ~Unprepared(x)'
    BY Zenon, <2>1, <2>2, <2>3 DEF DevicePrepare, Unprepared
  <2>12. ~Pending("Failed", s) /\ ~Pending("Authenticated", s) /\ s \notin deviceSessions
         /\ \A sel \in DOMAIN active_routes : active_routes[sel] # s
    BY Zenon, <2>3 DEF Used
  <2>13. \A x \in Session :
            /\ (Used(x) \/ x \in DOMAIN sessions => x \in delivered)'
            /\ (Pending("Failed", x) => x \notin deviceSessions)'
            /\ (Pending("Authenticated", x) /\ x \in deviceSessions => x \in authenticated)'
    BY Zenon, <2>2, <2>3, <2>8, <2>9, <2>10, <2>12 DEF OnceInv
  <2>14. (reply = "err" => preparing \notin deviceSessions)'
    BY Zenon, <2>1, <2>2, <2>3, <2>12 DEF DevicePrepare
  <2>15. NoDeviceLeak'
    BY Zenon, <2>2, <2>3, <2>4, <2>9 DEF OnceInv, NoDeviceLeak, Running, Removal
  <2>16. RouteAuthenticated'
    BY <2>2, <2>9, <2>12 DEF OnceInv, RouteAuthenticated
  <2> QED  BY Zenon, <2>11, <2>13, <2>14, <2>15, <2>16 DEF OnceInv
<1>7. CASE command.kind = "Receive"
  <2>1. DeviceReceive(s)
    BY <1>7 DEF DeviceCommand
  <2>2. \A x : Removal(x, commands) <=> Removal(x, commands')
    BY <1>4, <1>5, <1>7
  <2> QED  BY <1>1, <1>2, <2>1, <2>2, ReceiveFacts, OnceIdle
<1>8. CASE command.kind \in {"Remove", "Discard"}
  <2>1. DeviceRemove(s)
    BY <1>8 DEF DeviceCommand
  <2>2. /\ deviceSessions' = deviceSessions \ {s} /\ authenticated' = authenticated \ {s}
        /\ UNCHANGED <<reporting, replying, reply>>
    BY <2>1 DEF DeviceRemove
  <2>3. \A x \in deviceSessions' : Removal(x, commands) => Removal(x, commands')
    BY <1>4, <1>5, <2>2
  <2>4. \A x : ~Queued("Failed", x, reporting') /\ ~Queued("Authenticated", x, reporting')
    BY <1>1, <2>2, EmptyQueue
  <2>5. authenticated \cap deviceSessions' \subseteq authenticated' /\ deviceSessions' \subseteq deviceSessions
    BY <2>2
  <2>6. \A x : Removal(x, commands') => Removal(x, commands)
    BY <1>4
  <2> QED  BY <1>1, <2>2, <2>3, <2>4, <2>5, <2>6, OnceIdle
<1> QED  BY <1>2, <1>6, <1>7, <1>8 DEF CommandMessage

\* The device task ends.
LEMMA OnceStop ==
    ASSUME NodeInv, OnceInv, DeviceStop
    PROVE  OnceInv'
<1>1. /\ deviceSessions' = {} /\ authenticated' = {} /\ reporting' = <<>>
      /\ replying' = NoSession /\ replying = NoSession /\ commands' = <<>>
      /\ reply' \in {reply, "err"}
      /\ UNCHANGED <<sessions, active_routes, generation, preparing, outbox, delivered, events>>
  BY DEF DeviceStop, DeviceIdle, NoDevice, vars, managerVars, loopVars
<1>2. \A kind, s : Pending(kind, s)' => Pending(kind, s)
  BY <1>1, EmptyQueue DEF Pending
<1>3. \A s : (Used(s)' => Used(s)) /\ (Unprepared(s)' => Unprepared(s))
  BY <1>1, <1>2, EmptyQueue DEF Used, Unprepared, Removal
<1>4. NoDeviceLeak' /\ RouteAuthenticated'
  BY <1>1 DEF NoDeviceLeak, RouteAuthenticated
<1> QED  BY Zenon, <1>1, <1>2, <1>3, <1>4 DEF OnceInv

\* A handler that drops a session from the manager queues its removal, unless
\* the device no longer has it, and routes only sessions that authenticated.
LEMMA OnceHandler ==
    ASSUME NodeInv, OnceInv, Running, ~Busy, preparing' = NoSession,
           DOMAIN sessions' \subseteq DOMAIN sessions,
           \A kind, s : Queued(kind, s, events') => Queued(kind, s, events),
           \A s \in Session : Removal(s, outbox') => Used(s) \/ s \in DOMAIN sessions,
           \A sel \in DOMAIN active_routes' :
              \/ sel \in DOMAIN active_routes /\ active_routes'[sel] = active_routes[sel]
              \/ active_routes'[sel] \in Session /\ Pending("Authenticated", active_routes'[sel]),
           generation' = "running" =>
              \A s \in DOMAIN sessions \ DOMAIN sessions' :
                 s \in deviceSessions => Removal(s, outbox'),
           UNCHANGED <<deviceVars, reply, delivered, commands>>
    PROVE  OnceInv'
<1>1. outbox = <<>> /\ reply = "none" /\ \A s : ~Removal(s, outbox)
  BY BetweenHandlers, EmptyQueue
<1>2. UNCHANGED <<deviceSessions, authenticated, reporting, replying, reply, delivered, commands>>
  BY Zenon DEF deviceVars
<1>3. \A kind, s : Pending(kind, s)' => Pending(kind, s)
  BY ZenonT(30), <1>2 DEF Pending
<1>4. \A s \in Session : Used(s)' => Used(s) \/ s \in DOMAIN sessions
  BY <1>2, <1>3 DEF Used, Removal
<1>5. \A s \in Session : ~Unprepared(s)'
  BY Zenon, EndpointAssumption DEF Unprepared
<1>6. \A s \in Session :
         /\ (Used(s) \/ s \in DOMAIN sessions => s \in delivered)'
         /\ (Pending("Failed", s) => s \notin deviceSessions)'
         /\ (Pending("Authenticated", s) /\ s \in deviceSessions => s \in authenticated)'
  BY ZenonT(30), <1>2, <1>3, <1>4 DEF OnceInv
<1>7. (reply = "err" => preparing \notin deviceSessions)'
  BY <1>1, <1>2
<1>8. NoDeviceLeak'
  <2> SUFFICES ASSUME generation' = "running", NEW s \in deviceSessions, s \notin DOMAIN sessions'
               PROVE  Removal(s, commands') \/ Removal(s, outbox')
    BY Zenon, <1>2 DEF NoDeviceLeak, Running
  <2>1. s \in DOMAIN sessions \/ Removal(s, commands)
    BY Zenon, <1>1 DEF OnceInv, NoDeviceLeak
  <2>2. s \in DOMAIN sessions => Removal(s, outbox')
    BY Zenon
  <2> QED  BY Zenon, <1>2, <2>1, <2>2
<1>9. \A sel \in DOMAIN active_routes' :
         active_routes'[sel] \in deviceSessions => active_routes'[sel] \in authenticated
  BY DEF OnceInv, RouteAuthenticated
<1>10. RouteAuthenticated'
  BY <1>2, <1>9 DEF RouteAuthenticated
<1> QED  BY Zenon, <1>5, <1>6, <1>7, <1>8, <1>10 DEF OnceInv

\* fail and expire add no route.
LEMMA FailRoutes ==
    ASSUME NEW s, NEW r, Fail(s, r)
    PROVE  \A sel \in DOMAIN active_routes' :
              sel \in DOMAIN active_routes /\ active_routes'[sel] = active_routes[sel]
BY DEF Fail, Drop

\* A datagram, a poll, or the end of the loop.
LEMMA OnceLoop ==
    ASSUME NodeInv, OnceInv, NodeInbound \/ NodePoll \/ NodeShutdown
    PROVE  OnceInv'
<1>1. CASE NodeInbound
  <2>1. PICK s \in Session : OnInbound /\ outbox' = <<Message("Receive", s)>>
    BY <1>1 DEF NodeInbound
  <2>2. /\ Running /\ ~Busy
        /\ UNCHANGED <<sessions, active_routes, generation, preparing>>
        /\ UNCHANGED <<deviceVars, reply, delivered, commands, events>>
    BY <1>1, <2>1 DEF NodeInbound, OnInbound, Selecting, managerVars
  <2>3. \A x : ~Removal(x, outbox')
    BY <2>1, SingleCommand
  <2>4. preparing' = NoSession
    BY <2>2, BetweenHandlers
  <2> QED  BY <2>2, <2>3, <2>4, OnceHandler
<1>2. CASE NodePoll \/ NodeShutdown
  <2>1. PICK expired \in SUBSET DOMAIN sessions, kind \in {"Remove", "Discard"} :
           Expire(expired) /\ outbox' \in Commands(kind, expired)
    BY <1>2 DEF NodePoll, Poll, Expired, NodeShutdown, Shutdown
  <2>2. /\ Running /\ ~Busy /\ preparing' = preparing
        /\ UNCHANGED <<deviceVars, reply, delivered, commands, events>>
    BY <1>2 DEF NodePoll, NodeShutdown, Poll, Shutdown, loopVars
  <2>3. expired \in SUBSET Session
    BY DEF NodeInv, NodeTypeOK, EndpointTypeOK, ManagerTypeOK, MapType
  <2>4. \A s : Removal(s, outbox') <=> s \in expired
    BY <2>1, <2>3, RemovalCommands
  <2>5. DOMAIN sessions' = DOMAIN sessions \ expired
    BY <2>1 DEF Expire, Drop
  <2>6. \A sel \in DOMAIN active_routes' :
           sel \in DOMAIN active_routes /\ active_routes'[sel] = active_routes[sel]
    BY <2>1 DEF Expire, Drop
  <2>7. preparing' = NoSession
    BY <2>2, BetweenHandlers
  <2>8. \A s \in DOMAIN sessions \ DOMAIN sessions' : Removal(s, outbox')
    BY <2>4, <2>5
  <2>9. \A s \in Session : Removal(s, outbox') => s \in DOMAIN sessions
    BY <2>1, <2>4
  <2>10. /\ UNCHANGED <<deviceVars, reply, delivered, commands>>
         /\ \A k, x : Queued(k, x, events') => Queued(k, x, events)
         /\ DOMAIN sessions' \subseteq DOMAIN sessions
    BY Zenon, <2>2, <2>5
  <2> QED  BY ZenonT(30), <2>2, <2>6, <2>7, <2>8, <2>9, <2>10, OnceHandler
<1> QED  BY <1>1, <1>2

\* The loop handles an event of the device: only the failure of a session that
\* has left the device is handled without a removal.
LEMMA OnceEvent ==
    ASSUME NodeInv, OnceInv, NodeEvent
    PROVE  OnceInv'
<1> DEFINE event == Head(events)
<1> DEFINE s == event.session
<1>1. /\ events # <<>> /\ HandleEvent(event) /\ events' = Tail(events)
      /\ UNCHANGED <<deviceVars, reply, delivered, commands>>
  BY DEF NodeEvent
<1>2. /\ event \in EventMessage
      /\ event.kind \in {"Authenticated", "Failed"} => s \in Session /\ event = Message(event.kind, s)
  <2>1. event \in EventMessage /\ (event.kind \in {"Authenticated", "Failed"} => s \in Session)
    BY <1>1, HeadEvent DEF NodeInv
  <2>2. Notice.kind = "Notice"
    BY MessageFacts DEF Notice
  <2> QED  BY <2>1, <2>2 DEF EventMessage, Message
<1>3. events \in Seq(EventMessage)
  BY DEF NodeInv, ChannelTypeOK
<1>4. \A kind, x : Queued(kind, x, events) <=> event = Message(kind, x) \/ Queued(kind, x, events')
  BY <1>1, <1>3, QueuedTail
<1>5. /\ Running /\ ~Busy /\ preparing' = preparing
  BY Zenon, <1>1 DEF HandleEvent, OnAuthenticated, OnAuthenticatedLate, OnActivationFailed,
         AlreadyActive,
              OnSessionFailed, Selecting, vars, loopVars
<1>6. /\ outbox = <<>> /\ preparing' = NoSession /\ \A x : ~Removal(x, outbox)
  BY <1>5, BetweenHandlers, EmptyQueue
<1>7. ManagerTypeOK
  BY DEF NodeInv, NodeTypeOK, EndpointTypeOK
<1>8. event.kind = "Authenticated" => s \in Session /\ Pending("Authenticated", s)
  BY Zenon, <1>2, <1>4 DEF Pending
<1>9. event.kind = "Failed" => s \notin deviceSessions
  BY Zenon, <1>2, <1>4 DEF OnceInv, Pending
<1> HIDE DEF s
<1>10. CASE event.kind = "Authenticated" /\ OnAuthenticated(s)
             /\ outbox' \in Commands("Remove", Draining(Promoted(s)))
  <2> DEFINE retired == Draining(Promoted(s))
  <2>1. s \in DOMAIN sessions /\ Authenticate(s)
    BY Zenon, <1>10 DEF OnAuthenticated, MayActivate
  <2>2. retired \subseteq DOMAIN sessions
    BY <1>7, <2>1, PromotedFacts DEF Draining
  <2>3. DOMAIN sessions' = DOMAIN sessions \ retired
    BY Zenon, <1>7, <2>1, AuthenticateSessions
  <2>4. \A sel \in DOMAIN active_routes' :
           \/ sel \in DOMAIN active_routes /\ active_routes'[sel] = active_routes[sel]
           \/ active_routes'[sel] = s
    BY <2>1 DEF Authenticate, Put
  <2>5. outbox' \in Commands("Remove", retired)
    BY <1>10
  <2> HIDE DEF retired
  <2>6. retired \in SUBSET Session
    BY Zenon, <1>7, <2>2 DEF NodeInv, ManagerTypeOK, MapType
  <2>7. \A x : Removal(x, outbox') <=> x \in retired
    BY Zenon, <2>5, <2>6, RemovalCommands
  <2>8. \A x \in DOMAIN sessions \ DOMAIN sessions' : Removal(x, outbox')
    BY <2>3, <2>7
  <2>9. \A x \in Session : Removal(x, outbox') => x \in DOMAIN sessions
    BY Zenon, <2>2, <2>7
  <2>10. \A sel \in DOMAIN active_routes' :
            \/ sel \in DOMAIN active_routes /\ active_routes'[sel] = active_routes[sel]
            \/ active_routes'[sel] \in Session /\ Pending("Authenticated", active_routes'[sel])
    BY Zenon, <1>8, <1>10, <2>4
  <2> QED  BY Zenon, <1>1, <1>4, <1>5, <1>6, <2>3, <2>8, <2>9, <2>10, OnceHandler
<1>11. CASE /\ event.kind = "Authenticated"
            /\ OnAuthenticatedLate(s) \/ OnActivationFailed(s)
            /\ outbox' = <<Message("Discard", s)>>
  <2>1. PICK r : Fail(s, r)
    BY Zenon, <1>11 DEF OnAuthenticatedLate, OnActivationFailed
  <2>2. DOMAIN sessions' = DOMAIN sessions \ {s}
    BY Zenon, <1>7, <2>1, FailSessions
  <2>3. \A sel \in DOMAIN active_routes' :
           sel \in DOMAIN active_routes /\ active_routes'[sel] = active_routes[sel]
    BY <2>1, FailRoutes
  <2>4. \A x : Removal(x, outbox') <=> x = s
    BY <1>8, <1>11, SingleCommand
  <2>5. \A x \in Session : Removal(x, outbox') => Used(x)
    BY <1>8, <1>11, <2>4 DEF Used
  <2>6. \A x \in DOMAIN sessions \ DOMAIN sessions' : Removal(x, outbox')
    BY Zenon, <2>2, <2>4
  <2> QED  BY Zenon, <1>1, <1>4, <1>5, <1>6, <2>2, <2>3, <2>5, <2>6, OnceHandler
<1>12. CASE event.kind = "Failed" /\ OnSessionFailed(s) /\ UNCHANGED outbox
  <2>1. Fail(s, routes)
    BY <1>12 DEF OnSessionFailed
  <2>2. DOMAIN sessions' = DOMAIN sessions \ {s}
    BY <1>7, <2>1, FailSessions
  <2>3. \A sel \in DOMAIN active_routes' :
           sel \in DOMAIN active_routes /\ active_routes'[sel] = active_routes[sel]
    BY <2>1, FailRoutes
  <2>4. \A x \in DOMAIN sessions \ DOMAIN sessions' : x \notin deviceSessions
    BY Zenon, <1>9, <1>12, <2>2
  <2> QED  BY ZenonT(30), <1>1, <1>4, <1>5, <1>6, <1>12, <2>2, <2>3, <2>4, OnceHandler
<1>13. CASE UNCHANGED <<vars, outbox>>
  <2>1. UNCHANGED <<sessions, active_routes>>
    BY Zenon, <1>13 DEF vars, managerVars
  <2> QED  BY Zenon, <1>1, <1>4, <1>5, <1>6, <1>13, <2>1, OnceHandler
<1> QED  BY <1>1, <1>10, <1>11, <1>12, <1>13 DEF HandleEvent, AlreadyActive, s

\* A ticket is accepted: the session is new to the node.
LEMMA OnceTicket ==
    ASSUME NodeInv, OnceInv, MayReplay = FALSE, NodeTicket
    PROVE  OnceInv'
<1>1. PICK t \in Ticket, sender \in Peer, latest_handshake \in 0 .. now :
         /\ t.session \notin delivered
         /\ OnTicket(t, sender, latest_handshake)
         /\ outbox' = <<Message("Prepare", t.session)>>
         /\ delivered' = delivered \cup {t.session}
         /\ UNCHANGED <<deviceVars, reply, commands, events>>
  BY DEF NodeTicket
<1> DEFINE s == t.session
<1>2. s \in Session
  BY Zenon, TicketFields
<1>3. /\ Running /\ ~Busy /\ preparing' = s
      /\ sessions' = Put(sessions, s, [ticket |-> t, phase |-> "Prepared"])
      /\ UNCHANGED <<generation, active_routes>>
  BY Zenon, <1>1 DEF OnTicket, Selecting, ReceiveTicket
<1>4. Message("Prepare", s) \in CommandMessage
  BY <1>2 DEF CommandMessage, Message
<1> HIDE DEF s
<1>5. DOMAIN sessions' = DOMAIN sessions \cup {s}
  BY Zenon, <1>3 DEF Put
<1>6. outbox = <<>> /\ reply = "none" /\ \A x : ~Removal(x, outbox)
  BY Zenon, <1>3, BetweenHandlers, EmptyQueue
<1>7. \A kind, x : Queued(kind, x, outbox') <=> Message("Prepare", s) = Message(kind, x)
  BY <1>1, <1>4, QueuedShort DEF s
<1>8. \A x : ~Removal(x, outbox')
  BY <1>7, MessageFacts DEF Removal
<1>9. UNCHANGED <<deviceSessions, authenticated, reporting, replying, reply, commands, events>>
  BY <1>1 DEF deviceVars
<1>10. \A kind, x : Pending(kind, x)' <=> Pending(kind, x)
  BY Zenon, <1>9 DEF Pending
<1>11. \A x : Used(x)' <=> Used(x)
  BY Zenon, <1>3, <1>6, <1>8, <1>9, <1>10 DEF Used, Removal
<1>12. ~Used(s)
  BY <1>1, <1>2 DEF OnceInv, s
<1>13. delivered' = delivered \cup {s}
  BY <1>1 DEF s
<1>14. \A x : Unprepared(x)' => x = s
  BY Zenon, <1>3 DEF Unprepared
<1>15. NoDeviceLeak'
  BY Zenon, <1>3, <1>5, <1>6, <1>8, <1>9 DEF OnceInv, NoDeviceLeak, Running, Removal
<1>16. RouteAuthenticated'
  BY Zenon, <1>3, <1>9 DEF OnceInv, RouteAuthenticated
<1> QED  BY ZenonT(30), <1>5, <1>6, <1>9, <1>10, <1>11, <1>12, <1>13, <1>14, <1>15, <1>16 DEF OnceInv

\* The answer to a Prepare: a session that fails was never on the device.
LEMMA OncePrepared ==
    ASSUME NodeInv, OnceInv, NodePrepared
    PROVE  OnceInv'
<1>1. /\ preparing' = NoSession /\ reply' = "none" /\ generation' = generation
      /\ UNCHANGED <<deviceSessions, authenticated, reporting, replying, outbox, delivered, commands, events>>
  BY Zenon DEF NodePrepared, OnPrepared, OnPrepareFailed, deviceVars
<1>2. /\ DOMAIN sessions' \subseteq DOMAIN sessions
      /\ \A x \in DOMAIN sessions \ DOMAIN sessions' : x \notin deviceSessions
      /\ \A sel \in DOMAIN active_routes' :
            sel \in DOMAIN active_routes /\ active_routes'[sel] = active_routes[sel]
  <2>1. CASE OnPrepared
    BY Zenon, <2>1 DEF OnPrepared, MarkHandshaking
  <2>2. CASE reply = "err" /\ OnPrepareFailed
    <3>1. Fail(preparing, routes)
      BY <2>2 DEF OnPrepareFailed
    <3>2. DOMAIN sessions' = DOMAIN sessions \ {preparing}
      BY <3>1 DEF Fail, Drop
    <3>3. preparing \notin deviceSessions
      BY <2>2 DEF OnceInv
    <3> QED  BY <3>1, <3>2, <3>3, FailRoutes
  <2> QED  BY <2>1, <2>2 DEF NodePrepared
<1>3. \A kind, s : Pending(kind, s)' <=> Pending(kind, s)
  BY Zenon, <1>1 DEF Pending
<1>4. \A s : Used(s)' => Used(s)
  BY <1>1, <1>2, <1>3 DEF Used, Removal
<1>5. \A s \in Session : ~Unprepared(s)'
  BY Zenon, <1>1, EndpointAssumption DEF Unprepared
<1>6. NoDeviceLeak'
  BY Zenon, <1>1, <1>2 DEF OnceInv, NoDeviceLeak, Running, Removal
<1>7. RouteAuthenticated'
  BY Zenon, <1>1, <1>2 DEF OnceInv, RouteAuthenticated
<1> QED  BY Zenon, <1>1, <1>2, <1>3, <1>4, <1>5, <1>6, <1>7 DEF OnceInv

\* A command is queued for the device, or dropped because it is gone.
LEMMA OnceSend ==
    ASSUME NodeInv, OnceInv, NodeSend \/ NodeSendFails
    PROVE  OnceInv'
<1> DEFINE m == Head(outbox)
<1>1. /\ outbox # <<>> /\ outbox' = Tail(outbox)
      /\ IF sending /\ Len(outbox) = 1 THEN CommandsSent ELSE UNCHANGED vars
      /\ UNCHANGED <<deviceSessions, authenticated, reporting, replying, delivered, events>>
  BY Zenon DEF NodeSend, NodeSendFails, deviceVars
<1>2. /\ m \in CommandMessage
      /\ UNCHANGED <<sessions, active_routes, generation, preparing>>
      /\ \A s : Removal(s, outbox) <=>
            Removal(s, outbox') \/ m = Message("Remove", s) \/ m = Message("Discard", s)
  BY <1>1, OutboxTail
<1>3. commands \in Seq(CommandMessage)
  BY DEF NodeInv, ChannelTypeOK
<1> HIDE DEF m
<1>4. \A s : Removal(s, commands') \/ Removal(s, outbox') => Removal(s, commands) \/ Removal(s, outbox)
  <2>1. CASE NodeSend
    <3>1. commands' = Append(commands, m)
      BY Zenon, <2>1 DEF NodeSend, m
    <3> QED  BY Zenon, <1>2, <1>3, <3>1, QueuedAppend DEF Removal
  <2>2. CASE NodeSendFails
    BY <1>2, <2>2 DEF NodeSendFails, Removal
  <2> QED  BY Zenon, <2>1, <2>2
<1>5. deviceSessions # {} =>
         \A s : Removal(s, commands) \/ Removal(s, outbox) => Removal(s, commands') \/ Removal(s, outbox')
  <2>1. CASE NodeSend
    <3>1. commands' = Append(commands, m)
      BY <2>1 DEF NodeSend, m
    <3> QED  BY Zenon, <1>2, <1>3, <3>1, QueuedAppend DEF Removal
  <2>2. CASE NodeSendFails
    BY Zenon, <2>2 DEF NodeSendFails, NodeInv, EndedIsEmpty
  <2> QED  BY Zenon, <2>1, <2>2
<1>6. \A kind, s : Pending(kind, s)' <=> Pending(kind, s)
  BY Zenon, <1>1 DEF Pending
<1>7. \A s : Used(s)' => Used(s)
  BY Zenon, <1>1, <1>2, <1>4, <1>6 DEF Used, Removal
<1>8. reply' \in {reply, "err"} /\ (reply' # reply => deviceSessions = {})
  BY Zenon DEF NodeSend, NodeSendFails, NodeInv, EndedIsEmpty
<1>9. \A s : Unprepared(s)' => Unprepared(s)
  BY Zenon, <1>1, <1>2, <1>8 DEF Unprepared
<1>10. NoDeviceLeak'
  BY Zenon, <1>1, <1>2, <1>5 DEF OnceInv, NoDeviceLeak, Running, Removal
<1>11. RouteAuthenticated'
  BY Zenon, <1>1, <1>2 DEF OnceInv, RouteAuthenticated
<1> QED  BY ZenonT(30), <1>1, <1>2, <1>6, <1>7, <1>8, <1>9, <1>10, <1>11 DEF OnceInv

\* A generation ends, and everything it knew with it.
LEMMA OnceEnd ==
    ASSUME NodeInv, OnceInv, NodeStopped \/ NodeAbort
    PROVE  OnceInv'
<1>1. PICK left : Stop(left)
  BY Zenon DEF NodeStopped, NodeAbort, Stopped, Abort, ExpireFails
<1>2. /\ generation' = "stopped" /\ DOMAIN sessions' = {} /\ DOMAIN active_routes' = {}
      /\ preparing' = NoSession
  BY <1>1 DEF Stop, EmptyMap
<1>3. /\ deviceSessions' = {} /\ reporting' = <<>>
      /\ commands' = <<>> /\ outbox' = <<>> /\ events' = <<>> /\ reply' = "none"
  <2>1. CASE NodeAbort
    BY <2>1 DEF NodeAbort, NoDevice
  <2>2. CASE NodeStopped
    BY <2>2 DEF NodeStopped, deviceVars, NodeInv, EndedIsEmpty
  <2> QED  BY <2>1, <2>2
<1>4. \A kind, s : ~Queued(kind, s, <<>>)
  BY EmptyQueue
<1>5. \A s : ~Used(s)' /\ ~Pending("Failed", s)'
  BY <1>2, <1>3, <1>4 DEF Used, Pending, Removal
<1>6. \A s \in Session : ~Unprepared(s)'
  BY Zenon, <1>2, EndpointAssumption DEF Unprepared
<1>7. NoDeviceLeak' /\ RouteAuthenticated'
  BY Zenon, <1>2, <1>3 DEF NoDeviceLeak, RouteAuthenticated
<1> QED  BY Zenon, <1>2, <1>3, <1>5, <1>6, <1>7 DEF OnceInv

\* A generation starts, or nothing but the clock or stale rules changes.
LEMMA OnceQuiet ==
    ASSUME NodeInv, OnceInv, NodeStart \/ NodeIdle \/ UNCHANGED nodeVars
    PROVE  OnceInv'
<1>1. /\ UNCHANGED <<sessions, active_routes, preparing>>
      /\ UNCHANGED <<deviceSessions, authenticated, reporting, replying, outbox, reply, commands, events>>
      /\ UNCHANGED delivered
  BY Zenon DEF NodeStart, NodeIdle, Start, StartFails, Tick, nodeVars, vars, managerVars, loopVars,
         mainVars, deviceVars
<1>2. generation = "stopped" \/ UNCHANGED generation
  BY Zenon DEF NodeStart, NodeIdle, Start, StartFails, Tick, nodeVars, vars
<1>3. generation = "stopped" => deviceSessions = {}
  BY DEF NodeInv, EndedIsEmpty
<1>4. \A kind, s : Pending(kind, s)' <=> Pending(kind, s)
  BY Zenon, <1>1 DEF Pending
<1>5. \A s : (Used(s)' <=> Used(s)) /\ (Unprepared(s)' <=> Unprepared(s))
  BY Zenon, <1>1, <1>4 DEF Used, Unprepared, Removal
<1>6. NoDeviceLeak' /\ RouteAuthenticated'
  BY Zenon, <1>1, <1>2, <1>3 DEF OnceInv, NoDeviceLeak, RouteAuthenticated, Running, Removal
<1> QED  BY Zenon, <1>1, <1>4, <1>5, <1>6 DEF OnceInv

\* Every step of the node keeps OnceInv when no ticket is accepted twice.
LEMMA OnceStep ==
    ASSUME MayReplay = FALSE
    PROVE  NodeInv /\ OnceInv /\ [NodeNext]_nodeVars => OnceInv'
<1> SUFFICES ASSUME NodeInv, OnceInv, [NodeNext]_nodeVars
             PROVE  OnceInv'
  OBVIOUS
<1>1. CASE NodeTicket
  BY Zenon, <1>1, OnceTicket
<1>2. CASE NodeInbound \/ NodePoll \/ NodeShutdown \/ NodeDrained
  BY <1>2, OnceLoop DEF NodeDrained
<1>3. CASE NodePrepared
  BY <1>3, OncePrepared
<1>4. CASE NodeEvent
  BY <1>4, OnceEvent
<1>5. CASE NodeSend \/ NodeSendFails
  BY <1>5, OnceSend
<1>6. CASE NodeStopped \/ NodeAbort \/ NodeRemoveFails
  BY <1>6, OnceEnd DEF NodeRemoveFails
<1>7. CASE NodeStart \/ NodeIdle \/ UNCHANGED nodeVars
  BY <1>7, OnceQuiet
<1>8. CASE DeviceStep
  BY Zenon, <1>8, OnceCommand, OnceReport, OnceReply DEF DeviceStep
<1>9. CASE DeviceStop
  BY <1>9, OnceStop
<1>10. CASE DeviceMissingRoute \/ \E s \in Session : DeviceFail(s)
  BY Zenon, <1>10, OnceFail
<1> QED
  BY Zenon, <1>1, <1>2, <1>3, <1>4, <1>5, <1>6, <1>7, <1>8, <1>9, <1>10 DEF NodeNext, MainStep

\* OnceInv holds initially.
LEMMA OnceInit == NodeInit => OnceInv
<1> SUFFICES ASSUME NodeInit
             PROVE  OnceInv
  OBVIOUS
<1>1. DOMAIN sessions = {} /\ DOMAIN active_routes = {} /\ preparing = NoSession
  BY DEF NodeInit, Init, ManagerNew, EmptyMap
<1>2. /\ deviceSessions = {} /\ reporting = <<>> /\ events = <<>>
      /\ commands = <<>> /\ outbox = <<>> /\ reply = "none"
  BY DEF NodeInit
<1>3. \A kind, s : ~Queued(kind, s, <<>>)
  BY Zenon, EmptyQueue
<1>4. \A s : ~Used(s) /\ ~Pending("Failed", s)
  BY Zenon, <1>1, <1>2, <1>3 DEF Used, Pending, Removal
<1>5. \A s \in Session : ~Unprepared(s)
  BY <1>1, EndpointAssumption DEF Unprepared
<1> QED  BY Zenon, <1>1, <1>2, <1>4, <1>5 DEF OnceInv, NoDeviceLeak, RouteAuthenticated

\* OnceInv holds throughout when no ticket is accepted twice.
LEMMA OnceAlways ==
    ASSUME MayReplay = FALSE
    PROVE  NodeSpec => []OnceInv
<1>1. NodeInv /\ OnceInv /\ [NodeNext]_nodeVars => OnceInv'
  BY Zenon, OnceStep
<1> QED  BY <1>1, OnceInit, NodeInvAlways, PTL DEF NodeSpec

\* The device keeps no session the manager has given up: each is known to the
\* manager or its removal is queued (device.rs:222).  A ticket accepted again
\* after its session failed is the one exception.
THEOREM NoSessionLeaks ==
    ASSUME MayReplay = FALSE
    PROVE  NodeSpec => []NoDeviceLeak
<1>1. OnceInv => NoDeviceLeak
  BY Zenon DEF OnceInv
<1> QED  BY <1>1, OnceAlways, PTL

\* A route that leads to a session of the device leads to one whose handshake
\* completed there: no event of an earlier session of that route activates it.
THEOREM RoutesAreAuthenticated ==
    ASSUME MayReplay = FALSE
    PROVE  NodeSpec => []RouteAuthenticated
<1>1. OnceInv => RouteAuthenticated
  BY DEF OnceInv
<1> QED  BY <1>1, OnceAlways, PTL

-------------------------------------------------------------------------------
(* From end to end: what is proved of the control plane over any device holds
   of the node, and with what is proved of its device it says where the traffic
   of a rule goes. *)

\* The kernel's rules, the routes of the TUN and the routes of the manager agree
\* also while commands and events are under way between the two tasks.
THEOREM NodeRoutesAgree == NodeSpec => []RoutesAgree
BY NodeImplementsEndpoint, RoutesAlwaysAgree, PTL DEF ImplementsEndpoint

\* No step of the two tasks takes the route of a managed session away or moves
\* it, whatever the device reports and however late (state.rs:120, 149, 185).
THEOREM NodeRoutesAreKept == NodeSpec => RouteKept
BY NodeImplementsEndpoint, RoutesAreKept, PTL DEF ImplementsEndpoint

\* The node with its device, its channels and its main loop implements the lease
\* specification: by way of ShortcutEndpoint, whose refinement it inherits.
THEOREM NodeImplementsLeaseRouting ==
    ASSUME RemoveCanFail = FALSE
    PROVE  NodeSpec => ImplementsLeaseRouting
<1>1. Spec => ImplementsLeaseRouting
  BY EndpointImplementsLeaseRouting
<1> QED  BY <1>1, NodeImplementsEndpoint, PTL DEF ImplementsEndpoint

\* While both tasks run, the traffic of every rule has an authenticated session
\* of its selector in the device, or the failure of that session is already on
\* its way to the loop, which then removes the rule (state.rs:120, device.rs:225-230).
THEOREM RoutesAreServed ==
    ASSUME RemoveCanFail = FALSE, MayReplay = FALSE
    PROVE  NodeSpec => []RouteServed
<1>1. Spec => []RouteBacked
  BY RoutesAreBacked
<1>2. NodeSpec => []RouteAuthenticated
  BY RoutesAreAuthenticated
<1>3. NodeInv /\ AgreeInv /\ RouteBacked /\ RouteAuthenticated => RouteServed
  <2> SUFFICES ASSUME NodeInv, AgreeInv, RouteBacked, RouteAuthenticated, Running, device = "running",
                      NEW sel \in routes.rules, routes.table
               PROVE  LET s == routes.userspace[sel]
                      IN  /\ sel \in DOMAIN routes.userspace /\ s \in DOMAIN sessions
                          /\ sessions[s].ticket.selector = sel
                          /\ s \in deviceSessions \cap authenticated \/ Pending("Failed", s)
    BY Zenon DEF RouteServed
  <2> DEFINE s == routes.userspace[sel]
  <2>1. /\ sel \in DOMAIN routes.userspace /\ s \in DOMAIN sessions
        /\ sessions[s].phase = "Active" /\ sessions[s].ticket.selector = sel
    BY Zenon DEF RouteBacked
  <2>2. routes.userspace = active_routes
    BY ZenonT(30) DEF AgreeInv, RoutesAgree, Running
  <2>3. OnDevice(s)
    BY <2>1 DEF NodeInv, SessionsOnDevice
  <2>4. s \in deviceSessions => s \in authenticated
    BY Zenon, <2>1, <2>2 DEF RouteAuthenticated
  <2> QED  BY Zenon, <2>1, <2>3, <2>4 DEF OnDevice
<1> QED  BY <1>1, <1>2, <1>3, NodeInvAlways, NodeImplementsEndpoint, PTL DEF ImplementsEndpoint
===============================================================================
