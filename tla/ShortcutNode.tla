----------------------------- MODULE ShortcutNode -----------------------------
(***************************************************************************)
(* One node with its device task (shortcut/device.rs): the main loop of    *)
(* ShortcutEndpoint and the device exchange commands and events over two   *)
(* bounded channels, and each of them blocks when the channel it sends to  *)
(* is full.  Every step of the main loop here is a step of                 *)
(* ShortcutEndpoint; what this module adds is where its events come from.  *)
(*                                                                         *)
(*   outbox     commands the current handler has still to queue            *)
(*   commands   the command channel, main loop to device                   *)
(*   reporting  events the device's current step has still to send         *)
(*   events     the event channel, device to main loop                     *)
(*   replying   the session whose Prepare the device answers next          *)
(*   reply      the oneshot answer to the Prepare in progress              *)
(***************************************************************************)
EXTENDS ShortcutEndpoint, Sequences, FiniteSets, Functions

CONSTANTS
    CommandCapacity,   \* 256 in device::start
    EventCapacity,     \* 256 in device::start
    MayReplay          \* a copy of a ticket may arrive after its session ended

ASSUME NodeAssumption ==
    /\ CommandCapacity \in Nat \ {0}
    /\ EventCapacity \in Nat \ {0}
    /\ MayReplay \in BOOLEAN

VARIABLES
    device,           \* "running" or "stopped"
    deviceSessions,   \* the device's session map
    authenticated,    \* its sessions that have completed a handshake
    commands, outbox, events, reporting, replying, reply,
    delivered         \* sessions whose ticket was accepted

mainVars == <<outbox, reply, delivered>>
deviceVars == <<device, deviceSessions, authenticated, reporting, replying>>
nodeVars == <<vars, deviceVars, mainVars, commands, events>>

\* A command is "Prepare", "Receive", or DeviceCommand::Remove: "Remove" where
\* a failing send ends the generation, "Discard" where it is only logged.
Message(kind, s) == [kind |-> kind, session |-> s]

\* HandshakeStarted, InnerPacket and MissingRoute: events that only take room.
Notice == Message("Notice", NoSession)

\* A command for each session of S, in any order a HashMap may have.
Commands(kind, S) ==
    LET M == {Message(kind, s) : s \in S}
    IN  {q \in UNION {[1 .. n -> M] : n \in 0 .. Cardinality(M)} : IsInjective(q) /\ Range(q) = M}

Queued(kind, s, q) == \E i \in DOMAIN q : q[i] = Message(kind, s)
Removal(s, q) == Queued("Remove", s, q) \/ Queued("Discard", s, q)

NodeTypeOK ==
    /\ EndpointTypeOK
    /\ device \in {"running", "stopped"}
    /\ authenticated \subseteq deviceSessions
    /\ deviceSessions \subseteq Session
    /\ Len(commands) <= CommandCapacity
    /\ Len(events) <= EventCapacity
    /\ replying \in Session \cup {NoSession}
    /\ reply \in {"none", "ok", "err"}
    /\ sending => outbox # <<>>

NoDevice ==
    /\ device' = "stopped"
    /\ deviceSessions' = {}
    /\ authenticated' = {}
    /\ reporting' = <<>>
    /\ replying' = NoSession

NodeInit ==
    /\ Init
    /\ device = "stopped"
    /\ deviceSessions = {}
    /\ authenticated = {}
    /\ commands = <<>> /\ outbox = <<>>
    /\ events = <<>> /\ reporting = <<>>
    /\ replying = NoSession /\ reply = "none"
    /\ delivered = {}

-------------------------------------------------------------------------------
\* The main loop's handlers.

NodeTicket ==
    \E t \in Ticket, sender \in Peer, latest_handshake \in 0 .. now :
        /\ MayReplay \/ t.session \notin delivered
        /\ OnTicket(t, sender, latest_handshake)
        /\ outbox' = <<Message("Prepare", t.session)>>
        /\ delivered' = delivered \cup {t.session}
        /\ UNCHANGED <<deviceVars, reply, commands, events>>

NodePrepared ==
    /\ \/ reply = "ok" /\ OnPrepared
       \/ reply = "err" /\ OnPrepareFailed
    /\ reply' = "none"
    /\ UNCHANGED <<deviceVars, outbox, delivered, commands, events>>

NodeInbound ==
    \E s \in Session :
        /\ OnInbound
        /\ outbox' = <<Message("Receive", s)>>
        /\ UNCHANGED <<deviceVars, reply, delivered, commands, events>>

NodePoll ==
    /\ Poll
    /\ outbox' \in Commands("Remove", Expired(now))
    /\ UNCHANGED <<deviceVars, reply, delivered, commands, events>>

\* AuthenticatedHandshake for a session that is already Active.
AlreadyActive(s) ==
    /\ Selecting
    /\ s \in DOMAIN sessions \ Expired(now)
    /\ sessions[s].phase = "Active"
    /\ UNCHANGED vars

HandleEvent(event) ==
    LET s == event.session
    IN  CASE event.kind = "Authenticated" ->
                \/ OnAuthenticated(s) /\ outbox' \in Commands("Remove", Draining(Promoted(s)))
                \/ OnAuthenticatedLate(s) /\ outbox' = <<Message("Discard", s)>>
                \/ OnActivationFailed(s) /\ outbox' = <<Message("Discard", s)>>
                \/ AlreadyActive(s) /\ UNCHANGED outbox
          [] event.kind = "Failed" -> OnSessionFailed(s) /\ UNCHANGED outbox
          [] OTHER -> Selecting /\ UNCHANGED <<vars, outbox>>

NodeEvent ==
    /\ events # <<>>
    /\ HandleEvent(Head(events))
    /\ events' = Tail(events)
    /\ UNCHANGED <<deviceVars, reply, delivered, commands>>

\* commands.send(..).await makes progress when the channel has room.
NodeSend ==
    /\ outbox # <<>>
    /\ device = "running"
    /\ Len(commands) < CommandCapacity
    /\ commands' = Append(commands, Head(outbox))
    /\ outbox' = Tail(outbox)
    /\ IF sending /\ Len(outbox) = 1 THEN CommandsSent ELSE UNCHANGED vars
    /\ UNCHANGED <<deviceVars, reply, delivered, events>>

\* The device is gone: a Prepare fails, a Receive or the Remove of a rejected
\* session is logged.
NodeSendFails ==
    /\ outbox # <<>>
    /\ device = "stopped"
    /\ Head(outbox).kind # "Remove"
    /\ outbox' = Tail(outbox)
    /\ reply' = IF Head(outbox).kind = "Prepare" THEN "err" ELSE reply
    /\ IF sending /\ Len(outbox) = 1 THEN CommandsSent ELSE UNCHANGED vars
    /\ UNCHANGED <<deviceVars, delivered, commands, events>>

-------------------------------------------------------------------------------
\* The device task.  It leaves a select arm only when the arm's events are in
\* the channel.
DeviceIdle == device = "running" /\ reporting = <<>> /\ replying = NoSession

\* Mutant: the handshake counts as authenticated once it has started.
DevicePrepareTrusts(s) ==
    /\ deviceSessions' = deviceSessions \cup {s}
    /\ authenticated' = authenticated \ {s}
    /\ reporting' = <<Message("Authenticated", s)>>
    /\ replying' = s
    /\ UNCHANGED reply

DevicePrepare(s) ==
    \/ /\ deviceSessions' = deviceSessions \cup {s}
       /\ authenticated' = authenticated \ {s}
       /\ reporting' = <<Notice>>
       /\ replying' = s
       /\ UNCHANGED reply
    \/ /\ reply' = "err"
       /\ UNCHANGED <<deviceSessions, authenticated, reporting, replying>>

\* tunnel.receive may authenticate the session, or yield an inner packet; the
\* answer it sends may then find the outer transport stopped, which fails the
\* session.  A datagram for an unknown session is dropped.
DeviceReceive(s) ==
    /\ IF s \notin deviceSessions
       THEN UNCHANGED <<deviceSessions, authenticated, reporting>>
       ELSE \E output \in {<<>>, <<Message("Authenticated", s)>>, <<Notice>>},
               failed \in {{}, {s}} :
               /\ \E report \in Commands("Failed", failed) : reporting' = output \o report
               /\ deviceSessions' = deviceSessions \ failed
               /\ authenticated' = (authenticated \cup {m.session : m \in Range(output) \ {Notice}})
                                   \ failed
    /\ UNCHANGED <<replying, reply>>

\* Mutant: the session is not removed.
DeviceRemoveNothing(s) ==
    UNCHANGED <<deviceSessions, authenticated, reporting, replying, reply>>

DeviceRemove(s) ==
    /\ deviceSessions' = deviceSessions \ {s}
    /\ authenticated' = authenticated \ {s}
    /\ UNCHANGED <<reporting, replying, reply>>

DeviceCommand ==
    /\ DeviceIdle
    /\ commands # <<>>
    /\ LET command == Head(commands)
       IN  CASE command.kind = "Prepare" -> DevicePrepare(command.session)
             [] command.kind = "Receive" -> DeviceReceive(command.session)
             [] OTHER -> DeviceRemove(command.session)
    /\ commands' = Tail(commands)
    /\ UNCHANGED <<vars, device, outbox, delivered, events>>

\* Mutant: the session is removed without telling the main loop.
DeviceFailSilent(s) ==
    /\ DeviceIdle
    /\ s \in deviceSessions
    /\ deviceSessions' = deviceSessions \ {s}
    /\ authenticated' = authenticated \ {s}
    /\ UNCHANGED <<vars, device, reporting, replying, mainVars, commands, events>>

\* fail_session from the timer or from a TUN packet: the tunnel gave up, or
\* the outer transport stopped.
DeviceFail(s) ==
    /\ DeviceIdle
    /\ s \in deviceSessions
    /\ deviceSessions' = deviceSessions \ {s}
    /\ authenticated' = authenticated \ {s}
    /\ reporting' = <<Message("Failed", s)>>
    /\ UNCHANGED <<vars, device, replying, mainVars, commands, events>>

\* A packet from the TUN for which no route matches.
DeviceMissingRoute ==
    /\ DeviceIdle
    /\ reporting' = <<Notice>>
    /\ UNCHANGED <<vars, device, deviceSessions, authenticated, replying,
                   mainVars, commands, events>>

\* events.send(..).await makes progress when the channel has room.
DeviceReport ==
    /\ reporting # <<>>
    /\ Len(events) < EventCapacity
    /\ events' = Append(events, Head(reporting))
    /\ reporting' = Tail(reporting)
    /\ UNCHANGED <<vars, device, deviceSessions, authenticated, replying, mainVars, commands>>

DeviceReply ==
    /\ device = "running"
    /\ reporting = <<>>
    /\ replying # NoSession
    /\ reply' = "ok"
    /\ replying' = NoSession
    /\ UNCHANGED <<vars, device, deviceSessions, authenticated, reporting,
                   outbox, delivered, commands, events>>

\* The task ends: cancelled, or the TUN fails.  Queued commands are dropped
\* with the receiver, and with them the reply a Prepare waits for.
DeviceStop ==
    /\ DeviceIdle
    /\ NoDevice
    /\ commands' = <<>>
    /\ reply' = IF \E i \in DOMAIN commands : commands[i].kind = "Prepare"
                THEN "err" ELSE reply
    /\ UNCHANGED <<vars, outbox, delivered, events>>

-------------------------------------------------------------------------------
\* Mutant: the leases are not expired at shutdown.
NodeShutdownDirty ==
    /\ Running /\ ~Busy
    /\ generation' = "stopping"
    /\ UNCHANGED <<managerVars, loopVars, now, nextPoll>>
    /\ UNCHANGED <<deviceVars, mainVars, commands, events>>

\* The loop ends: cancelled, or the event channel is closed and drained.
NodeShutdown ==
    /\ Shutdown
    /\ outbox' \in Commands("Discard", DOMAIN sessions)
    /\ UNCHANGED <<deviceVars, reply, delivered, commands, events>>

\* device_task.await: the events are not drained any more.
NodeStopped ==
    /\ device = "stopped"
    /\ outbox = <<>>
    /\ Stopped
    /\ commands' = <<>> /\ events' = <<>> /\ reply' = "none"
    /\ UNCHANGED <<deviceVars, outbox, delivered>>

\* The generation's receivers are dropped, which ends the device as well.
NodeAbort ==
    /\ Abort \/ ExpireFails
    /\ NoDevice
    /\ commands' = <<>> /\ outbox' = <<>> /\ events' = <<>> /\ reply' = "none"
    /\ UNCHANGED delivered

\* The device is gone and the Remove of an expired or retired session fails:
\* the error ends the generation.
NodeRemoveFails ==
    /\ outbox # <<>>
    /\ device = "stopped"
    /\ Head(outbox).kind = "Remove"
    /\ NodeAbort

\* The device is gone and its last event handled: recv returns None.
NodeDrained ==
    /\ Selecting
    /\ device = "stopped"
    /\ events = <<>>
    /\ NodeShutdown

NodeStart ==
    /\ Start
    /\ device' = "running"
    /\ UNCHANGED <<deviceSessions, authenticated, reporting, replying,
                   mainVars, commands, events>>

NodeIdle == (StartFails \/ Tick) /\ UNCHANGED <<deviceVars, mainVars, commands, events>>

MainStep ==
    \/ NodePrepared \/ NodePoll \/ NodeEvent \/ NodeSend \/ NodeSendFails
    \/ NodeRemoveFails \/ NodeDrained
DeviceStep == DeviceCommand \/ DeviceReport \/ DeviceReply

NodeNext ==
    \/ NodeTicket \/ NodeInbound \/ MainStep
    \/ DeviceStep \/ DeviceStop \/ DeviceMissingRoute \/ \E s \in Session : DeviceFail(s)
    \/ NodeShutdown \/ NodeStopped \/ NodeAbort \/ NodeStart \/ NodeIdle

NodeSpec == NodeInit /\ [][NodeNext]_nodeVars

\* Both tasks, the clock and the runtime's teardown keep going whenever they
\* can.  Nothing is assumed of the network, nor that the supervisor acts.
NodeFairSpec ==
    /\ NodeSpec
    /\ WF_nodeVars(MainStep)
    /\ WF_nodeVars(DeviceStep)
    /\ WF_nodeVars(NodeStopped)
    /\ WF_nodeVars(Tick /\ UNCHANGED <<deviceVars, mainVars, commands, events>>)

-------------------------------------------------------------------------------
\* A managed session that has been handed to the device is there, or the news
\* of its end is on its way: otherwise its selector would stay diverted to a
\* session that drops every packet until the lease expires.
DeviceBacked ==
    /\ NodeTypeOK
    /\ Running /\ device = "running" =>
          \A s \in DOMAIN sessions :
              sessions[s].phase \in {"Handshaking", "Active"} =>
                  \/ s \in deviceSessions
                  \/ Queued("Failed", s, events)
                  \/ Queued("Failed", s, reporting)

\* A device session is managed, or its removal is on its way: SessionFailed
\* removes nothing from the device, so a session the manager has forgotten
\* would keep its timers and its traffic.
NoDeviceLeak ==
    Running =>
        \A s \in deviceSessions :
            \/ s \in DOMAIN sessions
            \/ Removal(s, commands)
            \/ Removal(s, outbox)

\* The policy rule is installed only after the handshake of the session that
\* carries it succeeded in the device: an event from an earlier life of the
\* session never activates a later one.
RouteAuthenticated ==
    \A sel \in DOMAIN active_routes :
        active_routes[sel] \in deviceSessions => active_routes[sel] \in authenticated

\* Why the above hold, as inductive invariants.  A Prepare that has not reached
\* the device is the last command of either queue.
Pending(kind, s) == Queued(kind, s, events) \/ Queued(kind, s, reporting)
Unprepared(s) == preparing = s /\ replying # s /\ reply = "none"
OnDevice(s) == s \in deviceSessions \/ Pending("Failed", s)

CommandMessage == [kind : {"Prepare", "Receive", "Remove", "Discard"}, session : Session]
EventMessage == [kind : {"Authenticated", "Failed"}, session : Session] \cup {Notice}

ChannelTypeOK ==
    /\ commands \in Seq(CommandMessage) /\ outbox \in Seq(CommandMessage)
    /\ events \in Seq(EventMessage) /\ reporting \in Seq(EventMessage)

\* What a task that has ended has left behind.
EndedIsEmpty ==
    /\ device = "stopped" =>
          /\ deviceSessions = {} /\ replying = NoSession
          /\ commands = <<>> /\ reporting = <<>>
    /\ generation = "stopped" => device = "stopped" /\ outbox = <<>> /\ events = <<>>

\* Where the one Prepare that can be in progress is: on its way to the device,
\* being answered, or answered.
PrepareInProgress ==
    /\ preparing = NoSession => replying = NoSession /\ reply = "none"
    /\ preparing # NoSession =>
          Running /\ ~sending /\ \A i \in DOMAIN outbox : outbox[i].kind = "Prepare"
    /\ Running /\ ~Busy => outbox = <<>>
    /\ replying # NoSession =>
          replying = preparing /\ reply = "none" /\ replying \in deviceSessions
    /\ \A i \in DOMAIN commands : commands[i].kind = "Prepare" =>
          i = Len(commands) /\ outbox = <<>> /\ Unprepared(commands[i].session)
    /\ \A i \in DOMAIN outbox : outbox[i].kind = "Prepare" =>
          /\ i = Len(outbox) /\ Unprepared(outbox[i].session)
          /\ \A j \in DOMAIN commands : commands[j].kind # "Prepare"

\* Every session the manager has past its preparation is on the device, and no
\* removal that is on its way will reach it.
SessionsOnDevice ==
    /\ \A s \in DOMAIN sessions :
          /\ sessions[s].phase # "Draining"
          /\ sessions[s].phase = "Prepared" <=> s = preparing
          /\ Removal(s, commands) \/ Removal(s, outbox) => Unprepared(s)
          /\ sessions[s].phase # "Prepared" /\ device = "running" => OnDevice(s)
    /\ preparing # NoSession => preparing \in DOMAIN sessions
    /\ reply = "ok" /\ device = "running" => OnDevice(preparing)

NodeInv ==
    /\ NodeTypeOK /\ ChannelTypeOK
    /\ EndedIsEmpty /\ PrepareInProgress /\ SessionsOnDevice

\* The device or a message knows the session, or a route leads to it.
Used(s) ==
    \/ s \in deviceSessions
    \/ Pending("Authenticated", s) \/ Pending("Failed", s)
    \/ Removal(s, commands) \/ Removal(s, outbox)
    \/ \E sel \in DOMAIN active_routes : active_routes[sel] = s

\* A session has one life when its ticket is accepted once: what is known of a
\* session is about that life.
OnceInv ==
    /\ \A s \in Session :
          /\ Used(s) \/ s \in DOMAIN sessions => s \in delivered
          /\ Unprepared(s) => ~Used(s)
          /\ Pending("Failed", s) => s \notin deviceSessions
          /\ Pending("Authenticated", s) /\ s \in deviceSessions => s \in authenticated
    /\ reply = "err" => preparing \notin deviceSessions
    /\ NoDeviceLeak
    /\ RouteAuthenticated

\* What a rule promises end to end: the traffic it diverts has a session of the
\* manager for exactly this selector, with a completed handshake in the device,
\* or the news that this session has failed is on its way to the loop
\* (state.rs:120, device.rs:225-230).
RouteServed ==
    Running /\ device = "running" =>
        \A sel \in routes.rules : routes.table =>
            LET s == routes.userspace[sel]
            IN  /\ sel \in DOMAIN routes.userspace /\ s \in DOMAIN sessions
                /\ sessions[s].ticket.selector = sel
                /\ s \in deviceSessions \cap authenticated \/ Pending("Failed", s)

\* The node with its device behaves as ShortcutEndpoint allows: what the proofs
\* show of the control plane for any device holds with this one and its
\* channels (main.rs:307, device.rs:201).
ImplementsEndpoint == Spec
===============================================================================
