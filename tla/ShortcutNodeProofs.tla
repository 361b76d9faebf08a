-------------------------- MODULE ShortcutNodeProofs --------------------------
(***************************************************************************)
(* Proofs about ShortcutNode, for any sets of selectors, sessions and      *)
(* tickets and channels of any capacity.                                   *)
(***************************************************************************)
EXTENDS ShortcutNode, ShortcutEndpointProofs

-------------------------------------------------------------------------------
(* Channels *)

\* The messages of a queue are those at its head and those behind it.
LEMMA QueuedTail ==
    ASSUME NEW M, NEW q \in Seq(M), q # <<>>
    PROVE  /\ Tail(q) \in Seq(M) /\ Len(Tail(q)) = Len(q) - 1 /\ Len(q) \in Nat \ {0}
           /\ Head(q) \in M
           /\ \A i \in DOMAIN Tail(q) : i + 1 \in DOMAIN q /\ Tail(q)[i] = q[i + 1]
           /\ \A kind, s : Queued(kind, s, q) <=>
                 Head(q) = Message(kind, s) \/ Queued(kind, s, Tail(q))
<1>1. /\ Tail(q) \in Seq(M) /\ Len(Tail(q)) = Len(q) - 1 /\ Len(q) \in Nat \ {0}
      /\ Head(q) = q[1] /\ Head(q) \in M
      /\ DOMAIN q = 1 .. Len(q)
      /\ DOMAIN Tail(q) = 1 .. (Len(q) - 1)
      /\ \A i \in 1 .. (Len(q) - 1) : Tail(q)[i] = q[i + 1]
  OBVIOUS
<1>2. \A i \in DOMAIN Tail(q) : i + 1 \in DOMAIN q /\ Tail(q)[i] = q[i + 1]
  BY <1>1
<1>3. \A i \in DOMAIN q : i = 1 \/ (i - 1 \in DOMAIN Tail(q) /\ Tail(q)[i - 1] = q[i])
  BY <1>1
<1>4. 1 \in DOMAIN q
  BY <1>1
<1>5. ASSUME NEW kind, NEW s
      PROVE  Queued(kind, s, q) <=> Head(q) = Message(kind, s) \/ Queued(kind, s, Tail(q))
  <2>1. ASSUME Queued(kind, s, q)
        PROVE  Head(q) = Message(kind, s) \/ Queued(kind, s, Tail(q))
    BY Zenon, <1>1, <1>3, <2>1 DEF Queued
  <2>2. ASSUME Head(q) = Message(kind, s) \/ Queued(kind, s, Tail(q))
        PROVE  Queued(kind, s, q)
    BY <1>1, <1>2, <1>4, <2>2 DEF Queued
  <2> QED  BY <2>1, <2>2
<1> QED  BY <1>1, <1>2, <1>5

\* A message sent joins those that were queued.
LEMMA QueuedAppend ==
    ASSUME NEW M, NEW q \in Seq(M), NEW m \in M
    PROVE  /\ Append(q, m) \in Seq(M) /\ Len(Append(q, m)) = Len(q) + 1 /\ Len(q) \in Nat
           /\ \A i \in DOMAIN Append(q, m) :
                 \/ i = Len(q) + 1 /\ Append(q, m)[i] = m
                 \/ i \in DOMAIN q /\ Append(q, m)[i] = q[i]
           /\ \A kind, s : Queued(kind, s, Append(q, m)) <=>
                 m = Message(kind, s) \/ Queued(kind, s, q)
<1>1. /\ Append(q, m) \in Seq(M) /\ Len(Append(q, m)) = Len(q) + 1 /\ Len(q) \in Nat
      /\ DOMAIN q = 1 .. Len(q)
      /\ DOMAIN Append(q, m) = 1 .. (Len(q) + 1)
      /\ Append(q, m)[Len(q) + 1] = m
      /\ \A i \in 1 .. Len(q) : Append(q, m)[i] = q[i]
  OBVIOUS
<1>2. \A i \in DOMAIN Append(q, m) :
          \/ i = Len(q) + 1 /\ Append(q, m)[i] = m
          \/ i \in DOMAIN q /\ Append(q, m)[i] = q[i]
  BY <1>1
<1>3. Len(q) + 1 \in DOMAIN Append(q, m) /\ DOMAIN q \subseteq DOMAIN Append(q, m)
  BY <1>1
<1>4. ASSUME NEW kind, NEW s
      PROVE  Queued(kind, s, Append(q, m)) <=> m = Message(kind, s) \/ Queued(kind, s, q)
  <2>1. ASSUME Queued(kind, s, Append(q, m))
        PROVE  m = Message(kind, s) \/ Queued(kind, s, q)
    BY <1>2, <2>1 DEF Queued
  <2>2. ASSUME m = Message(kind, s) \/ Queued(kind, s, q)
        PROVE  Queued(kind, s, Append(q, m))
    BY <1>1, <1>3, <2>2 DEF Queued
  <2> QED  BY <2>1, <2>2
<1> QED  BY <1>1, <1>2, <1>4

\* The messages of two queues joined.
LEMMA QueuedConcat ==
    ASSUME NEW M, NEW q \in Seq(M), NEW r \in Seq(M)
    PROVE  /\ q \o r \in Seq(M)
           /\ \A kind, s : Queued(kind, s, q \o r) <=> Queued(kind, s, q) \/ Queued(kind, s, r)
<1>1. /\ q \o r \in Seq(M) /\ Len(q) \in Nat /\ Len(r) \in Nat
      /\ DOMAIN q = 1 .. Len(q) /\ DOMAIN r = 1 .. Len(r)
      /\ DOMAIN (q \o r) = 1 .. (Len(q) + Len(r))
      /\ \A i \in 1 .. (Len(q) + Len(r)) : (q \o r)[i] = IF i <= Len(q) THEN q[i] ELSE r[i - Len(q)]
  OBVIOUS
<1>2. ASSUME NEW kind, NEW s, Queued(kind, s, q \o r)
      PROVE  Queued(kind, s, q) \/ Queued(kind, s, r)
  <2>1. PICK i \in 1 .. (Len(q) + Len(r)) : (q \o r)[i] = Message(kind, s)
    BY <1>1, <1>2 DEF Queued
  <2>2. CASE i <= Len(q)
    BY <1>1, <2>1, <2>2 DEF Queued
  <2>3. CASE ~(i <= Len(q))
    <3>1. i - Len(q) \in DOMAIN r /\ r[i - Len(q)] = Message(kind, s)
      BY <1>1, <2>1, <2>3
    <3> QED  BY <3>1 DEF Queued
  <2> QED  BY <2>2, <2>3
<1>3. ASSUME NEW kind, NEW s, Queued(kind, s, q)
      PROVE  Queued(kind, s, q \o r)
  <2>1. PICK i \in DOMAIN q : q[i] = Message(kind, s)
    BY <1>3 DEF Queued
  <2>2. i \in DOMAIN (q \o r) /\ (q \o r)[i] = Message(kind, s)
    BY <1>1, <2>1
  <2> QED  BY <2>2 DEF Queued
<1>4. ASSUME NEW kind, NEW s, Queued(kind, s, r)
      PROVE  Queued(kind, s, q \o r)
  <2>1. PICK i \in DOMAIN r : r[i] = Message(kind, s)
    BY <1>4 DEF Queued
  <2>2. i + Len(q) \in DOMAIN (q \o r) /\ (q \o r)[i + Len(q)] = Message(kind, s)
    BY <1>1, <2>1
  <2> QED  BY <2>2 DEF Queued
<1> QED  BY <1>1, <1>2, <1>3, <1>4

\* The queues a handler can start with: empty, or with one message.
LEMMA QueuedShort ==
    ASSUME NEW M, NEW m \in M
    PROVE  /\ <<>> \in Seq(M) /\ Len(<<>>) = 0 /\ DOMAIN <<>> = {}
           /\ \A kind, s : ~Queued(kind, s, <<>>)
           /\ <<m>> \in Seq(M) /\ Len(<<m>>) = 1 /\ DOMAIN <<m>> = {1} /\ <<m>>[1] = m
           /\ <<m>> # <<>>
           /\ \A kind, s : Queued(kind, s, <<m>>) <=> m = Message(kind, s)
<1>1. /\ <<>> \in Seq(M) /\ Len(<<>>) = 0 /\ DOMAIN <<>> = {}
      /\ <<m>> \in Seq(M) /\ Len(<<m>>) = 1 /\ DOMAIN <<m>> = {1} /\ <<m>>[1] = m
      /\ <<m>> # <<>>
  OBVIOUS
<1> QED  BY <1>1 DEF Queued

\* Nothing is in an empty queue.
LEMMA EmptyQueue ==
    ASSUME NEW M
    PROVE  /\ <<>> \in Seq(M) /\ Len(<<>>) = 0 /\ DOMAIN <<>> = {}
           /\ \A kind, s : ~Queued(kind, s, <<>>)
           /\ \A s : ~Removal(s, <<>>)
<1>1. <<>> \in Seq(M) /\ Len(<<>>) = 0 /\ DOMAIN <<>> = {}
  OBVIOUS
<1> QED  BY <1>1 DEF Queued, Removal

\* Two messages are the same when their kinds and sessions are.
LEMMA MessageFacts ==
    ASSUME NEW kind, NEW s
    PROVE  /\ Message(kind, s).kind = kind /\ Message(kind, s).session = s
           /\ \A k, x : Message(kind, s) = Message(k, x) <=> kind = k /\ s = x
<1>1. Message(kind, s).kind = kind /\ Message(kind, s).session = s
  BY DEF Message
<1>2. \A k, x : Message(k, x).kind = k /\ Message(k, x).session = x
  BY DEF Message
<1> QED  BY <1>1, <1>2

\* The commands for a finite set of sessions: one for each of them.
LEMMA CommandsFacts ==
    ASSUME NEW kind, NEW S, NEW M, \A s \in S : Message(kind, s) \in M,
           NEW q \in Commands(kind, S)
    PROVE  /\ q \in Seq(M)
           /\ \A k, s : Queued(k, s, q) <=> k = kind /\ s \in S
           /\ S # {} <=> q # <<>>
<1> DEFINE T == {Message(kind, s) : s \in S}
<1>1. PICK n \in 0 .. Cardinality(T) : q \in [1 .. n -> T]
  BY Zenon DEF Commands
<1>2. \A x : x \in T <=> \E i \in DOMAIN q : q[i] = x
  BY Zenon DEF Commands, Range
<1>3. q \in Seq(M) /\ (DOMAIN q = {} <=> q = <<>>)
  <2>1. n \in Nat
    OBVIOUS
  <2>2. T \subseteq M
    OBVIOUS
  <2> HIDE DEF T
  <2> QED  BY <1>1, <2>1, <2>2
<1>4. ASSUME NEW k, NEW s
      PROVE  Queued(k, s, q) <=> k = kind /\ s \in S
  BY <1>2, MessageFacts DEF Queued
<1>5. S # {} <=> q # <<>>
  BY <1>2, <1>3
<1> QED  BY <1>3, <1>4, <1>5

-------------------------------------------------------------------------------
(* Every step of the node is one of ShortcutEndpoint, or leaves it unchanged *)

\* The event at the head of the channel is about a session, or a Notice.
LEMMA HeadEvent ==
    ASSUME ChannelTypeOK, events # <<>>
    PROVE  /\ Head(events).kind \in {"Authenticated", "Failed"} => Head(events).session \in Session
           /\ Head(events) \in EventMessage
<1>1. Head(events) \in EventMessage
  BY QueuedTail DEF ChannelTypeOK
<1> QED  BY <1>1, MessageFacts DEF EventMessage, Notice

\* Every step of the node refines ShortcutEndpoint.
LEMMA NodeRefines == ChannelTypeOK /\ [NodeNext]_nodeVars => [Next]_vars
<1> SUFFICES ASSUME ChannelTypeOK, [NodeNext]_nodeVars
             PROVE  [Next]_vars
  OBVIOUS
<1>1. CASE NodeTicket
  BY <1>1 DEF NodeTicket, Next, Handler
<1>2. CASE NodeInbound
  BY <1>2 DEF NodeInbound, Next, Handler
<1>3. CASE NodePrepared
  BY <1>3 DEF NodePrepared, Next, Handler
<1>4. CASE NodePoll
  BY <1>4 DEF NodePoll, Next, Handler
<1>5. CASE NodeEvent
  <2> DEFINE s == Head(events).session
  <2>1. events # <<>> /\ HandleEvent(Head(events))
    BY <1>5 DEF NodeEvent
  <2>2. CASE Head(events).kind = "Authenticated"
    <3>1. \/ OnAuthenticated(s) \/ OnAuthenticatedLate(s) \/ OnActivationFailed(s)
          \/ AlreadyActive(s)
      BY <2>1, <2>2 DEF HandleEvent
    <3>2. s \in Session
      BY <2>1, <2>2, HeadEvent
    <3> QED  BY <3>1, <3>2 DEF Next, Handler, AlreadyActive
  <2>3. CASE Head(events).kind = "Failed"
    <3>1. OnSessionFailed(s)
      BY <2>1, <2>3 DEF HandleEvent
    <3>2. s \in Session
      BY <2>1, <2>3, HeadEvent
    <3> QED  BY <3>1, <3>2 DEF Next, Handler
  <2>4. CASE Head(events).kind \notin {"Authenticated", "Failed"}
    BY <2>1, <2>4 DEF HandleEvent
  <2> QED  BY <2>2, <2>3, <2>4
<1>6. CASE NodeSend \/ NodeSendFails
  BY <1>6 DEF NodeSend, NodeSendFails, Next, Handler
<1>7. CASE NodeAbort \/ NodeRemoveFails
  BY <1>7 DEF NodeAbort, NodeRemoveFails, Next, Lifecycle
<1>8. CASE NodeShutdown \/ NodeDrained
  BY <1>8 DEF NodeShutdown, NodeDrained, Next, Lifecycle
<1>9. CASE NodeStopped
  BY <1>9 DEF NodeStopped, Next, Lifecycle
<1>10. CASE NodeStart
  BY <1>10 DEF NodeStart, Next, Lifecycle
<1>11. CASE NodeIdle
  BY <1>11 DEF NodeIdle, Next, Lifecycle
<1>12. CASE DeviceStep \/ DeviceStop \/ DeviceMissingRoute \/ \E s \in Session : DeviceFail(s)
  BY <1>12 DEF DeviceStep, DeviceCommand, DeviceReport, DeviceReply, DeviceStop,
               DeviceMissingRoute, DeviceFail
<1>13. CASE UNCHANGED nodeVars
  BY <1>13 DEF nodeVars
<1> QED
  BY <1>1, <1>2, <1>3, <1>4, <1>5, <1>6, <1>7, <1>8, <1>9, <1>10, <1>11, <1>12, <1>13
  DEF NodeNext, MainStep

-------------------------------------------------------------------------------
(* The device's steps keep NodeInv *)

\* The device sends the next event of its current step.
LEMMA NodeInvReport ==
    ASSUME NodeInv, DeviceReport
    PROVE  NodeInv'
<1> USE DEF NodeInv
<1>1. /\ UNCHANGED <<vars, device, deviceSessions, authenticated, replying, mainVars, commands>>
      /\ events' = Append(events, Head(reporting)) /\ reporting' = Tail(reporting)
      /\ reporting # <<>> /\ Len(events) < EventCapacity
  BY DEF DeviceReport
<1>2. Head(reporting) \in EventMessage
  BY <1>1, QueuedTail DEF ChannelTypeOK
<1>3. ChannelTypeOK'
  BY <1>1, <1>2, QueuedTail, QueuedAppend DEF ChannelTypeOK, mainVars
<1>4. Len(events') <= EventCapacity
  BY <1>1, <1>2, QueuedAppend, NodeAssumption DEF ChannelTypeOK
<1>5. NodeTypeOK'
  BY <1>1, <1>4 DEF NodeTypeOK, EndpointTypeOK, ManagerTypeOK, vars, managerVars, loopVars, mainVars
<1>6. EndedIsEmpty'
  BY <1>1 DEF EndedIsEmpty, NodeTypeOK, vars, mainVars
<1>7. PrepareInProgress'
  BY <1>1 DEF PrepareInProgress, Unprepared, Running, Busy, vars, loopVars, mainVars
<1>8. \A kind, s : Pending(kind, s)' <=> Pending(kind, s)
  BY <1>1, <1>2, QueuedTail, QueuedAppend DEF Pending, ChannelTypeOK
<1>9. SessionsOnDevice'
  BY <1>1, <1>8 DEF SessionsOnDevice, OnDevice, Unprepared, Removal, vars, managerVars, loopVars, mainVars
<1> QED  BY <1>1, <1>3, <1>5, <1>6, <1>7, <1>9 DEF vars, managerVars

\* The device answers a Prepare.
LEMMA NodeInvReply ==
    ASSUME NodeInv, DeviceReply
    PROVE  NodeInv'
<1> USE DEF NodeInv
<1>1. /\ UNCHANGED <<vars, device, deviceSessions, authenticated, reporting, outbox, delivered,
                     commands, events>>
      /\ device = "running" /\ replying # NoSession /\ reply' = "ok" /\ replying' = NoSession
  BY DEF DeviceReply
<1>2. replying = preparing /\ replying \in deviceSessions
  BY <1>1 DEF PrepareInProgress
<1>3. ChannelTypeOK'
  BY <1>1 DEF ChannelTypeOK
<1>4. NodeTypeOK'
  BY <1>1 DEF NodeTypeOK, EndpointTypeOK, ManagerTypeOK, vars, managerVars, loopVars
<1>5. EndedIsEmpty'
  BY <1>1 DEF EndedIsEmpty, NodeTypeOK, vars
<1>6. PrepareInProgress'
  BY <1>1, <1>2 DEF PrepareInProgress, Unprepared, Running, Busy, vars, loopVars
<1>7. SessionsOnDevice'
  BY <1>1, <1>2 DEF SessionsOnDevice, OnDevice, Pending, Unprepared, Removal, vars, managerVars, loopVars
<1> QED  BY <1>1, <1>3, <1>4, <1>5, <1>6, <1>7 DEF vars, managerVars

\* A step of the idle device that takes no command: it may report one event,
\* and drops a session when it reports its end.
LEMMA NodeInvIdleDevice ==
    ASSUME NodeInv,
           DeviceIdle,
           deviceSessions' \subseteq deviceSessions, authenticated' \subseteq deviceSessions',
           reporting' \in Seq(EventMessage),
           \A s \in deviceSessions \ deviceSessions' : Queued("Failed", s, reporting'),
           UNCHANGED <<vars, device, replying, mainVars, commands, events>>
    PROVE  NodeInv'
<1> USE DEF NodeInv
<1>1. ChannelTypeOK'
  BY DEF ChannelTypeOK, mainVars
<1>2. NodeTypeOK'
  BY DEF NodeTypeOK, EndpointTypeOK, ManagerTypeOK, vars, managerVars, loopVars, mainVars
<1>3. EndedIsEmpty'
  BY DEF EndedIsEmpty, DeviceIdle, vars, mainVars
<1>4. PrepareInProgress'
  BY DEF PrepareInProgress, DeviceIdle, Unprepared, Running, Busy, vars, loopVars, mainVars
<1>5. \A s : ~Queued("Failed", s, reporting)
  BY Zenon, QueuedShort DEF DeviceIdle
<1>6. \A s : OnDevice(s) => OnDevice(s)'
  BY Zenon, <1>5 DEF OnDevice, Pending
<1>7. SessionsOnDevice'
  BY <1>6 DEF SessionsOnDevice, Unprepared, Removal, vars, managerVars, loopVars, mainVars
<1> QED  BY <1>1, <1>2, <1>3, <1>4, <1>7 DEF vars, managerVars

\* The device gives a session up, or reports a packet without a route.
LEMMA NodeInvFail ==
    ASSUME NodeInv, DeviceMissingRoute \/ \E s \in Session : DeviceFail(s)
    PROVE  NodeInv'
<1>1. CASE DeviceMissingRoute
  <2>1. Notice \in EventMessage
    BY DEF EventMessage
  <2>2. /\ DeviceIdle /\ reporting' = <<Notice>>
        /\ UNCHANGED <<vars, device, deviceSessions, authenticated, replying, mainVars,
                       commands, events>>
    BY <1>1 DEF DeviceMissingRoute
  <2>3. reporting' \in Seq(EventMessage)
    BY <2>1, <2>2, QueuedShort
  <2>4. authenticated' \subseteq deviceSessions' /\ deviceSessions' = deviceSessions
    BY <2>2 DEF NodeInv, NodeTypeOK
  <2> QED  BY <2>2, <2>3, <2>4, NodeInvIdleDevice
<1>2. ASSUME NEW s \in Session, DeviceFail(s)
      PROVE  NodeInv'
  <2>1. Message("Failed", s) \in EventMessage
    BY DEF EventMessage, Message
  <2>2. /\ DeviceIdle /\ reporting' = <<Message("Failed", s)>>
        /\ deviceSessions' = deviceSessions \ {s} /\ authenticated' = authenticated \ {s}
        /\ UNCHANGED <<vars, device, replying, mainVars, commands, events>>
    BY <1>2 DEF DeviceFail
  <2>3. reporting' \in Seq(EventMessage) /\ Queued("Failed", s, reporting')
    BY <2>1, <2>2, QueuedShort
  <2>4. /\ authenticated' \subseteq deviceSessions' /\ deviceSessions' \subseteq deviceSessions
        /\ \A x \in deviceSessions \ deviceSessions' : Queued("Failed", x, reporting')
    BY Zenon, <2>2, <2>3 DEF NodeInv, NodeTypeOK
  <2> QED  BY <2>2, <2>3, <2>4, NodeInvIdleDevice
<1> QED  BY <1>1, <1>2

\* The device takes a command: what it leaves queued was queued before.
LEMMA CommandTaken ==
    ASSUME NodeInv, DeviceCommand
    PROVE  /\ Head(commands) \in CommandMessage
           /\ commands # <<>>
           /\ commands' \in Seq(CommandMessage) /\ Len(commands') <= CommandCapacity
           /\ \A s : Removal(s, commands') => Removal(s, commands)
           /\ \A i \in DOMAIN commands' : commands'[i].kind = "Prepare" =>
                 i = Len(commands') /\ outbox = <<>> /\ Unprepared(commands'[i].session)
           /\ (\A j \in DOMAIN commands : commands[j].kind # "Prepare") =>
                 \A j \in DOMAIN commands' : commands'[j].kind # "Prepare"
           /\ Head(commands).kind = "Prepare" =>
                 /\ commands' = <<>> /\ outbox = <<>> /\ Unprepared(Head(commands).session)
           /\ Head(commands).kind \in {"Remove", "Discard"} => Removal(Head(commands).session, commands)
<1>1. commands \in Seq(CommandMessage) /\ commands # <<>> /\ commands' = Tail(commands)
      /\ Len(commands) <= CommandCapacity
  BY DEF DeviceCommand, NodeInv, ChannelTypeOK, NodeTypeOK
<1>2. /\ Tail(commands) \in Seq(CommandMessage) /\ Len(Tail(commands)) = Len(commands) - 1
      /\ Len(commands) \in Nat \ {0}
      /\ Head(commands) \in CommandMessage
      /\ \A i \in DOMAIN Tail(commands) :
            i + 1 \in DOMAIN commands /\ Tail(commands)[i] = commands[i + 1]
      /\ \A kind, s : Queued(kind, s, commands) <=>
            Head(commands) = Message(kind, s) \/ Queued(kind, s, Tail(commands))
  BY <1>1, QueuedTail
<1>3. 1 \in DOMAIN commands /\ Head(commands) = commands[1] /\ DOMAIN Tail(commands) \subseteq Nat
  BY <1>1, <1>2
<1>4. Len(commands') <= CommandCapacity
  BY <1>1, <1>2, NodeAssumption
<1>5. \A i \in DOMAIN commands : commands[i].kind = "Prepare" =>
          i = Len(commands) /\ outbox = <<>> /\ Unprepared(commands[i].session)
  BY DEF NodeInv, PrepareInProgress
<1>6. ASSUME NEW i \in DOMAIN commands', commands'[i].kind = "Prepare"
      PROVE  i = Len(commands') /\ outbox = <<>> /\ Unprepared(commands'[i].session)
  <2>1. i + 1 \in DOMAIN commands /\ commands'[i] = commands[i + 1] /\ i \in Nat
    BY <1>1, <1>2, <1>3, <1>6
  <2> QED  BY <1>1, <1>2, <1>5, <1>6, <2>1
<1>7. ASSUME Head(commands).kind = "Prepare"
      PROVE  commands' = <<>> /\ outbox = <<>> /\ Unprepared(Head(commands).session)
  <2>1. 1 = Len(commands) /\ outbox = <<>> /\ Unprepared(Head(commands).session)
    BY Zenon, <1>3, <1>5, <1>7
  <2>2. Len(commands) = 1
    BY <2>1
  <2>3. Len(Tail(commands)) = 0
    BY <1>1, <2>2
  <2> QED  BY <1>1, <2>1, <2>3
<1>8. \A s : Removal(s, commands') => Removal(s, commands)
  BY <1>1, <1>2 DEF Removal
<1>9. ASSUME Head(commands).kind \in {"Remove", "Discard"}
      PROVE  Removal(Head(commands).session, commands)
  <2>1. Head(commands) = Message(Head(commands).kind, Head(commands).session)
    BY <1>2 DEF CommandMessage, Message
  <2> QED  BY <1>2, <1>9, <2>1 DEF Removal
<1>10. (\A j \in DOMAIN commands : commands[j].kind # "Prepare") =>
          \A j \in DOMAIN commands' : commands'[j].kind # "Prepare"
  BY <1>1, <1>2
<1> QED  BY <1>1, <1>2, <1>4, <1>6, <1>7, <1>8, <1>9, <1>10

\* What a datagram does to the device: it may authenticate its session, and it
\* drops the session only with a report.
LEMMA ReceiveFacts ==
    ASSUME NodeInv, DeviceIdle, NEW s \in Session, DeviceReceive(s)
    PROVE  /\ deviceSessions' \subseteq deviceSessions
           /\ authenticated' \subseteq deviceSessions'
           /\ authenticated \cap deviceSessions' \subseteq authenticated'
           /\ reporting' \in Seq(EventMessage)
           /\ \A x \in deviceSessions \ deviceSessions' : Queued("Failed", x, reporting')
           /\ \A x : Queued("Failed", x, reporting') =>
                 x \in deviceSessions /\ x \notin deviceSessions'
           /\ \A x : Queued("Authenticated", x, reporting') =>
                 x \in deviceSessions /\ (x \in deviceSessions' => x \in authenticated')
           /\ UNCHANGED <<replying, reply>>
<1>1. reporting = <<>> /\ authenticated \subseteq deviceSessions /\ UNCHANGED <<replying, reply>>
      /\ reporting \in Seq(EventMessage)
  BY DEF DeviceIdle, NodeInv, NodeTypeOK, ChannelTypeOK, DeviceReceive
<1>2. CASE s \notin deviceSessions
  <2>1. UNCHANGED <<deviceSessions, authenticated, reporting>>
    BY <1>2 DEF DeviceReceive
  <2>2. \A kind, x : ~Queued(kind, x, <<>>)
    BY Zenon, QueuedShort
  <2> QED  BY <1>1, <2>1, <2>2
<1>3. CASE s \in deviceSessions
  <2>1. PICK output \in {<<>>, <<Message("Authenticated", s)>>, <<Notice>>}, failed \in {{}, {s}} :
           /\ \E report \in Commands("Failed", failed) : reporting' = output \o report
           /\ deviceSessions' = deviceSessions \ failed
           /\ authenticated' = (authenticated \cup {m.session : m \in Range(output) \ {Notice}})
                               \ failed
    BY Zenon, <1>3 DEF DeviceReceive
  <2> DEFINE known == {m.session : m \in Range(output) \ {Notice}}
  <2>2. /\ Message("Authenticated", s) \in EventMessage /\ Notice \in EventMessage
        /\ Message("Failed", s) \in EventMessage
    BY DEF EventMessage, Message
  <2>3. /\ output \in Seq(EventMessage)
        /\ \A x : ~Queued("Failed", x, output)
        /\ \A x : Queued("Authenticated", x, output) => x = s /\ output = <<Message("Authenticated", s)>>
    <3>1. CASE output = <<>>
      BY Zenon, <2>2, <3>1, QueuedShort
    <3>2. CASE output = <<Message("Authenticated", s)>>
      <4>1. \A k, x : Queued(k, x, output) <=> Message("Authenticated", s) = Message(k, x)
        BY <2>2, <3>2, QueuedShort
      <4> QED  BY <2>2, <3>2, <4>1, MessageFacts
    <3>3. CASE output = <<Notice>>
      <4>1. \A k, x : Queued(k, x, output) <=> Message("Notice", NoSession) = Message(k, x)
        BY <2>2, <3>3, QueuedShort DEF Notice
      <4> QED  BY <2>2, <3>3, <4>1, MessageFacts
    <3> QED  BY <2>1, <3>1, <3>2, <3>3
  <2>4. /\ known \subseteq {s}
        /\ output = <<Message("Authenticated", s)>> => known = {s}
    <3>1. CASE output = <<>>
      BY <3>1 DEF Range
    <3>2. CASE output = <<Notice>>
      <4>1. Range(output) = {Notice}
        BY <3>2 DEF Range
      <4>2. known = {}
        BY <4>1
      <4>3. Notice # Message("Authenticated", s)
        BY MessageFacts DEF Notice
      <4>4. <<Notice>>[1] = Notice /\ <<Message("Authenticated", s)>>[1] = Message("Authenticated", s)
        OBVIOUS
      <4> QED  BY <3>2, <4>2, <4>3, <4>4
    <3>3. CASE output = <<Message("Authenticated", s)>>
      <4>1. Range(output) = {Message("Authenticated", s)}
        BY <3>3 DEF Range
      <4>2. Notice # Message("Authenticated", s)
        BY MessageFacts DEF Notice
      <4>3. Range(output) \ {Notice} = {Message("Authenticated", s)}
        BY <4>1, <4>2
      <4> QED  BY <4>3, MessageFacts
    <3> QED  BY Zenon, <2>1, <3>1, <3>2, <3>3
  <2>5. failed \subseteq {s}
    BY <2>1
  <2>6. \A x \in failed : Message("Failed", x) \in EventMessage
    BY Zenon, <2>2, <2>5
  <2>7. PICK report \in Commands("Failed", failed) : reporting' = output \o report
    BY <2>1
  <2>8. /\ report \in Seq(EventMessage)
        /\ \A k, x : Queued(k, x, report) <=> k = "Failed" /\ x \in failed
    BY <2>6, CommandsFacts
  <2>9. /\ reporting' \in Seq(EventMessage)
        /\ \A k, x : Queued(k, x, reporting') <=> Queued(k, x, output) \/ Queued(k, x, report)
    BY Zenon, <2>3, <2>7, <2>8, QueuedConcat
  <2>10. authenticated' = (authenticated \cup known) \ failed
    BY Zenon, <2>1
  <2> HIDE DEF known
  <2>11. authenticated' \subseteq deviceSessions' /\ authenticated \cap deviceSessions' \subseteq authenticated'
    BY <1>1, <1>3, <2>1, <2>4, <2>10
  <2>12. \A x : Queued("Failed", x, reporting') <=> x \in failed
    BY <2>3, <2>8, <2>9
  <2>13. \A x : Queued("Authenticated", x, reporting') =>
            x = s /\ (x \in deviceSessions' => x \in authenticated')
    BY Zenon, <2>1, <2>3, <2>4, <2>8, <2>9, <2>10
  <2> QED  BY <1>1, <1>3, <2>1, <2>5, <2>9, <2>11, <2>12, <2>13
<1> QED  BY <1>2, <1>3

\* The device handles a command.
LEMMA NodeInvCommand ==
    ASSUME NodeInv, DeviceCommand
    PROVE  NodeInv'
<1> DEFINE command == Head(commands)
<1>1. /\ DeviceIdle /\ device = "running" /\ replying = NoSession /\ reporting = <<>>
      /\ UNCHANGED <<vars, device, outbox, delivered, events>>
  BY DEF DeviceCommand, DeviceIdle
<1>2. command.session \in Session /\ command \in CommandMessage
  BY CommandTaken DEF CommandMessage
<1>3. \A kind, s : ~Queued(kind, s, reporting)
  BY Zenon, <1>1, QueuedShort
<1>4. CASE command.kind = "Prepare"
  <2> DEFINE s == command.session
  <2>1. DevicePrepare(s)
    BY <1>4 DEF DeviceCommand
  <2>2. commands' = <<>> /\ outbox = <<>> /\ Unprepared(s) /\ s \in Session
    BY <1>2, <1>4, CommandTaken
  <2>3. s = preparing /\ reply = "none" /\ s # NoSession
    BY <2>2, EndpointAssumption DEF Unprepared
  <2> HIDE DEF s
  <2>4. commands' \in Seq(CommandMessage) /\ Len(commands') <= CommandCapacity
        /\ DOMAIN commands' = {} /\ \A x : ~Removal(x, commands')
    BY Zenon, <2>2, CommandTaken, QueuedShort DEF Removal
  <2>5. \A x : ~Removal(x, outbox)
    BY Zenon, <2>2, QueuedShort DEF Removal
  <2>6. Notice \in EventMessage
    BY DEF EventMessage
  <2>7. reporting' \in Seq(EventMessage)
    <3>1. <<Notice>> \in Seq(EventMessage) /\ <<>> \in Seq(EventMessage)
      BY <2>6, QueuedShort
    <3> QED  BY Zenon, <1>1, <2>1, <3>1 DEF DevicePrepare
  <2>8. /\ deviceSessions \subseteq deviceSessions' /\ deviceSessions' \subseteq Session
        /\ authenticated' \subseteq deviceSessions'
        /\ replying' \in Session \cup {NoSession} /\ reply' \in {"none", "ok", "err"}
    BY Zenon, <2>1, <2>2 DEF DevicePrepare, NodeInv, NodeTypeOK
  <2>9. NodeTypeOK'
    BY <1>1, <2>4, <2>8
    DEF NodeInv, NodeTypeOK, EndpointTypeOK, ManagerTypeOK, vars, managerVars, loopVars
  <2>10. ChannelTypeOK'
    BY <1>1, <2>4, <2>7 DEF NodeInv, ChannelTypeOK
  <2>11. EndedIsEmpty'
    BY <1>1 DEF NodeInv, EndedIsEmpty, vars
  <2>12. outbox' = <<>> /\ DOMAIN outbox' = {}
    BY <1>1, <2>2
  <2>13. PrepareInProgress'
    BY Zenon, <1>1, <2>1, <2>3, <2>4, <2>12
    DEF NodeInv, PrepareInProgress, DevicePrepare, Running, Busy, vars, loopVars
  <2>14. \A x : OnDevice(x) => OnDevice(x)'
    BY <1>1, <1>3, <2>8 DEF OnDevice, Pending
  <2>15. reply' # "ok"
    BY ZenonT(30), <2>1, <2>3 DEF DevicePrepare
  <2>16. SessionsOnDevice'
    BY <1>1, <2>4, <2>5, <2>14, <2>15 DEF NodeInv, SessionsOnDevice, Removal, vars, managerVars, loopVars
  <2> QED  BY <1>1, <2>9, <2>10, <2>11, <2>13, <2>16 DEF NodeInv, vars, managerVars
<1>5. CASE command.kind # "Prepare"
  <2>1. /\ deviceSessions' \subseteq deviceSessions
        /\ authenticated' \subseteq deviceSessions'
        /\ reporting' \in Seq(EventMessage)
        /\ UNCHANGED <<replying, reply>>
        /\ \A x \in deviceSessions \ deviceSessions' :
              Queued("Failed", x, reporting') \/ Removal(x, commands)
    <3>1. CASE command.kind = "Receive"
      <4>1. DeviceReceive(command.session)
        BY Zenon, <3>1 DEF DeviceCommand
      <4> QED  BY <1>1, <1>2, <4>1, ReceiveFacts
    <3>2. CASE command.kind \in {"Remove", "Discard"}
      <4>1. DeviceRemove(command.session) /\ Removal(command.session, commands)
        BY Zenon, <3>2, CommandTaken DEF DeviceCommand
      <4> QED  BY <4>1 DEF DeviceRemove, NodeInv, NodeTypeOK, ChannelTypeOK
    <3> QED  BY Zenon, <1>2, <1>5, <3>1, <3>2 DEF CommandMessage
  <2>2. NodeTypeOK'
    BY Zenon, <1>1, <2>1, CommandTaken
    DEF NodeInv, NodeTypeOK, EndpointTypeOK, ManagerTypeOK, vars, managerVars, loopVars
  <2>3. ChannelTypeOK'
    BY <1>1, <2>1, CommandTaken DEF NodeInv, ChannelTypeOK
  <2>4. EndedIsEmpty'
    BY <1>1 DEF NodeInv, EndedIsEmpty, vars
  <2>5. \A x : Unprepared(x)' <=> Unprepared(x)
    BY Zenon, <1>1, <2>1 DEF Unprepared, vars, loopVars
  <2>6. PrepareInProgress'
    BY Zenon, <1>1, <2>1, <2>5, CommandTaken
    DEF NodeInv, PrepareInProgress, Running, Busy, vars, loopVars
  <2>7. \A x : OnDevice(x) => OnDevice(x)' \/ Removal(x, commands)
    BY Zenon, <1>1, <1>3, <2>1 DEF OnDevice, Pending
  <2>8. ASSUME NEW x \in DOMAIN sessions, Removal(x, commands)
        PROVE  sessions[x].phase = "Prepared" /\ x = preparing /\ reply # "ok"
    BY Zenon, <2>8 DEF NodeInv, SessionsOnDevice, Unprepared
  <2>9. reply = "ok" => preparing \in DOMAIN sessions
    BY Zenon DEF NodeInv, SessionsOnDevice, PrepareInProgress
  <2>10. SessionsOnDevice'
    BY Zenon, <1>1, <2>1, <2>5, <2>7, <2>8, <2>9, CommandTaken
    DEF NodeInv, SessionsOnDevice, Removal, vars, managerVars, loopVars
  <2> QED  BY <1>1, <2>2, <2>3, <2>4, <2>6, <2>10 DEF NodeInv, vars, managerVars
<1> QED  BY <1>4, <1>5

\* The device task ends.
LEMMA NodeInvDeviceStop ==
    ASSUME NodeInv, DeviceStop
    PROVE  NodeInv'
<1>1. /\ device' = "stopped" /\ deviceSessions' = {} /\ authenticated' = {}
      /\ reporting' = <<>> /\ replying' = NoSession /\ replying = NoSession /\ commands' = <<>>
      /\ UNCHANGED <<vars, outbox, delivered, events>>
  BY Zenon DEF DeviceStop, DeviceIdle, NoDevice
<1>2. reply' \in {reply, "err"} /\ reply \in {"none", "ok", "err"}
  BY DEF DeviceStop, NodeInv, NodeTypeOK
<1>3. ASSUME reply' # reply
      PROVE  reply' = "err" /\ preparing # NoSession /\ outbox = <<>>
  <2>1. PICK i \in DOMAIN commands : commands[i].kind = "Prepare"
    BY Zenon, <1>3 DEF DeviceStop
  <2>2. outbox = <<>> /\ preparing = commands[i].session /\ commands[i] \in CommandMessage
    BY <2>1 DEF NodeInv, PrepareInProgress, Unprepared, ChannelTypeOK
  <2> QED  BY <1>2, <1>3, <2>2, EndpointAssumption DEF CommandMessage
<1>4. <<>> \in Seq(CommandMessage) /\ <<>> \in Seq(EventMessage) /\ Len(<<>>) = 0
      /\ DOMAIN <<>> = {}
  OBVIOUS
<1>5. \A x : ~Removal(x, <<>>)
  BY Zenon, QueuedShort DEF Removal
<1>6. NodeTypeOK'
  BY <1>1, <1>2, <1>4, NodeAssumption
  DEF NodeInv, NodeTypeOK, EndpointTypeOK, ManagerTypeOK, vars, managerVars, loopVars
<1>7. ChannelTypeOK'
  BY <1>1, <1>4 DEF NodeInv, ChannelTypeOK
<1>8. EndedIsEmpty'
  BY Zenon, <1>1 DEF NodeInv, EndedIsEmpty, vars
<1>9. DOMAIN outbox' = {} \/ \A x : Unprepared(x) => Unprepared(x)'
  BY Zenon, <1>1, <1>3, <1>4 DEF Unprepared, vars, loopVars, NodeInv, PrepareInProgress
<1>10. PrepareInProgress'
  BY Zenon, <1>1, <1>2, <1>3, <1>4, <1>9 DEF NodeInv, PrepareInProgress, Running, Busy, vars, loopVars
<1>11. SessionsOnDevice'
  BY Zenon, <1>1, <1>2, <1>3, <1>5 DEF NodeInv, SessionsOnDevice, Unprepared, Removal, vars, managerVars, loopVars
<1> QED  BY Zenon, <1>1, <1>6, <1>7, <1>8, <1>10, <1>11 DEF NodeInv, vars, managerVars

-------------------------------------------------------------------------------
(* The main loop's steps keep NodeInv *)

\* Between two handlers no Prepare is in progress and nothing is left to send.
LEMMA BetweenHandlers ==
    ASSUME NodeInv, Running, ~Busy
    PROVE  /\ outbox = <<>> /\ preparing = NoSession /\ ~sending
           /\ replying = NoSession /\ reply = "none"
           /\ \A i \in DOMAIN commands : commands[i].kind # "Prepare"
           /\ \A s \in DOMAIN sessions :
                 /\ s # preparing
                 /\ sessions[s].phase \in {"Handshaking", "Active"}
                 /\ ~Removal(s, commands)
                 /\ device = "running" => OnDevice(s)
<1>1. outbox = <<>> /\ preparing = NoSession /\ ~sending /\ replying = NoSession /\ reply = "none"
  BY DEF NodeInv, PrepareInProgress, Busy
<1>2. ASSUME NEW i \in DOMAIN commands, commands[i].kind = "Prepare"
      PROVE  FALSE
  <2>1. commands[i] \in CommandMessage /\ commands[i].session = preparing
    BY <1>2 DEF NodeInv, ChannelTypeOK, PrepareInProgress, Unprepared
  <2> QED  BY Zenon, <1>1, <2>1, EndpointAssumption DEF CommandMessage
<1>3. ASSUME NEW s \in DOMAIN sessions
      PROVE  /\ s # preparing /\ ~Removal(s, commands)
             /\ sessions[s].phase \in {"Handshaking", "Active"}
             /\ device = "running" => OnDevice(s)
  <2>1. s \in Session /\ sessions[s].phase \in SessionPhase
    BY SessionFields DEF NodeInv, NodeTypeOK, EndpointTypeOK
  <2>2. s # preparing
    BY Zenon, <1>1, <2>1, EndpointAssumption
  <2> QED  BY Zenon, <2>1, <2>2 DEF NodeInv, SessionsOnDevice, Unprepared, SessionPhase
<1> QED  BY Zenon, <1>1, <1>2, <1>3

\* A handler that adds no session, and removes from the device only sessions
\* that it drops from the manager.
LEMMA NodeInvHandler ==
    ASSUME NodeInv, EndpointTypeOK', Running, ~Busy,
           generation' # "stopped", preparing' = NoSession,
           sending' => outbox' # <<>>,
           generation' = "running" /\ ~sending' => outbox' = <<>>,
           outbox' \in Seq(CommandMessage),
           \A i \in DOMAIN outbox' : outbox'[i].kind # "Prepare",
           DOMAIN sessions' \subseteq DOMAIN sessions,
           \A s \in DOMAIN sessions' :
              /\ sessions'[s].phase \in {"Handshaking", "Active"}
              /\ ~Removal(s, outbox')
              /\ Queued("Failed", s, events) => Queued("Failed", s, events'),
           events' \in Seq(EventMessage), Len(events') <= EventCapacity,
           UNCHANGED <<deviceVars, reply, commands>>
    PROVE  NodeInv'
<1>1. /\ outbox = <<>> /\ preparing = NoSession /\ ~sending
      /\ replying = NoSession /\ reply = "none"
      /\ \A i \in DOMAIN commands : commands[i].kind # "Prepare"
      /\ \A s \in DOMAIN sessions :
            s # preparing /\ ~Removal(s, commands) /\ (device = "running" => OnDevice(s))
  BY Zenon, BetweenHandlers
<1>2. /\ UNCHANGED <<device, deviceSessions, authenticated, reporting, replying, reply, commands>>
      /\ preparing' = preparing
  BY Zenon, <1>1 DEF deviceVars
<1>3. NodeTypeOK'
  BY Zenon, <1>2 DEF NodeInv, NodeTypeOK
<1>4. ChannelTypeOK'
  BY Zenon, <1>2 DEF NodeInv, ChannelTypeOK
<1>6. EndedIsEmpty'
  BY Zenon, <1>2 DEF NodeInv, EndedIsEmpty
<1>7. PrepareInProgress'
  BY Zenon, <1>1, <1>2 DEF NodeInv, PrepareInProgress, Running, Busy
<1>8. \A s \in DOMAIN sessions' : OnDevice(s) => OnDevice(s)'
  BY Zenon, <1>2 DEF OnDevice, Pending
<1>9. SessionsOnDevice'
  BY Zenon, <1>1, <1>2, <1>8 DEF SessionsOnDevice, Removal
<1> QED  BY Zenon, <1>3, <1>4, <1>6, <1>7, <1>9 DEF NodeInv

\* The commands a handler queues for a set of sessions.
LEMMA RemovalCommands ==
    ASSUME NEW kind \in {"Remove", "Discard", "Receive"}, NEW S \in SUBSET Session,
           NEW q \in Commands(kind, S)
    PROVE  /\ q \in Seq(CommandMessage)
           /\ \A i \in DOMAIN q : q[i].kind # "Prepare"
           /\ \A s : Removal(s, q) => s \in S
           /\ kind # "Receive" => \A s \in S : Removal(s, q)
           /\ S # {} <=> q # <<>>
<1> DEFINE M == [kind : {kind}, session : Session]
<1>1. \A s \in S : Message(kind, s) \in M
  BY DEF Message
<1>2. M \subseteq CommandMessage /\ \A m \in M : m.kind = kind
  BY DEF CommandMessage
<1> HIDE DEF M
<1>3. /\ q \in Seq(M)
      /\ \A k, s : Queued(k, s, q) <=> k = kind /\ s \in S
      /\ S # {} <=> q # <<>>
  BY Zenon, <1>1, CommandsFacts
<1>4. q \in Seq(CommandMessage) /\ \A i \in DOMAIN q : q[i].kind # "Prepare"
  BY <1>2, <1>3
<1> QED  BY <1>3, <1>4 DEF Removal

\* The one command a handler queues for a session.
LEMMA SingleCommand ==
    ASSUME NEW kind \in {"Discard", "Receive"}, NEW s \in Session
    PROVE  /\ <<Message(kind, s)>> \in Seq(CommandMessage) /\ <<Message(kind, s)>> # <<>>
           /\ \A i \in DOMAIN <<Message(kind, s)>> : <<Message(kind, s)>>[i].kind # "Prepare"
           /\ \A x : Removal(x, <<Message(kind, s)>>) <=> kind = "Discard" /\ x = s
<1>1. Message(kind, s) \in CommandMessage /\ Message(kind, s).kind = kind
  BY DEF Message, CommandMessage
<1>2. /\ <<Message(kind, s)>> \in Seq(CommandMessage) /\ <<Message(kind, s)>> # <<>>
      /\ DOMAIN <<Message(kind, s)>> = {1} /\ <<Message(kind, s)>>[1] = Message(kind, s)
      /\ \A k, x : Queued(k, x, <<Message(kind, s)>>) <=> Message(kind, s) = Message(k, x)
  BY <1>1, QueuedShort
<1> QED  BY <1>1, <1>2, MessageFacts DEF Removal

\* fail drops its session and changes no other.
LEMMA FailSessions ==
    ASSUME ManagerTypeOK, NEW s, NEW r, Fail(s, r)
    PROVE  /\ DOMAIN sessions' = DOMAIN sessions \ {s}
           /\ \A x \in DOMAIN sessions' : sessions'[x] = sessions[x]
BY DEF Fail, Drop

\* authenticated_handshake keeps sessions as they are, Active or retired.
LEMMA AuthenticateSessions ==
    ASSUME ManagerTypeOK, NEW s \in DOMAIN sessions, Authenticate(s)
    PROVE  /\ DOMAIN sessions' = DOMAIN sessions \ Draining(Promoted(s))
           /\ \A x \in DOMAIN sessions' :
                 /\ sessions'[x].phase # "Draining"
                 /\ sessions'[x].phase \in {sessions[x].phase, "Active"}
<1>1. sessions' = Drop(Promoted(s), Draining(Promoted(s))) /\ DOMAIN Promoted(s) = DOMAIN sessions
  BY PromotedFacts DEF Authenticate, RetireDraining
<1>2. /\ DOMAIN sessions' = DOMAIN sessions \ Draining(Promoted(s))
      /\ \A x \in DOMAIN sessions' : sessions'[x] = Promoted(s)[x]
  BY Zenon, <1>1 DEF Drop
<1>3. \A x \in DOMAIN sessions' : sessions'[x].phase # "Draining"
  BY <1>1, <1>2 DEF Draining
<1>4. \A x \in DOMAIN sessions : sessions[x] \in ManagedSession
  BY SessionFields
<1>5. \A x \in DOMAIN sessions : Promoted(s)[x].phase \in {sessions[x].phase, "Active", "Draining"}
  BY Zenon, <1>4 DEF Promoted, ManagedSession
<1>6. ASSUME NEW x \in DOMAIN sessions'
      PROVE  sessions'[x].phase \in {sessions[x].phase, "Active"}
  <2>1. x \in DOMAIN sessions /\ sessions'[x] = Promoted(s)[x] /\ sessions'[x].phase # "Draining"
    BY Zenon, <1>2, <1>3
  <2> QED  BY Zenon, <1>5, <2>1
<1> QED  BY Zenon, <1>2, <1>3, <1>6

\* A datagram is passed to the device.
LEMMA NodeInvInbound ==
    ASSUME NodeInv, EndpointTypeOK', NodeInbound
    PROVE  NodeInv'
<1>1. PICK s \in Session :
         /\ OnInbound /\ outbox' = <<Message("Receive", s)>>
         /\ UNCHANGED <<deviceVars, reply, delivered, commands, events>>
  BY DEF NodeInbound
<1>2. /\ Running /\ ~Busy /\ sending' = TRUE
      /\ UNCHANGED <<sessions, generation, preparing>>
  BY <1>1 DEF OnInbound, Selecting, managerVars
<1>3. /\ outbox' \in Seq(CommandMessage) /\ outbox' # <<>>
      /\ \A i \in DOMAIN outbox' : outbox'[i].kind # "Prepare"
      /\ \A x : ~Removal(x, outbox')
  BY Zenon, <1>1, SingleCommand
<1>4. /\ preparing' = NoSession /\ generation' # "stopped"
      /\ \A x \in DOMAIN sessions : sessions[x].phase \in {"Handshaking", "Active"}
  BY <1>2, BetweenHandlers DEF Running
<1>5. events' \in Seq(EventMessage) /\ Len(events') <= EventCapacity /\ events' = events
  BY Zenon, <1>1 DEF NodeInv, ChannelTypeOK, NodeTypeOK
<1> QED  BY <1>1, <1>2, <1>3, <1>4, <1>5, NodeInvHandler

\* The poll removes the expired sessions from the manager and then from the
\* device; the end of the loop does the same for all of them.
LEMMA NodeInvExpire ==
    ASSUME NodeInv, EndpointTypeOK', NodePoll \/ NodeShutdown
    PROVE  NodeInv'
<1>1. PICK expired \in SUBSET DOMAIN sessions, kind \in {"Remove", "Discard"} :
         /\ Expire(expired) /\ outbox' \in Commands(kind, expired)
         /\ sending' => expired # {}
         /\ generation' = "running" /\ ~sending' => expired = {}
  <2>1. CASE NodePoll
    BY Zenon, <2>1 DEF NodePoll, Poll, Expired
  <2>2. CASE NodeShutdown
    BY <2>2 DEF NodeShutdown, Shutdown, loopVars, Busy
  <2> QED  BY <2>1, <2>2
<1>2. /\ Running /\ ~Busy /\ generation' # "stopped" /\ preparing' = preparing
      /\ UNCHANGED <<deviceVars, reply, commands, events>>
  BY DEF NodePoll, NodeShutdown, Poll, Shutdown, Running, loopVars
<1>3. expired \in SUBSET Session
  BY Zenon DEF NodeInv, NodeTypeOK, EndpointTypeOK, ManagerTypeOK, MapType
<1>4. /\ outbox' \in Seq(CommandMessage)
      /\ \A i \in DOMAIN outbox' : outbox'[i].kind # "Prepare"
      /\ \A s : Removal(s, outbox') => s \in expired
      /\ expired # {} <=> outbox' # <<>>
  BY <1>1, <1>3, RemovalCommands
<1>5. /\ DOMAIN sessions' = DOMAIN sessions \ expired
      /\ \A s \in DOMAIN sessions' : sessions'[s] = sessions[s]
  BY <1>1 DEF Expire, Drop
<1>6. /\ preparing' = NoSession
      /\ \A x \in DOMAIN sessions : sessions[x].phase \in {"Handshaking", "Active"}
  BY <1>2, BetweenHandlers
<1>7. events' \in Seq(EventMessage) /\ Len(events') <= EventCapacity /\ events' = events
  BY <1>2 DEF NodeInv, ChannelTypeOK, NodeTypeOK
<1> QED  BY Zenon, <1>1, <1>2, <1>4, <1>5, <1>6, <1>7, NodeInvHandler

\* The loop handles an event of the device.
LEMMA NodeInvEvent ==
    ASSUME NodeInv, EndpointTypeOK', NodeEvent
    PROVE  NodeInv'
<1> DEFINE event == Head(events)
<1> DEFINE s == event.session
<1>1. /\ events # <<>> /\ HandleEvent(event) /\ events' = Tail(events)
      /\ UNCHANGED <<deviceVars, reply, commands>>
  BY DEF NodeEvent
<1>2. /\ event \in EventMessage
      /\ event.kind \in {"Authenticated", "Failed"} => s \in Session
  BY <1>1, HeadEvent DEF NodeInv
<1>3. /\ events' \in Seq(EventMessage) /\ Len(events') <= EventCapacity
      /\ \A x : Queued("Failed", x, events) =>
            Queued("Failed", x, events') \/ event = Message("Failed", x)
  <2>1. events \in Seq(EventMessage) /\ Len(events) <= EventCapacity
    BY DEF NodeInv, ChannelTypeOK, NodeTypeOK
  <2>2. /\ Tail(events) \in Seq(EventMessage) /\ Len(Tail(events)) = Len(events) - 1
        /\ Len(events) \in Nat
        /\ \A kind, x : Queued(kind, x, events) <=>
              Head(events) = Message(kind, x) \/ Queued(kind, x, Tail(events))
    BY <1>1, <2>1, QueuedTail
  <2> QED  BY <1>1, <2>1, <2>2, NodeAssumption
<1>4. /\ Selecting /\ Running /\ ~Busy /\ UNCHANGED <<generation, preparing>>
  BY Zenon, <1>1 DEF HandleEvent, OnAuthenticated, OnAuthenticatedLate, OnActivationFailed,
         AlreadyActive,
              OnSessionFailed, Selecting, vars, loopVars
<1>5. /\ outbox = <<>> /\ preparing = NoSession /\ ~sending
      /\ \A x \in DOMAIN sessions : sessions[x].phase \in {"Handshaking", "Active"}
  BY <1>4, BetweenHandlers
<1>6. ManagerTypeOK
  BY DEF NodeInv, NodeTypeOK, EndpointTypeOK
<1>7. <<>> \in Seq(CommandMessage) /\ DOMAIN <<>> = {} /\ \A x : ~Removal(x, <<>>)
  BY EmptyQueue
<1>8. \A x : event = Message("Failed", x) => event.kind = "Failed" /\ x = s
  BY MessageFacts
<1> HIDE DEF s
<1>9. CASE event.kind = "Authenticated" /\ OnAuthenticated(s)
            /\ outbox' \in Commands("Remove", Draining(Promoted(s)))
  <2> DEFINE retired == Draining(Promoted(s))
  <2>1. s \in DOMAIN sessions /\ Authenticate(s) /\ sending' = (retired # {})
    BY Zenon, <1>9 DEF OnAuthenticated, MayActivate
  <2>2. retired \subseteq DOMAIN sessions
    BY Zenon, <1>6, <2>1, PromotedFacts DEF Draining
  <2>3. /\ DOMAIN sessions' = DOMAIN sessions \ retired
        /\ \A x \in DOMAIN sessions' : sessions'[x].phase \in {sessions[x].phase, "Active"}
    BY <1>6, <2>1, AuthenticateSessions
  <2> HIDE DEF retired
  <2>4. retired \in SUBSET Session
    BY <1>6, <2>2 DEF NodeInv, ManagerTypeOK, MapType
  <2>5. outbox' \in Commands("Remove", retired)
    BY <1>9 DEF retired
  <2>6. /\ outbox' \in Seq(CommandMessage)
        /\ \A i \in DOMAIN outbox' : outbox'[i].kind # "Prepare"
        /\ \A x : Removal(x, outbox') => x \in retired
        /\ retired # {} <=> outbox' # <<>>
    BY ZenonT(30), <2>4, <2>5, RemovalCommands
  <2>7. \A x \in DOMAIN sessions' :
           /\ sessions'[x].phase \in {"Handshaking", "Active"}
           /\ ~Removal(x, outbox')
           /\ Queued("Failed", x, events) => Queued("Failed", x, events')
    <3> SUFFICES ASSUME NEW x \in DOMAIN sessions'
                 PROVE  /\ sessions'[x].phase \in {"Handshaking", "Active"}
                        /\ ~Removal(x, outbox')
                        /\ Queued("Failed", x, events) => Queued("Failed", x, events')
      OBVIOUS
    <3>1. x \in DOMAIN sessions /\ x \notin retired
      BY Zenon, <2>3
    <3>2. sessions'[x].phase \in {"Handshaking", "Active"}
      BY Zenon, <1>5, <2>3, <3>1
    <3>3. Queued("Failed", x, events) => Queued("Failed", x, events')
      BY Zenon, <1>3, <1>8, <1>9
    <3> QED  BY Zenon, <2>6, <3>1, <3>2, <3>3
  <2> QED  BY Zenon, <1>1, <1>3, <1>4, <1>5, <2>1, <2>3, <2>6, <2>7, NodeInvHandler DEF Running
<1>10. CASE /\ event.kind = "Authenticated"
            /\ OnAuthenticatedLate(s) \/ OnActivationFailed(s)
            /\ outbox' = <<Message("Discard", s)>>
  <2>1. PICK r : Fail(s, r)
    BY Zenon, <1>10 DEF OnAuthenticatedLate, OnActivationFailed
  <2>2. sending'
    BY Zenon, <1>10 DEF OnAuthenticatedLate, OnActivationFailed
  <2>3. /\ DOMAIN sessions' = DOMAIN sessions \ {s}
        /\ \A x \in DOMAIN sessions' : sessions'[x] = sessions[x]
    BY Zenon, <1>6, <2>1, FailSessions
  <2>4. s \in Session
    BY <1>2, <1>10 DEF s
  <2>5. /\ outbox' \in Seq(CommandMessage) /\ outbox' # <<>>
        /\ \A i \in DOMAIN outbox' : outbox'[i].kind # "Prepare"
        /\ \A x : Removal(x, outbox') => x = s
    BY Zenon, <1>10, <2>4, SingleCommand
  <2>6. \A x \in DOMAIN sessions' :
           /\ sessions'[x].phase \in {"Handshaking", "Active"}
           /\ ~Removal(x, outbox')
           /\ Queued("Failed", x, events) => Queued("Failed", x, events')
    BY Zenon, <1>3, <1>5, <1>8, <1>10, <2>3, <2>5
  <2> QED  BY <1>1, <1>3, <1>4, <1>5, <2>2, <2>3, <2>5, <2>6, NodeInvHandler DEF Running
<1>11. CASE event.kind = "Failed" /\ OnSessionFailed(s) /\ UNCHANGED outbox
  <2>1. Fail(s, routes) /\ sending' = sending
    BY <1>11 DEF OnSessionFailed, loopVars
  <2>2. /\ DOMAIN sessions' = DOMAIN sessions \ {s}
        /\ \A x \in DOMAIN sessions' : sessions'[x] = sessions[x]
    BY Zenon, <1>6, <2>1, FailSessions
  <2>3. \A x \in DOMAIN sessions' :
           /\ sessions'[x].phase \in {"Handshaking", "Active"}
           /\ Queued("Failed", x, events) => Queued("Failed", x, events')
    BY ZenonT(30), <1>3, <1>5, <1>8, <2>2
  <2> QED  BY Zenon, <1>1, <1>3, <1>4, <1>5, <1>7, <1>11, <2>1, <2>2, <2>3, NodeInvHandler DEF Running
<1>12. CASE event.kind # "Failed" /\ UNCHANGED <<vars, outbox>>
  <2>1. UNCHANGED <<sessions, sending>>
    BY Zenon, <1>12 DEF vars, managerVars, loopVars
  <2>2. \A x \in DOMAIN sessions' :
           /\ sessions'[x].phase \in {"Handshaking", "Active"}
           /\ Queued("Failed", x, events) => Queued("Failed", x, events')
    BY <1>3, <1>5, <1>8, <1>12, <2>1
  <2> QED  BY <1>1, <1>3, <1>4, <1>5, <1>7, <1>12, <2>1, <2>2, NodeInvHandler DEF Running
<1> QED  BY <1>1, <1>9, <1>10, <1>11, <1>12 DEF HandleEvent, AlreadyActive, s

\* A ticket is accepted and its Prepare queued.
LEMMA NodeInvTicket ==
    ASSUME NodeInv, EndpointTypeOK', NodeTicket
    PROVE  NodeInv'
<1>1. PICK t \in Ticket, sender \in Peer, latest_handshake \in 0 .. now :
         /\ OnTicket(t, sender, latest_handshake)
         /\ outbox' = <<Message("Prepare", t.session)>>
         /\ UNCHANGED <<deviceVars, reply, commands, events>>
  BY DEF NodeTicket
<1> DEFINE s == t.session
<1>2. s \in Session /\ s # NoSession
  BY Zenon, TicketFields, EndpointAssumption
<1>3. /\ Running /\ ~Busy /\ s \notin DOMAIN sessions /\ preparing' = s
      /\ sessions' = Put(sessions, s, [ticket |-> t, phase |-> "Prepared"])
      /\ UNCHANGED <<generation, sending>>
  BY Zenon, <1>1 DEF OnTicket, Selecting, ReceiveTicket
<1> HIDE DEF s
<1>4. /\ outbox = <<>> /\ preparing = NoSession /\ ~sending
      /\ replying = NoSession /\ reply = "none"
      /\ \A i \in DOMAIN commands : commands[i].kind # "Prepare"
      /\ \A x \in DOMAIN sessions :
            /\ sessions[x].phase \in {"Handshaking", "Active"} /\ ~Removal(x, commands)
            /\ device = "running" => OnDevice(x)
  BY Zenon, <1>3, BetweenHandlers
<1>5. /\ DOMAIN sessions' = DOMAIN sessions \cup {s}
      /\ sessions'[s].phase = "Prepared"
      /\ \A x \in DOMAIN sessions : sessions'[x] = sessions[x]
  BY <1>3 DEF Put
<1>6. Message("Prepare", s) \in CommandMessage
  BY Zenon, <1>2 DEF CommandMessage, Message
<1>7. /\ outbox' \in Seq(CommandMessage) /\ Len(outbox') = 1 /\ DOMAIN outbox' = {1}
      /\ outbox'[1] = Message("Prepare", s) /\ outbox' # <<>>
      /\ \A kind, x : Queued(kind, x, outbox') <=> Message("Prepare", s) = Message(kind, x)
  BY <1>1, <1>6, QueuedShort DEF s
<1>8. \A x : ~Removal(x, outbox')
  BY <1>7, MessageFacts DEF Removal
<1>9. /\ UNCHANGED <<device, deviceSessions, authenticated, reporting, replying, reply, commands, events>>
  BY Zenon, <1>1 DEF deviceVars
<1>10. NodeTypeOK'
  BY Zenon, <1>7, <1>9 DEF NodeInv, NodeTypeOK
<1>11. ChannelTypeOK'
  BY Zenon, <1>7, <1>9 DEF NodeInv, ChannelTypeOK
<1>13. EndedIsEmpty'
  BY Zenon, <1>3, <1>9 DEF NodeInv, EndedIsEmpty, Running
<1>14. Unprepared(s)'
  BY Zenon, <1>2, <1>3, <1>4, <1>9 DEF Unprepared
<1>15. outbox'[1].session = s /\ outbox'[1].kind = "Prepare"
  <2>1. Message("Prepare", s).session = s /\ Message("Prepare", s).kind = "Prepare"
    BY Zenon, MessageFacts
  <2> QED  BY Zenon, <1>7, <2>1
<1>16. PrepareInProgress'
  BY Zenon, <1>2, <1>3, <1>4, <1>7, <1>9, <1>14, <1>15 DEF PrepareInProgress, Running, Busy
<1>17. \A x : OnDevice(x)' <=> OnDevice(x)
  BY Zenon, <1>9 DEF OnDevice, Pending
<1>18. SessionsOnDevice'
  BY Zenon, <1>2, <1>3, <1>4, <1>5, <1>8, <1>9, <1>14, <1>17 DEF SessionsOnDevice, Removal
<1> QED  BY Zenon, <1>10, <1>11, <1>13, <1>16, <1>18 DEF NodeInv

\* The answer to a Prepare: the session goes on to its handshake, or fails.
LEMMA NodeInvPrepared ==
    ASSUME NodeInv, EndpointTypeOK', NodePrepared
    PROVE  NodeInv'
<1> DEFINE s == preparing
<1>1. /\ Running /\ preparing # NoSession /\ preparing' = NoSession /\ reply # "none"
      /\ reply' = "none" /\ UNCHANGED <<generation, sending>>
      /\ UNCHANGED <<device, deviceSessions, authenticated, reporting, replying, outbox, commands, events>>
  BY Zenon DEF NodePrepared, OnPrepared, OnPrepareFailed, deviceVars
<1>2. /\ ~sending /\ replying = NoSession
      /\ \A i \in DOMAIN commands : commands[i].kind # "Prepare"
      /\ \A i \in DOMAIN outbox : outbox[i].kind # "Prepare"
  BY ZenonT(30), <1>1 DEF NodeInv, PrepareInProgress, Unprepared
<1>3. ManagerTypeOK
  BY DEF NodeInv, NodeTypeOK, EndpointTypeOK
<1>4. \A x \in DOMAIN sessions : ~Removal(x, commands) /\ ~Removal(x, outbox)
  BY <1>1 DEF NodeInv, SessionsOnDevice, Unprepared
<1>5. outbox = <<>>
  <2>1. DOMAIN outbox = {}
    BY Zenon, <1>1, <1>2 DEF NodeInv, PrepareInProgress
  <2> QED  BY <2>1 DEF NodeInv, ChannelTypeOK
<1>6. /\ DOMAIN sessions' \subseteq DOMAIN sessions
      /\ \A x \in DOMAIN sessions' :
            /\ sessions'[x].phase = IF x = s THEN "Handshaking" ELSE sessions[x].phase
            /\ x = s => reply = "ok"
  <2>1. CASE reply = "ok" /\ OnPrepared
    <3>1. s \in DOMAIN sessions /\ sessions[s].phase = "Prepared"
      BY <2>1 DEF OnPrepared, MarkHandshaking, NodeInv, SessionsOnDevice
    <3>2. sessions' = [sessions EXCEPT ![s].phase = "Handshaking"]
      BY Zenon, <2>1, <3>1 DEF OnPrepared, MarkHandshaking
    <3>3. sessions = [x \in DOMAIN sessions |-> sessions[x]] /\ sessions[s] \in ManagedSession
      BY <1>3, <3>1, SessionFields DEF ManagerTypeOK, MapType
    <3> HIDE DEF s
    <3>4. DOMAIN sessions' = DOMAIN sessions
      BY <3>2, <3>3
    <3>5. sessions'[s].phase = "Handshaking"
      BY <3>1, <3>2, <3>3 DEF ManagedSession
    <3>6. \A x \in DOMAIN sessions \ {s} : sessions'[x] = sessions[x]
      BY <3>2, <3>3
    <3> QED  BY <2>1, <3>4, <3>5, <3>6
  <2>2. CASE reply = "err" /\ OnPrepareFailed
    <3>1. Fail(s, routes)
      BY Zenon, <2>2 DEF OnPrepareFailed
    <3> QED  BY Zenon, <1>3, <3>1, FailSessions
  <2> QED  BY Zenon, <2>1, <2>2 DEF NodePrepared
<1>7. NodeTypeOK'
  BY <1>1, <1>2 DEF NodeInv, NodeTypeOK
<1>8. ChannelTypeOK'
  BY <1>1 DEF NodeInv, ChannelTypeOK
<1>10. EndedIsEmpty'
  BY Zenon, <1>1 DEF NodeInv, EndedIsEmpty
<1>11. PrepareInProgress'
  BY Zenon, <1>1, <1>2, <1>5 DEF PrepareInProgress, Running, Busy
<1>12. \A x : OnDevice(x)' <=> OnDevice(x)
  BY <1>1 DEF OnDevice, Pending
<1>13. \A x \in DOMAIN sessions' : x # NoSession
  BY Zenon, <1>3, <1>6, EndpointAssumption DEF ManagerTypeOK, MapType
<1>14. SessionsOnDevice'
  BY Zenon, <1>1, <1>4, <1>6, <1>12, <1>13 DEF NodeInv, SessionsOnDevice, Removal
<1> QED  BY Zenon, <1>7, <1>8, <1>10, <1>11, <1>14 DEF NodeInv

\* The head of the outbox is sent, or dropped because the device is gone: what
\* is left of the outbox.
LEMMA OutboxTail ==
    ASSUME NodeInv, outbox # <<>>, outbox' = Tail(outbox),
           IF sending /\ Len(outbox) = 1 THEN CommandsSent ELSE UNCHANGED vars
    PROVE  /\ Head(outbox) \in CommandMessage /\ outbox' \in Seq(CommandMessage)
           /\ UNCHANGED <<sessions, active_routes, generation, preparing>>
           /\ sending' => sending /\ outbox' # <<>>
           /\ generation = "running" /\ preparing = NoSession =>
                 sending /\ (~sending' => outbox' = <<>>)
           /\ \A s : Removal(s, outbox) <=>
                 Removal(s, outbox') \/ Head(outbox) \in {Message("Remove", s), Message("Discard", s)}
           /\ \A i \in DOMAIN outbox' : i + 1 \in DOMAIN outbox /\ outbox'[i] = outbox[i + 1]
           /\ Head(outbox).kind = "Prepare" =>
                 /\ outbox' = <<>> /\ Unprepared(Head(outbox).session)
                 /\ \A j \in DOMAIN commands : commands[j].kind # "Prepare"
           /\ \A i \in DOMAIN outbox' : outbox'[i].kind = "Prepare" =>
                 /\ i = Len(outbox') /\ Unprepared(outbox'[i].session)
                 /\ \A j \in DOMAIN commands : commands[j].kind # "Prepare"
<1>1. outbox \in Seq(CommandMessage) /\ sending \in BOOLEAN
  BY DEF NodeInv, ChannelTypeOK, NodeTypeOK, EndpointTypeOK
<1>2. /\ Tail(outbox) \in Seq(CommandMessage) /\ Len(Tail(outbox)) = Len(outbox) - 1
      /\ Len(outbox) \in Nat \ {0}
      /\ Head(outbox) \in CommandMessage
      /\ \A i \in DOMAIN Tail(outbox) : i + 1 \in DOMAIN outbox /\ Tail(outbox)[i] = outbox[i + 1]
      /\ \A kind, s : Queued(kind, s, outbox) <=>
            Head(outbox) = Message(kind, s) \/ Queued(kind, s, Tail(outbox))
  BY <1>1, QueuedTail
<1>3. 1 \in DOMAIN outbox /\ Head(outbox) = outbox[1] /\ DOMAIN Tail(outbox) \subseteq Nat
  BY <1>1, <1>2
<1>4. UNCHANGED <<sessions, active_routes, generation, preparing>>
  BY DEF CommandsSent, vars, managerVars, loopVars
<1>5. sending' = (sending /\ Len(outbox) # 1)
  <2>1. CASE sending /\ Len(outbox) = 1
    BY Zenon, <2>1 DEF CommandsSent
  <2>2. CASE ~(sending /\ Len(outbox) = 1)
    BY <1>1, <2>2 DEF vars, loopVars
  <2> QED  BY <2>1, <2>2
<1>6. Len(outbox) = 1 <=> outbox' = <<>>
  <2>1. Len(outbox) = 1 => Len(Tail(outbox)) = 0
    BY <1>1
  <2>2. Len(outbox) = 1 => outbox' = <<>>
    BY <1>2, <2>1
  <2>3. ASSUME Tail(outbox) = <<>>
        PROVE  Len(outbox) = 1
    <3>1. DOMAIN Tail(outbox) = {}
      BY <2>3, EmptyQueue
    <3>2. DOMAIN Tail(outbox) = 1 .. (Len(outbox) - 1)
      BY <1>1
    <3>3. 1 \notin 1 .. (Len(outbox) - 1)
      BY Zenon, <3>1, <3>2
    <3> QED  BY <1>2, <3>3
  <2> QED  BY <2>2, <2>3
<1>7. generation = "running" /\ preparing = NoSession => sending
  BY Zenon DEF NodeInv, PrepareInProgress, Running, Busy
<1>8. \A i \in DOMAIN outbox : outbox[i].kind = "Prepare" =>
         /\ i = Len(outbox) /\ Unprepared(outbox[i].session)
         /\ \A j \in DOMAIN commands : commands[j].kind # "Prepare"
  BY Zenon DEF NodeInv, PrepareInProgress
<1>9. Head(outbox).kind = "Prepare" =>
         /\ outbox' = <<>> /\ Unprepared(Head(outbox).session)
         /\ \A j \in DOMAIN commands : commands[j].kind # "Prepare"
  BY Zenon, <1>3, <1>6, <1>8
<1>10. ASSUME NEW i \in DOMAIN outbox', outbox'[i].kind = "Prepare"
       PROVE  /\ i = Len(outbox') /\ Unprepared(outbox'[i].session)
              /\ \A j \in DOMAIN commands : commands[j].kind # "Prepare"
  <2>1. i \in Nat /\ i + 1 \in DOMAIN outbox /\ outbox'[i] = outbox[i + 1]
    BY Zenon, <1>2, <1>3
  <2>2. i + 1 = Len(outbox) /\ Unprepared(outbox'[i].session)
        /\ \A j \in DOMAIN commands : commands[j].kind # "Prepare"
    BY Zenon, <1>8, <1>10, <2>1
  <2> QED  BY <1>2, <2>1, <2>2
<1>11. \A s : Removal(s, outbox) <=>
          Removal(s, outbox') \/ Head(outbox) \in {Message("Remove", s), Message("Discard", s)}
  BY <1>2 DEF Removal
<1>12. \A i \in DOMAIN outbox' : i + 1 \in DOMAIN outbox /\ outbox'[i] = outbox[i + 1]
  BY <1>2
<1> QED  BY ZenonT(30), <1>2, <1>4, <1>5, <1>6, <1>7, <1>9, <1>10, <1>11, <1>12

\* A command is queued for the device.
LEMMA NodeInvSend ==
    ASSUME NodeInv, EndpointTypeOK', NodeSend
    PROVE  NodeInv'
<1> DEFINE m == Head(outbox)
<1>1. /\ outbox # <<>> /\ device = "running" /\ Len(commands) < CommandCapacity
      /\ commands' = Append(commands, m) /\ outbox' = Tail(outbox)
      /\ IF sending /\ Len(outbox) = 1 THEN CommandsSent ELSE UNCHANGED vars
      /\ UNCHANGED <<device, deviceSessions, authenticated, reporting, replying, reply, events>>
  BY ZenonT(30) DEF NodeSend, deviceVars
<1>2. /\ m \in CommandMessage /\ outbox' \in Seq(CommandMessage)
      /\ UNCHANGED <<sessions, generation, preparing>>
      /\ sending' => sending /\ outbox' # <<>>
      /\ generation = "running" /\ preparing = NoSession => (~sending' => outbox' = <<>>)
      /\ \A s : Removal(s, outbox) <=>
            Removal(s, outbox') \/ m \in {Message("Remove", s), Message("Discard", s)}
      /\ \A i \in DOMAIN outbox' : i + 1 \in DOMAIN outbox /\ outbox'[i] = outbox[i + 1]
      /\ m.kind = "Prepare" =>
            /\ outbox' = <<>> /\ Unprepared(m.session)
            /\ \A j \in DOMAIN commands : commands[j].kind # "Prepare"
      /\ \A i \in DOMAIN outbox' : outbox'[i].kind = "Prepare" =>
            /\ i = Len(outbox') /\ Unprepared(outbox'[i].session)
            /\ \A j \in DOMAIN commands : commands[j].kind # "Prepare"
  BY <1>1, OutboxTail
<1>3. commands \in Seq(CommandMessage)
  BY ZenonT(30) DEF NodeInv, ChannelTypeOK
<1>4. /\ commands' \in Seq(CommandMessage) /\ Len(commands') = Len(commands) + 1 /\ Len(commands) \in Nat
      /\ \A i \in DOMAIN commands' :
            \/ i = Len(commands) + 1 /\ commands'[i] = m
            \/ i \in DOMAIN commands /\ commands'[i] = commands[i]
      /\ \A kind, s : Queued(kind, s, commands') <=> m = Message(kind, s) \/ Queued(kind, s, commands)
  <2>1. m \in CommandMessage /\ commands' = Append(commands, m)
    BY Zenon, <1>1, <1>2
  <2> HIDE DEF m
  <2> QED  BY <1>3, <2>1, QueuedAppend
<1> HIDE DEF m
<1>5. NodeTypeOK'
  <2>1. Len(commands') <= CommandCapacity
    <3>1. /\ Len(commands) < CommandCapacity /\ CommandCapacity \in Nat
          /\ Len(commands) \in Nat /\ Len(commands') = Len(commands) + 1
      BY Zenon, <1>1, <1>4, NodeAssumption
    <3> QED  BY <3>1
  <2>2. sending' => outbox' # <<>>
    BY Zenon, <1>2
  <2> QED  BY Zenon, <1>1, <2>1, <2>2 DEF NodeInv, NodeTypeOK
<1>6. ChannelTypeOK'
  BY Zenon, <1>1, <1>2, <1>4 DEF NodeInv, ChannelTypeOK
<1>7. EndedIsEmpty'
  BY Zenon, <1>1, <1>2 DEF NodeInv, EndedIsEmpty, NodeTypeOK
<1>8. \A x : Unprepared(x)' <=> Unprepared(x)
  BY Zenon, <1>1, <1>2 DEF Unprepared
<1>9. \A i \in DOMAIN commands : commands[i].kind # "Prepare"
  BY Zenon, <1>1 DEF NodeInv, PrepareInProgress
<1>10. \A i \in DOMAIN commands' : commands'[i].kind = "Prepare" =>
          m.kind = "Prepare" /\ i = Len(commands') /\ Unprepared(commands'[i].session)
  BY Zenon, <1>2, <1>4, <1>9
<1>11. ASSUME NEW i \in DOMAIN outbox', outbox'[i].kind = "Prepare"
       PROVE  /\ i = Len(outbox') /\ Unprepared(outbox'[i].session)
              /\ \A j \in DOMAIN commands' : commands'[j].kind # "Prepare"
  <2>1. outbox' # <<>>
    BY <1>11
  <2>2. m.kind # "Prepare"
    BY Zenon, <1>2, <2>1
  <2> QED  BY Zenon, <1>2, <1>10, <1>11, <2>2
<1>12. PrepareInProgress'
  <2>1. preparing' = NoSession => replying' = NoSession /\ reply' = "none"
    BY Zenon, <1>1, <1>2 DEF NodeInv, PrepareInProgress
  <2>2. preparing' # NoSession =>
           Running' /\ ~sending' /\ \A i \in DOMAIN outbox' : outbox'[i].kind = "Prepare"
    BY Zenon, <1>1, <1>2 DEF NodeInv, PrepareInProgress, Running
  <2>3. Running' /\ ~Busy' => outbox' = <<>>
    BY Zenon, <1>2 DEF Running, Busy
  <2>4. replying' # NoSession =>
           replying' = preparing' /\ reply' = "none" /\ replying' \in deviceSessions'
    BY Zenon, <1>1, <1>2 DEF NodeInv, PrepareInProgress
  <2> QED  BY Zenon, <1>2, <1>8, <1>10, <1>11, <2>1, <2>2, <2>3, <2>4 DEF PrepareInProgress
<1>13. \A x : Removal(x, commands') \/ Removal(x, outbox') <=> Removal(x, commands) \/ Removal(x, outbox)
  BY Zenon, <1>2, <1>4 DEF Removal
<1>14. \A x : OnDevice(x)' <=> OnDevice(x)
  BY Zenon, <1>1 DEF OnDevice, Pending
<1>15. SessionsOnDevice'
  BY Zenon, <1>1, <1>2, <1>8, <1>13, <1>14 DEF NodeInv, SessionsOnDevice, Removal
<1> QED  BY <1>2, <1>5, <1>6, <1>7, <1>12, <1>15 DEF NodeInv

\* The device is gone: a command is dropped, and a Prepare answered with an
\* error.
LEMMA NodeInvSendFails ==
    ASSUME NodeInv, EndpointTypeOK', NodeSendFails
    PROVE  NodeInv'
<1> DEFINE m == Head(outbox)
<1>1. /\ outbox # <<>> /\ device = "stopped" /\ outbox' = Tail(outbox)
      /\ reply' = IF m.kind = "Prepare" THEN "err" ELSE reply
      /\ IF sending /\ Len(outbox) = 1 THEN CommandsSent ELSE UNCHANGED vars
      /\ UNCHANGED <<device, deviceSessions, authenticated, reporting, replying, commands, events>>
  BY Zenon DEF NodeSendFails, deviceVars
<1>2. /\ m \in CommandMessage /\ outbox' \in Seq(CommandMessage)
      /\ UNCHANGED <<sessions, generation, preparing>>
      /\ sending' => sending /\ outbox' # <<>>
      /\ generation = "running" /\ preparing = NoSession => (~sending' => outbox' = <<>>)
      /\ \A s : Removal(s, outbox') => Removal(s, outbox)
      /\ \A i \in DOMAIN outbox' : i + 1 \in DOMAIN outbox /\ outbox'[i] = outbox[i + 1]
      /\ m.kind = "Prepare" => outbox' = <<>> /\ Unprepared(m.session)
      /\ \A i \in DOMAIN outbox' : outbox'[i].kind = "Prepare" =>
            /\ i = Len(outbox') /\ Unprepared(outbox'[i].session)
            /\ \A j \in DOMAIN commands : commands[j].kind # "Prepare"
  BY Zenon, <1>1, OutboxTail
<1>3. m.session \in Session
  BY Zenon, <1>2 DEF CommandMessage
<1> HIDE DEF m
<1>4. commands = <<>> /\ replying = NoSession /\ DOMAIN <<>> = {}
  BY Zenon, <1>1, EmptyQueue DEF NodeInv, EndedIsEmpty
<1>5. NodeTypeOK'
  BY Zenon, <1>1, <1>2 DEF NodeInv, NodeTypeOK
<1>6. ChannelTypeOK'
  BY Zenon, <1>1, <1>2 DEF NodeInv, ChannelTypeOK
<1>7. EndedIsEmpty'
  BY Zenon, <1>1, <1>2, <1>4 DEF NodeInv, EndedIsEmpty
<1>8. m.kind = "Prepare" => preparing # NoSession
  BY Zenon, <1>2, <1>3, EndpointAssumption DEF Unprepared
<1>9. m.kind # "Prepare" => \A x : Unprepared(x)' <=> Unprepared(x)
  BY Zenon, <1>1, <1>2 DEF Unprepared
<1>10. PrepareInProgress'
  <2>1. preparing' = NoSession => replying' = NoSession /\ reply' = "none"
    BY ZenonT(30), <1>1, <1>2, <1>8 DEF NodeInv, PrepareInProgress
  <2>2. preparing' # NoSession =>
           Running' /\ ~sending' /\ \A i \in DOMAIN outbox' : outbox'[i].kind = "Prepare"
    BY <1>2 DEF NodeInv, PrepareInProgress, Running
  <2>3. Running' /\ ~Busy' => outbox' = <<>>
    BY <1>2 DEF Running, Busy
  <2>4. DOMAIN commands' = {} /\ replying' = NoSession
    BY Zenon, <1>1, <1>4
  <2>5. ASSUME NEW i \in DOMAIN outbox', outbox'[i].kind = "Prepare"
        PROVE  /\ i = Len(outbox')
               /\ preparing' = outbox'[i].session /\ replying' # outbox'[i].session
               /\ reply' = "none"
    <3>1. m.kind # "Prepare"
      BY Zenon, <1>2, <1>4, <2>5
    <3>2. i = Len(outbox') /\ Unprepared(outbox'[i].session)
      BY <1>2, <2>5
    <3> QED  BY Zenon, <1>1, <1>2, <3>1, <3>2 DEF Unprepared
  <2> QED  BY Zenon, <2>1, <2>2, <2>3, <2>4, <2>5 DEF PrepareInProgress, Unprepared
<1>11. \A x : ~Removal(x, commands')
  BY Zenon, <1>1, <1>4, EmptyQueue
<1>12. \A x : Removal(x, outbox') => m.kind # "Prepare"
  BY <1>2, EmptyQueue
<1>13. device' # "running"
  BY Zenon, <1>1
<1>14. SessionsOnDevice'
  BY Zenon, <1>1, <1>2, <1>9, <1>11, <1>12, <1>13 DEF NodeInv, SessionsOnDevice, Removal
<1> QED  BY Zenon, <1>2, <1>5, <1>6, <1>7, <1>10, <1>14 DEF NodeInv

\* The end of a generation, in order or not, leaves nothing behind.
LEMMA NodeInvStop ==
    ASSUME NodeInv, EndpointTypeOK',
           generation' = "stopped", sessions' = EmptyMap, preparing' = NoSession, ~sending',
           device' = "stopped", deviceSessions' = {}, authenticated' = {},
           reporting' = <<>>, replying' = NoSession,
           commands' = <<>>, outbox' = <<>>, events' = <<>>, reply' = "none"
    PROVE  NodeInv'
<1>1. /\ <<>> \in Seq(CommandMessage) /\ <<>> \in Seq(EventMessage)
      /\ Len(<<>>) = 0 /\ DOMAIN <<>> = {}
  BY Zenon, EmptyQueue
<1>2. NodeTypeOK'
  BY <1>1, NodeAssumption DEF NodeTypeOK
<1>3. ChannelTypeOK'
  BY <1>1 DEF ChannelTypeOK
<1>4. DOMAIN sessions' = {}
  BY DEF EmptyMap
<1>6. EndedIsEmpty'
  BY Zenon DEF EndedIsEmpty
<1>7. PrepareInProgress'
  BY Zenon, <1>1 DEF PrepareInProgress
<1>8. SessionsOnDevice'
  BY Zenon, <1>4 DEF SessionsOnDevice
<1> QED  BY Zenon, <1>2, <1>3, <1>6, <1>7, <1>8 DEF NodeInv

\* The generation ends.
LEMMA NodeInvEnd ==
    ASSUME NodeInv, EndpointTypeOK', NodeStopped \/ NodeAbort
    PROVE  NodeInv'
<1>1. PICK left : Stop(left)
  BY Zenon DEF NodeStopped, NodeAbort, Stopped, Abort, ExpireFails
<1>2. /\ generation' = "stopped" /\ sessions' = EmptyMap /\ preparing' = NoSession /\ ~sending'
  BY <1>1 DEF Stop
<1>3. /\ device' = "stopped" /\ deviceSessions' = {} /\ authenticated' = {}
      /\ reporting' = <<>> /\ replying' = NoSession
      /\ commands' = <<>> /\ outbox' = <<>> /\ events' = <<>> /\ reply' = "none"
  <2>1. CASE NodeAbort
    BY <2>1 DEF NodeAbort, NoDevice
  <2>2. CASE NodeStopped
    BY <2>2 DEF NodeStopped, deviceVars, NodeInv, EndedIsEmpty, NodeTypeOK
  <2> QED  BY <2>1, <2>2
<1> QED  BY <1>2, <1>3, NodeInvStop

\* A generation starts, or nothing but the clock or stale rules changes.
LEMMA NodeInvQuiet ==
    ASSUME NodeInv, EndpointTypeOK', StoppedIsEmpty, NodeStart \/ NodeIdle \/ UNCHANGED nodeVars
    PROVE  NodeInv'
<1>1. /\ UNCHANGED <<sessions, preparing, sending>>
      /\ UNCHANGED <<deviceSessions, authenticated, reporting, replying, outbox, reply, commands, events>>
  BY Zenon DEF NodeStart, NodeIdle, Start, StartFails, Tick, nodeVars, vars, managerVars, loopVars,
         mainVars, deviceVars
<1>2. \/ generation = "stopped" /\ generation' = "running" /\ device' = "running"
      \/ UNCHANGED <<generation, device>>
  BY Zenon DEF NodeStart, NodeIdle, Start, StartFails, Tick, nodeVars, vars, deviceVars
<1>3. generation = "stopped" => DOMAIN sessions = {} /\ outbox = <<>> /\ reply # "ok"
  BY Zenon DEF StoppedIsEmpty, EmptyMap, NodeInv, EndedIsEmpty, PrepareInProgress, Running
<1>4. NodeTypeOK'
  BY <1>1, <1>2 DEF NodeInv, NodeTypeOK
<1>5. ChannelTypeOK'
  BY Zenon, <1>1 DEF NodeInv, ChannelTypeOK
<1>6. EndedIsEmpty'
  BY Zenon, <1>1, <1>2 DEF NodeInv, EndedIsEmpty
<1>7. \A x : Unprepared(x)' <=> Unprepared(x)
  BY Zenon, <1>1 DEF Unprepared
<1>8. PrepareInProgress'
  BY Zenon, <1>1, <1>2, <1>3, <1>7 DEF NodeInv, PrepareInProgress, Running, Busy
<1>9. \A x : OnDevice(x)' <=> OnDevice(x)
  BY Zenon, <1>1 DEF OnDevice, Pending
<1>10. SessionsOnDevice'
  BY Zenon, <1>1, <1>2, <1>3, <1>7, <1>9 DEF NodeInv, SessionsOnDevice, Removal
<1> QED  BY Zenon, <1>1, <1>4, <1>5, <1>6, <1>8, <1>10 DEF NodeInv

-------------------------------------------------------------------------------
(* The node implements the endpoint, and its sessions are on the device *)

\* The node keeps NodeInv, and with it the endpoint's own invariant.
LEMMA NodeInvStep == NodeInv /\ AgreeInv /\ [NodeNext]_nodeVars => NodeInv' /\ AgreeInv'
<1> SUFFICES ASSUME NodeInv, AgreeInv, [NodeNext]_nodeVars
             PROVE  NodeInv' /\ AgreeInv'
  OBVIOUS
<1>1. [Next]_vars
  BY NodeRefines DEF NodeInv
<1>2. AgreeInv'
  BY <1>1, AgreeStep
<1>3. EndpointTypeOK' /\ StoppedIsEmpty
  BY <1>2 DEF AgreeInv
<1> SUFFICES NodeInv'
  BY <1>2
<1>4. CASE NodeTicket
  BY <1>3, <1>4, NodeInvTicket
<1>5. CASE NodeInbound
  BY Zenon, <1>3, <1>5, NodeInvInbound
<1>6. CASE NodePrepared
  BY <1>3, <1>6, NodeInvPrepared
<1>7. CASE NodePoll \/ NodeShutdown \/ NodeDrained
  BY ZenonT(30), <1>3, <1>7, NodeInvExpire DEF NodeDrained
<1>8. CASE NodeEvent
  BY <1>3, <1>8, NodeInvEvent
<1>9. CASE NodeSend
  BY <1>3, <1>9, NodeInvSend
<1>10. CASE NodeSendFails
  BY <1>3, <1>10, NodeInvSendFails
<1>11. CASE NodeStopped \/ NodeAbort \/ NodeRemoveFails
  BY <1>3, <1>11, NodeInvEnd DEF NodeRemoveFails
<1>12. CASE NodeStart \/ NodeIdle \/ UNCHANGED nodeVars
  BY <1>3, <1>12, NodeInvQuiet
<1>13. CASE DeviceStep
  BY <1>13, NodeInvCommand, NodeInvReport, NodeInvReply DEF DeviceStep
<1>14. CASE DeviceStop
  BY <1>14, NodeInvDeviceStop
<1>15. CASE DeviceMissingRoute \/ \E s \in Session : DeviceFail(s)
  BY <1>15, NodeInvFail
<1> QED
  BY Zenon, <1>4, <1>5, <1>6, <1>7, <1>8, <1>9, <1>10, <1>11, <1>12, <1>13, <1>14, <1>15
  DEF NodeNext, MainStep

\* NodeInv holds initially.
LEMMA NodeInvInit == NodeInit => NodeInv /\ AgreeInv
<1> SUFFICES ASSUME NodeInit
             PROVE  NodeInv /\ AgreeInv
  OBVIOUS
<1>1. AgreeInv
  BY AgreeInit DEF NodeInit
<1>2. /\ generation = "stopped" /\ preparing = NoSession /\ sending = FALSE
      /\ sessions = EmptyMap
  BY DEF NodeInit, Init, ManagerNew
<1>3. DOMAIN sessions = {}
  BY <1>2 DEF EmptyMap
<1>5. /\ <<>> \in Seq(CommandMessage) /\ <<>> \in Seq(EventMessage)
      /\ Len(<<>>) = 0 /\ DOMAIN <<>> = {}
  BY EmptyQueue
<1>6. NodeTypeOK /\ ChannelTypeOK
  BY <1>1, <1>2, <1>5, NodeAssumption DEF NodeInit, NodeTypeOK, ChannelTypeOK, AgreeInv
<1>7. EndedIsEmpty
  BY DEF NodeInit, EndedIsEmpty
<1>8. PrepareInProgress
  BY <1>2, <1>5 DEF NodeInit, PrepareInProgress
<1>9. SessionsOnDevice
  BY <1>2, <1>3 DEF NodeInit, SessionsOnDevice
<1> QED  BY <1>1, <1>6, <1>7, <1>8, <1>9 DEF NodeInv

\* NodeInv and the endpoint's invariant hold throughout.
LEMMA NodeInvAlways == NodeSpec => [](NodeInv /\ AgreeInv)
<1> QED  BY NodeInvInit, NodeInvStep, PTL DEF NodeSpec

\* The node with its device and its channels implements ShortcutEndpoint: all
\* that is proved of the control plane over an arbitrary device holds here.
THEOREM NodeImplementsEndpoint == NodeSpec => ImplementsEndpoint
<1>1. NodeInit => Init
  BY DEF NodeInit
<1>2. NodeInv /\ [NodeNext]_nodeVars => [Next]_vars
  BY NodeRefines DEF NodeInv
<1> QED  BY <1>1, <1>2, NodeInvAlways, PTL DEF NodeSpec, Spec, ImplementsEndpoint

\* A session that was handed to the running device is there, or its failure is
\* on its way to the main loop: through full channels, a refused Prepare, a
\* tunnel that gives up and replayed tickets.
THEOREM SessionsAreOnDevice == NodeSpec => []DeviceBacked
<1>1. NodeInv => DeviceBacked
  BY Zenon DEF NodeInv, DeviceBacked, SessionsOnDevice, OnDevice, Pending
<1> QED  BY <1>1, NodeInvAlways, PTL
===============================================================================
