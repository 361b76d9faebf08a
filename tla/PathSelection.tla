---------------------------- MODULE PathSelection ----------------------------
(***************************************************************************)
(* Which relay path carries a peer's WireGuard packets: the PathSet and    *)
(* the peer broker (broker.rs), the availability flags of the metrics      *)
(* registry (metrics.rs), the relays that set them (easytier.rs), and the  *)
(* management console that shows and changes the choice (management.rs).   *)
(* One peer is modelled; peers share nothing here but the locks.           *)
(*                                                                         *)
(* Every generation has a path set of its own.  The console reaches path   *)
(* sets through a map that replace_generation exchanges while requests are *)
(* served, so a handler is split where it awaits a lock.                   *)
(***************************************************************************)
EXTENDS Naturals, Sequences, Functions

CONSTANTS
    Targets,         \* PathSet.targets: the path ids in configuration order
    NoPath,          \* no selection: automatic fallback
    Client,          \* concurrent console requests
    Overlap,         \* requests and generation changes may overlap
    MaxGeneration    \* bound on the number of generations

Path == Range(Targets)
Choice == Path \cup {NoPath}
Generation == 1 .. MaxGeneration

ASSUME PathAssumption ==
    /\ Targets \in Seq(Path) /\ IsInjective(Targets)
    /\ NoPath \notin Path
    /\ Overlap \in BOOLEAN
    /\ MaxGeneration \in Nat \ {0}

VARIABLES
    available,     \* paths whose metrics say available
    running,       \* paths whose relay task still takes packets
    generation,    \* the running generation, 0 before the first
    selected,      \* generation -> PathSet.selected
    managed,       \* generation whose path set the console's map holds, or 0
    replacing,     \* stage of replace_generation
    previous,      \* the selection replace_generation read
    request,       \* client -> the console request it has in progress
    answered,      \* the last selection a client was told is in force
    broker,        \* the peer's broker task runs
    carrier        \* path that took the last packet, or NoPath

pathVars == <<available, running, generation, selected, managed, replacing,
              previous, request, answered, broker, carrier>>

Idle == [stage |-> "idle", path |-> NoPath, set |-> 0]

PathTypeOK ==
    /\ available \subseteq Path
    /\ running \subseteq Path
    /\ generation \in 0 .. MaxGeneration
    /\ selected \in [Generation -> Choice]
    /\ managed \in 0 .. generation
    /\ replacing \in {"no", "read", "select", "publish"}
    /\ previous \in Choice
    /\ request \in [Client -> [stage : {"idle", "found", "checked"},
                               path : Choice, set : 0 .. generation]]
    /\ answered \in Choice
    /\ broker \in BOOLEAN
    /\ carrier \in Choice

PathInit ==
    /\ available = {}
    /\ running = {}
    /\ generation = 0
    /\ selected = [g \in Generation |-> NoPath]
    /\ managed = 0
    /\ replacing = "no"
    /\ previous = NoPath
    /\ request = [c \in Client |-> Idle]
    /\ answered = NoPath
    /\ broker = FALSE
    /\ carrier = NoPath

-------------------------------------------------------------------------------
\* PathSet::ordered_targets: the selected target trades places with the first.
ordered_targets(choice) ==
    IF choice = NoPath THEN Targets
    ELSE LET index == CHOOSE i \in DOMAIN Targets : Targets[i] = choice
         IN  [i \in DOMAIN Targets |->
                 CASE i = 1 -> Targets[index]
                   [] i = index -> Targets[1]
                   [] OTHER -> Targets[i]]

\* Mutant: availability is ignored.
RankSelectedOnly(path, choice) == IF path = choice THEN 0 ELSE 1

\* The sort key of ordered_healthy_targets.
Rank(path, choice) ==
    (IF path = choice THEN 0 ELSE 1) + (IF path \in available THEN 0 ELSE 2)

Position(paths, path) == CHOOSE i \in DOMAIN paths : paths[i] = path

\* ordered_healthy_targets puts one path before another.  sort_by_key is
\* stable: paths of equal rank keep their order.
TriedBefore(path, other, choice) ==
    LET order == ordered_targets(choice)
    IN  \/ Rank(path, choice) < Rank(other, choice)
        \/ /\ Rank(path, choice) = Rank(other, choice)
           /\ Position(order, path) < Position(order, other)

\* The path that takes the next packet: the first whose queue is still open.
Carrier(choice) ==
    IF running = {} THEN NoPath
    ELSE CHOOSE path \in running :
            \A other \in running \ {path} : TriedBefore(path, other, choice)

\* The first available path in the order of the configuration.
FirstAvailable ==
    IF available = {} THEN NoPath
    ELSE CHOOSE path \in available :
            \A other \in available : Position(Targets, path) <= Position(Targets, other)

\* Mutant: the console ignores the selection.
active_path_automatic(choice) == FirstAvailable

\* ManagementState::snapshot: the active path the console shows.
active_path(choice) == IF choice \in available THEN choice ELSE FirstAvailable

-------------------------------------------------------------------------------
\* The broker forwards a packet from WireGuard.
Forward ==
    /\ broker
    /\ Carrier(selected[generation]) # NoPath
    /\ carrier' = Carrier(selected[generation])
    /\ UNCHANGED <<available, running, generation, selected, managed, replacing,
                   previous, request, answered, broker>>

\* Every relay has stopped: the broker drops the packet.  With no relay
\* configured it goes on; otherwise the error ends it.
ForwardFails ==
    /\ broker
    /\ Carrier(selected[generation]) = NoPath
    /\ carrier' = NoPath
    /\ broker' = (Targets = <<>>)
    /\ UNCHANGED <<available, running, generation, selected, managed, replacing,
                   previous, request, answered>>

\* A relay's refresh resolves the peer or not; a failed send and a probe
\* reply set the flag too.
SetAvailable(path) ==
    /\ path \in running
    /\ \E now_available \in {available \cup {path}, available \ {path}} :
          available' = now_available
    /\ UNCHANGED <<running, generation, selected, managed, replacing,
                   previous, request, answered, broker, carrier>>

\* run_relay returns.  Nobody resets the flag of its paths.
RelayStops(path) ==
    /\ path \in running
    /\ running' = running \ {path}
    /\ UNCHANGED <<available, generation, selected, managed, replacing,
                   previous, request, answered, broker, carrier>>

-------------------------------------------------------------------------------
\* select_path, first await: the peer's path set is looked up in the map.
Find(c, path) ==
    /\ request[c] = Idle
    /\ managed # 0
    /\ Overlap \/ replacing = "no"
    /\ request' = [request EXCEPT ![c] =
            [stage |-> IF path = NoPath THEN "checked" ELSE "found",
             path |-> path, set |-> managed]]
    /\ UNCHANGED <<available, running, generation, selected, managed, replacing,
                   previous, answered, broker, carrier>>

\* Second await: an unavailable path is refused.
Check(c) ==
    /\ request[c].stage = "found"
    /\ request' = [request EXCEPT ![c] =
            IF @.path \in available THEN [@ EXCEPT !.stage = "checked"] ELSE Idle]
    /\ UNCHANGED <<available, running, generation, selected, managed, replacing,
                   previous, answered, broker, carrier>>

\* Third await: the path set is changed and the client told.
Select(c) ==
    /\ request[c].stage = "checked"
    /\ selected' = [selected EXCEPT ![request[c].set] = request[c].path]
    /\ answered' = request[c].path
    /\ request' = [request EXCEPT ![c] = Idle]
    /\ UNCHANGED <<available, running, generation, managed, replacing,
                   previous, broker, carrier>>

-------------------------------------------------------------------------------
\* The supervisor replaces the generation: new path sets, brokers and relays.
StartGeneration ==
    /\ generation < MaxGeneration
    /\ replacing = "no"
    /\ Overlap \/ \A c \in Client : request[c] = Idle
    /\ generation' = generation + 1
    /\ running' = Path
    /\ broker' = TRUE
    /\ replacing' = "read"
    /\ UNCHANGED <<available, selected, managed, previous, request, answered, carrier>>

\* replace_generation reads the old selection; try_read gives up where a
\* request is about to write it.
ReadPrevious ==
    /\ replacing = "read"
    /\ previous' \in
          (IF managed = 0 THEN {NoPath} ELSE {selected[managed]}) \cup
          {NoPath : c \in {c \in Client : request[c].stage = "checked"
                                          /\ request[c].set = managed}}
    /\ replacing' = "select"
    /\ UNCHANGED <<available, running, generation, selected, managed,
                   request, answered, broker, carrier>>

\* Mutant: the new generation starts without the old selection.
CarryOverNothing ==
    /\ replacing = "select"
    /\ replacing' = "publish"
    /\ UNCHANGED <<available, running, generation, selected, managed,
                   previous, request, answered, broker, carrier>>

\* It selects the same path in the new path set.
CarryOver ==
    /\ replacing = "select"
    /\ selected' = IF previous = NoPath THEN selected
                   ELSE [selected EXCEPT ![generation] = previous]
    /\ replacing' = "publish"
    /\ UNCHANGED <<available, running, generation, managed,
                   previous, request, answered, broker, carrier>>

\* It exchanges the console's map.
Publish ==
    /\ replacing = "publish"
    /\ managed' = generation
    /\ replacing' = "no"
    /\ previous' = NoPath
    /\ UNCHANGED <<available, running, generation, selected,
                   request, answered, broker, carrier>>

PathNext ==
    \/ Forward
    \/ ForwardFails
    \/ \E path \in Path : SetAvailable(path)
    \/ \E path \in Path : RelayStops(path)
    \/ \E c \in Client, path \in Choice : Find(c, path)
    \/ \E c \in Client : Check(c)
    \/ \E c \in Client : Select(c)
    \/ StartGeneration
    \/ ReadPrevious
    \/ CarryOver
    \/ Publish

PathSpec == PathInit /\ [][PathNext]_pathVars

-------------------------------------------------------------------------------
Settled == replacing = "no" /\ \A c \in Client : request[c] = Idle

\* A selection that the console has confirmed is the one the running broker
\* uses: across generations, and when several requests race (management.rs:64,
\* 171).
AnsweredInForce ==
    /\ PathTypeOK
    /\ Settled /\ generation # 0 => selected[generation] = answered

\* Moving the selected path to the front loses and repeats none, and a packet
\* goes to a healthy path whenever the relay of one is running: to the selected
\* one if that is healthy (broker.rs:55, 174).
HealthyCarrier ==
    \A choice \in Choice :
        /\ Range(ordered_targets(choice)) = Path /\ IsInjective(ordered_targets(choice))
        /\ available \cap running # {} => Carrier(choice) \in available
        /\ choice \in available \cap running => Carrier(choice) = choice

\* The path the console shows as active is the one the broker sends on, while
\* every available path is running and the selection, if there is one, is
\* healthy (management.rs:128, broker.rs:55).
ActiveShownWhenHealthy ==
    /\ available \subseteq running
    /\ broker /\ managed = generation
    /\ generation # 0 /\ selected[generation] \in available \cup {NoPath}
    => LET shown == active_path(selected[generation])
       IN  shown # NoPath => Carrier(selected[generation]) = shown

\* The path set the console holds has the confirmed selection, and
\* replace_generation carries it over.
SelectionCarried ==
    /\ broker => generation # 0
    /\ IF managed = 0 THEN answered = NoPath ELSE selected[managed] = answered
    /\ \A g \in Generation : g > generation => selected[g] = NoPath
    /\ IF replacing = "no"
       THEN /\ managed = generation
            /\ \A c \in Client : request[c].stage # "idle" => request[c].set = managed /\ managed # 0
       ELSE /\ generation = managed + 1
            /\ \A c \in Client : request[c] = Idle
    /\ replacing \in {"read", "select"} => selected[generation] = NoPath
    /\ replacing = "select" => previous = answered
    /\ replacing = "publish" => selected[generation] = answered

\* Why a confirmed selection is in force while requests and changes of
\* generation do not overlap, as an inductive invariant.
SelectionInv == PathTypeOK /\ SelectionCarried
===============================================================================
