------------------------- MODULE GenerationSupervisor -------------------------
(***************************************************************************)
(* The supervisor loop of `main` (main.rs), the generations it starts and  *)
(* replaces, and the tasks each generation spawns.  The supervisor reads   *)
(* the WireGuard state with one `wg show` per attribute, compares it with  *)
(* the key of the running generation, and replaces the generation when it  *)
(* differs: it cancels the old one and awaits its end.                     *)
(*                                                                         *)
(* A generation that is cancelled leaves its loop and awaits its tasks one *)
(* after the other.  It still owns the receivers of their queues but no    *)
(* longer drains them, so a task that waits for room in one does not come  *)
(* back to its select and never sees the cancellation.  A generation that  *)
(* fails returns at once: its receivers are dropped, which ends such a     *)
(* wait, and its tasks are left to themselves.  The relay's own queue, of  *)
(* discovered candidates, belongs to the relay task, which awaits the      *)
(* discovery task in the same way in either case.                          *)
(***************************************************************************)
EXTENDS Naturals, FiniteSets

CONSTANTS
    Task,            \* kinds of tasks: all of AllTasks, or some of them
    Config,          \* WireGuard configurations: functions from peers to AllowedIPs
    NoIps,           \* the AllowedIPs of a peer without an entry
    NoKey,           \* active_key is None
    MayBlock,        \* tasks that may find their queue full
    MayFail,         \* tasks that may end on their own
    MaxGeneration,   \* bound on the number of generations
    MaxChanges,      \* bound on the changes of the WireGuard interface
    MaxFailures      \* bound on the failures of generations and tasks

AllTasks == {"device", "control", "broker", "dispatcher", "relay"}
Generations == 1 .. MaxGeneration

\* snapshot reads the AllowedIPs and, in a later command, the list of peers.
\* A peer of the list that was not there at the first command has none.
KeyOf(first, second) ==
    [p \in DOMAIN second |-> IF p \in DOMAIN first THEN first[p] ELSE NoIps]

Snapshots == {KeyOf(c, d) : c, d \in Config}
Keys == Snapshots \cup {NoKey}

ASSUME SupervisorAssumption ==
    /\ Task \subseteq AllTasks
    /\ Config # {}
    /\ NoKey \notin Snapshots
    /\ MayBlock \subseteq Task
    /\ MayFail \subseteq Task
    /\ MaxGeneration \in Nat
    /\ MaxChanges \in Nat
    /\ MaxFailures \in Nat

VARIABLES
    config,       \* the interface's configuration
    readable,     \* `wg show` succeeds
    roamed,       \* WireGuard has moved a managed endpoint
    changes,      \* changes of the interface so far
    supervisor,   \* stage of the supervisor's loop
    allowed_ips,  \* the configuration that `wg show allowed-ips` saw
    new_key,      \* the key the supervisor is about to start
    active_key,
    generation,   \* number of the generation the supervisor holds, or 0
    started,      \* generations started so far
    stage,        \* generation -> how far run_generation is
    key,          \* generation -> its key
    cancelled,    \* generations whose token is cancelled
    failed,       \* generations that returned an error
    task,         \* generation -> task -> its state
    failures      \* failures so far

wgVars == <<config, readable, roamed, changes>>
mainVars == <<supervisor, allowed_ips, new_key, active_key, generation, started>>
genVars == <<stage, key, cancelled, failed, task, failures>>
superVars == <<wgVars, mainVars, genVars>>

Stage == {"none", "setup", "running", "draining", "grace", "finished"}

SupervisorTypeOK ==
    /\ config \in Config
    /\ readable \in BOOLEAN
    /\ roamed \in BOOLEAN
    /\ supervisor \in {"read", "peers", "replace", "check"}
    /\ allowed_ips \in Config
    /\ {new_key, active_key} \subseteq Keys
    /\ generation \in 0 .. started
    /\ started \in 0 .. MaxGeneration
    /\ stage \in [Generations -> Stage]
    /\ key \in [Generations -> Keys]
    /\ cancelled \subseteq Generations
    /\ failed \subseteq Generations
    /\ task \in [Generations -> [Task -> {"none", "runs", "blocked", "ended"}]]

SupervisorInit ==
    /\ config \in Config
    /\ readable = TRUE
    /\ roamed = FALSE
    /\ changes = 0
    /\ supervisor = "read"
    /\ allowed_ips = config
    /\ new_key = NoKey
    /\ active_key = NoKey
    /\ generation = 0
    /\ started = 0
    /\ stage = [g \in Generations |-> "none"]
    /\ key = [g \in Generations |-> NoKey]
    /\ cancelled = {}
    /\ failed = {}
    /\ task = [g \in Generations |-> [t \in Task |-> "none"]]
    /\ failures = 0

-------------------------------------------------------------------------------
ReadAllowed ==
    /\ supervisor = "read"
    /\ readable
    /\ allowed_ips' = config
    /\ supervisor' = "peers"
    /\ UNCHANGED <<wgVars, new_key, active_key, generation, started, genVars>>

\* Either command fails: the supervisor only warns.
ReadFails ==
    /\ supervisor \in {"read", "peers"}
    /\ ~readable
    /\ supervisor' = "check"
    /\ UNCHANGED <<wgVars, allowed_ips, new_key, active_key, generation, started, genVars>>

\* tokio::spawn(run_generation).
Spawn(k) ==
    /\ started < MaxGeneration
    /\ started' = started + 1
    /\ generation' = started + 1
    /\ active_key' = k
    /\ stage' = [stage EXCEPT ![started + 1] = "setup"]
    /\ key' = [key EXCEPT ![started + 1] = k]
    /\ supervisor' = "check"
    /\ UNCHANGED <<wgVars, allowed_ips, cancelled, failed, task, failures>>

\* Mutant: only the list of peers is compared, not their AllowedIPs.
ReadPeersOnly ==
    /\ supervisor = "peers"
    /\ readable
    /\ LET k == KeyOf(allowed_ips, config)
       IN  IF active_key # NoKey /\ DOMAIN k = DOMAIN active_key
           THEN /\ supervisor' = "check"
                /\ UNCHANGED <<wgVars, allowed_ips, new_key, active_key, generation, started,
                               genVars>>
           ELSE IF generation = 0
           THEN Spawn(k) /\ UNCHANGED new_key
           ELSE /\ cancelled' = cancelled \cup {generation}
                /\ new_key' = k
                /\ supervisor' = "replace"
                /\ UNCHANGED <<wgVars, allowed_ips, active_key, generation, started,
                               stage, key, failed, task, failures>>

\* The second command: a key like the active one changes nothing; another is
\* started at once if no generation is held.
ReadPeers ==
    /\ supervisor = "peers"
    /\ readable
    /\ LET k == KeyOf(allowed_ips, config)
       IN  IF k = active_key
           THEN /\ supervisor' = "check"
                /\ UNCHANGED <<wgVars, allowed_ips, new_key, active_key, generation, started,
                               genVars>>
           ELSE IF generation = 0
           THEN Spawn(k) /\ UNCHANGED new_key
           ELSE /\ cancelled' = cancelled \cup {generation}
                /\ new_key' = k
                /\ supervisor' = "replace"
                /\ UNCHANGED <<wgVars, allowed_ips, active_key, generation, started,
                               stage, key, failed, task, failures>>

\* old.task.await returns.
Replace ==
    /\ supervisor = "replace"
    /\ stage[generation] = "finished"
    /\ Spawn(new_key)
    /\ new_key' = NoKey

\* Mutant: the key of a generation that has stopped is not forgotten.
CheckKeepsKey ==
    /\ supervisor = "check"
    /\ supervisor' = "read"
    /\ IF generation # 0 /\ stage[generation] = "finished"
       THEN generation' = 0
       ELSE UNCHANGED generation
    /\ UNCHANGED <<wgVars, allowed_ips, new_key, active_key, started, genVars>>

\* A generation that has finished on its own is dropped with its key; then
\* the loop sleeps.
Check ==
    /\ supervisor = "check"
    /\ supervisor' = "read"
    /\ IF generation # 0 /\ stage[generation] = "finished"
       THEN generation' = 0 /\ active_key' = NoKey
       ELSE UNCHANGED <<generation, active_key>>
    /\ UNCHANGED <<wgVars, allowed_ips, new_key, started, genVars>>

-------------------------------------------------------------------------------
SetTasks(g, T, state) ==
    task' = [task EXCEPT ![g] = [t \in Task |-> IF t \in T THEN state ELSE @[t]]]

\* run_generation_inner up to its loop: endpoints are set and every task is
\* spawned.
SetupDone(g) ==
    /\ stage[g] = "setup"
    /\ stage' = [stage EXCEPT ![g] = "running"]
    /\ SetTasks(g, Task, "runs")
    /\ roamed' = FALSE
    /\ UNCHANGED <<config, readable, changes, mainVars, key, cancelled, failed, failures>>

\* The tasks that run when a step of the setup fails, in the order of spawning.
SpawnedBefore ==
    {T \cap Task : T \in
        {{}, {"broker"}, {"broker", "relay"}, {"broker", "relay", "dispatcher"},
         {"broker", "relay", "dispatcher", "device"}, AllTasks}}

\* An error return, from the setup or from the loop: the token is cancelled
\* and the tasks are not awaited.
Return(g) ==
    /\ stage' = [stage EXCEPT ![g] = "grace"]
    /\ cancelled' = cancelled \cup {g}
    /\ failed' = failed \cup {g}

SetupFails(g, T) ==
    /\ stage[g] = "setup"
    /\ failures < MaxFailures
    /\ failures' = failures + 1
    /\ Return(g)
    /\ SetTasks(g, T, "runs")
    /\ UNCHANGED <<wgVars, mainVars, key>>

\* Mutant: the poll reads the endpoints only.
PollReadsOnly(g) ==
    /\ stage[g] = "running"
    /\ g \notin cancelled
    /\ readable
    /\ UNCHANGED superVars

\* The poll arm puts the managed endpoints back.
Poll(g) ==
    /\ stage[g] = "running"
    /\ g \notin cancelled
    /\ readable
    /\ roamed' = FALSE
    /\ UNCHANGED <<config, readable, changes, mainVars, genVars>>

\* The poll arm cannot read the interface, or another `?` of the loop fails.
LoopFails(g) ==
    /\ stage[g] = "running"
    /\ g \notin cancelled
    /\ IF readable
       THEN failures < MaxFailures /\ failures' = failures + 1
       ELSE UNCHANGED failures
    /\ Return(g)
    /\ UNCHANGED <<wgVars, mainVars, key, task>>

\* The loop ends because of the cancellation, or because the device task has
\* ended and its event queue with it; the generation cancels its tasks.
LeaveLoop(g) ==
    /\ stage[g] = "running"
    /\ g \in cancelled \/ task[g]["device"] = "ended"
    /\ stage' = [stage EXCEPT ![g] = "draining"]
    /\ cancelled' = cancelled \cup {g}
    /\ UNCHANGED <<wgVars, mainVars, key, failed, task, failures>>

\* Mutant: the relays are not awaited.
DrainedWithoutRelays(g) ==
    /\ stage[g] = "draining"
    /\ \A t \in Task \ {"relay"} : task[g][t] = "ended"
    /\ stage' = [stage EXCEPT ![g] = "grace"]
    /\ UNCHANGED <<wgVars, mainVars, key, cancelled, failed, task, failures>>

\* Every task has been awaited.
Drained(g) ==
    /\ stage[g] = "draining"
    /\ \A t \in Task : task[g][t] = "ended"
    /\ stage' = [stage EXCEPT ![g] = "grace"]
    /\ UNCHANGED <<wgVars, mainVars, key, cancelled, failed, task, failures>>

\* controller.expire(u64::MAX) fails.
DrainFails(g) ==
    /\ stage[g] = "draining"
    /\ failures < MaxFailures
    /\ failures' = failures + 1
    /\ Return(g)
    /\ UNCHANGED <<wgVars, mainVars, key, task>>

\* The 1.2 seconds at the end of run_generation are over.
Finish(g) ==
    /\ stage[g] = "grace"
    /\ stage' = [stage EXCEPT ![g] = "finished"]
    /\ UNCHANGED <<wgVars, mainVars, key, cancelled, failed, task, failures>>

-------------------------------------------------------------------------------
SetTask(g, t, state) ==
    /\ task' = [task EXCEPT ![g][t] = state]
    /\ UNCHANGED <<wgVars, mainVars, stage, key, cancelled, failed>>

\* A task comes to its select and sees the cancellation.
TaskEnds(g, t) ==
    /\ task[g][t] = "runs"
    /\ g \in cancelled
    /\ SetTask(g, t, "ended")
    /\ UNCHANGED failures

\* A task finds its queue full: device events, control messages, discovered
\* candidates, or packets for a relay.
TaskBlocks(g, t) ==
    /\ t \in MayBlock
    /\ task[g][t] = "runs"
    /\ SetTask(g, t, "blocked")
    /\ UNCHANGED failures

\* The queue's receiver takes an item, or is gone.
Unblocked(g, t) ==
    CASE t \in {"device", "control"} -> stage[g] \in {"running", "grace", "finished"}
      [] t \in {"broker", "dispatcher"} -> task[g]["relay"] # "blocked"
      [] t = "relay" -> g \notin cancelled

TaskUnblocks(g, t) ==
    /\ task[g][t] = "blocked"
    /\ Unblocked(g, t)
    /\ SetTask(g, t, "runs")
    /\ UNCHANGED failures

\* A task returns an error: a port that cannot be bound, a socket error, every
\* path of a peer closed, a relay that does not start.
TaskFails(g, t) ==
    /\ t \in MayFail
    /\ task[g][t] = "runs"
    /\ failures < MaxFailures
    /\ failures' = failures + 1
    /\ SetTask(g, t, "ended")

-------------------------------------------------------------------------------
\* The administrator changes the interface; `wg show` stops or starts
\* working; WireGuard moves an endpoint.
ChangeWireGuard ==
    /\ changes < MaxChanges
    /\ changes' = changes + 1
    /\ \/ config' \in Config \ {config} /\ UNCHANGED <<readable, roamed>>
       \/ readable' = ~readable /\ UNCHANGED <<config, roamed>>
       \/ roamed' = TRUE /\ UNCHANGED <<config, readable>>
    /\ UNCHANGED <<mainVars, genVars>>

SupervisorStep == ReadAllowed \/ ReadFails \/ ReadPeers \/ Replace \/ Check

GenerationStep(g) ==
    \/ SetupDone(g)
    \/ Poll(g)
    \/ LoopFails(g) /\ ~readable
    \/ LeaveLoop(g)
    \/ Drained(g)
    \/ Finish(g)

SupervisorNext ==
    \/ ReadAllowed
    \/ ReadFails
    \/ ReadPeers
    \/ Replace
    \/ Check
    \/ \E g \in 1 .. started : SetupDone(g)
    \/ \E g \in 1 .. started, T \in SpawnedBefore : SetupFails(g, T)
    \/ \E g \in 1 .. started : Poll(g)
    \/ \E g \in 1 .. started : LoopFails(g)
    \/ \E g \in 1 .. started : LeaveLoop(g)
    \/ \E g \in 1 .. started : Drained(g)
    \/ \E g \in 1 .. started : DrainFails(g)
    \/ \E g \in 1 .. started : Finish(g)
    \/ \E g \in 1 .. started, t \in Task : TaskEnds(g, t)
    \/ \E g \in 1 .. started, t \in Task : TaskBlocks(g, t)
    \/ \E g \in 1 .. started, t \in Task : TaskUnblocks(g, t)
    \/ \E g \in 1 .. started, t \in Task : TaskFails(g, t)
    \/ ChangeWireGuard

SupervisorSpec == SupervisorInit /\ [][SupervisorNext]_superVars

\* Every task that can take a step takes it: the supervisor's timer, and the
\* generation's poll and its awaits.  A select chooses among its ready arms at
\* random, so a task that keeps coming back to it sees the cancellation.
SupervisorFairness ==
    /\ WF_superVars(SupervisorStep)
    /\ WF_superVars(\E g \in 1 .. started : GenerationStep(g))
    /\ SF_superVars(\E g \in 1 .. started, t \in Task : TaskEnds(g, t))
    /\ WF_superVars(\E g \in 1 .. started, t \in Task : TaskUnblocks(g, t))

-------------------------------------------------------------------------------
\* The supervisor's two variables tell the same story: a key is active exactly
\* while a generation with that key is held, so a generation that stopped
\* cannot be mistaken for one that runs (main.rs:92-106, 112-123).
KeyMatchesGeneration ==
    /\ SupervisorTypeOK
    /\ active_key = NoKey <=> generation = 0
    /\ generation # 0 => key[generation] = active_key

\* A generation's tasks - its ports, its TUN, its relays - are all gone when
\* the next one is set up, unless the old one returned an error, in which
\* case they have only the grace period (main.rs:95, 448-475).
OrderlyHandover ==
    \A g, h \in Generations :
        g < h /\ stage[g] # "none" /\ stage[h] # "none" /\ g \notin failed =>
            \A t \in Task : task[g][t] = "ended"

\* Why both hold, as an inductive invariant: only the newest generation can be
\* unfinished, and one that got past its loop without an error has seen all its
\* tasks end.
SupervisorInv ==
    /\ KeyMatchesGeneration
    /\ supervisor = "replace" => generation # 0 /\ new_key # NoKey
    /\ generation # 0 => generation = started
    /\ \A g \in Generations :
          /\ stage[g] = "none" <=> g > started
          /\ g <= started /\ g # generation => stage[g] = "finished"
          /\ stage[g] \in {"grace", "finished"} /\ g \notin failed =>
                \A t \in Task : task[g][t] = "ended"

Serving ==
    /\ generation # 0
    /\ stage[generation] = "running"
    /\ generation \notin cancelled
    /\ key[generation] = config

\* A cancelled generation waits for a task that waits for room in a queue
\* nobody drains any more.
Hung ==
    \E g \in 1 .. started :
        /\ stage[g] = "draining"
        /\ \E t \in Task : task[g][t] = "blocked" /\ ~Unblocked(g, t)

\* Once the interface stays readable and unchanged, a generation for exactly
\* its configuration runs and goes on running, although the snapshot may mix
\* two configurations and generations may fail.  The wait of a cancelled
\* generation for a full queue is the only thing that prevents it
\* (main.rs:73-124, 452, wireguard.rs:100).
ConfigAdopted == <>[]readable => <>[](Serving \/ Hung)

\* An endpoint that WireGuard has moved is put back, also when it happens
\* during a change of generation, with the same exception (main.rs:95, 311).
EndpointRestored == roamed /\ []readable ~> ~roamed \/ Hung
===============================================================================
