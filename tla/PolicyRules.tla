------------------------------ MODULE PolicyRules ------------------------------
(***************************************************************************)
(* SystemPolicy (shortcut/policy.rs): the kernel's rules and the dedicated *)
(* table, written by one `ip` command after the other.  Every command may  *)
(* fail, and the process may die between two of them; the next generation  *)
(* starts over with cleanup_stale and ensure_control_bypass.               *)
(*                                                                         *)
(* RouteTable has the same operations as single steps.                     *)
(***************************************************************************)
EXTENDS Naturals

CONSTANTS
    Destination,         \* destination prefixes
    FamilyOf,         \* selector -> "-4" or "-6"
    PriorityOf,       \* selector -> priority: the hash may collide
    ManagedPriority,  \* MANAGED_RULE_PRIORITY_RANGE
    OurTable,         \* DEFAULT_TABLE
    Foreign,          \* rules of other programs
    MaxCrash,         \* bound on crashes and stops
    MaxFail           \* bound on failing commands

Family == {"-4", "-6"}
NoDestination == "none"

RuleType == [family : Family, priority : Nat, match : Destination \cup {"fwmark", "all"}, table : {OurTable, "main", "other"}]

\* rule_arguments
RuleOf(s) == [family |-> FamilyOf[s], priority |-> PriorityOf[s], match |-> s, table |-> OurTable]

Bypass(f) == [family |-> f, priority |-> 0, match |-> "fwmark", table |-> "main"]

ASSUME PolicyAssumption ==
    /\ FamilyOf \in [Destination -> Family]
    /\ PriorityOf \in [Destination -> ManagedPriority]
    /\ ManagedPriority \subseteq Nat \ {0}
    /\ Foreign \subseteq RuleType
    /\ \A x \in Foreign : x.match # "fwmark" /\ ~(x.priority \in ManagedPriority /\ x.table = OurTable)
    /\ OurTable \notin {"main", "other"}
    /\ MaxCrash \in Nat /\ MaxFail \in Nat

VARIABLES
    rules,       \* the kernel's policy rules
    table,       \* families that have a default route to the TUN in the table
    tun,         \* the TUN device exists
    step,        \* what the process does next, and for which family
    todo,        \* rules listed by `ip rule show` and not yet deleted
    installing,  \* the selector whose install is under way
    installed,   \* selectors this generation has installed and not removed
    crashes, fails

policyVars == <<rules, table, tun, step, todo, installing, installed, crashes, fails>>

Steps == [at : {"down", "unbypass", "list", "delete", "bypass", "open", "up"}, family : Family]
Down == [at |-> "down", family |-> "-4"]
Up == [at |-> "up", family |-> "-4"]

PolicyTypeOK ==
    /\ rules \subseteq RuleType
    /\ table \subseteq Family
    /\ tun \in BOOLEAN
    /\ step \in Steps
    /\ todo \subseteq RuleType
    /\ todo # {} => step.at = "delete"
    /\ installing \in Destination \cup {NoDestination}
    /\ installed \subseteq Destination

PolicyInit ==
    /\ rules = Foreign
    /\ table = {}
    /\ tun = FALSE
    /\ step = Down
    /\ todo = {}
    /\ installing = NoDestination
    /\ installed = {}
    /\ crashes = 0
    /\ fails = 0

-------------------------------------------------------------------------------
(* cleanup_stale *)

\* The loop over the families moves on: to the second family, or to the next
\* loop after it.
After(at, next) ==
    IF step.family = "-4" THEN [at |-> at, family |-> "-6"] ELSE [at |-> next, family |-> "-4"]

\* A new generation; AtomicRouteManager::new is empty.
Begin ==
    /\ step.at = "down"
    /\ step' = [at |-> "unbypass", family |-> "-4"]
    /\ installed' = {}
    /\ UNCHANGED <<rules, table, tun, todo, installing, crashes, fails>>

\* Mutant: that there is no rule to delete is an error.
RemoveBypassStrict ==
    /\ step.at = "unbypass"
    /\ rules' = rules \ {Bypass(step.family)}
    /\ step' = IF Bypass(step.family) \in rules THEN After("unbypass", "list") ELSE Down
    /\ UNCHANGED <<table, tun, todo, installing, installed, crashes, fails>>

\* remove_control_bypass: that there is no such rule is not an error.
RemoveBypass ==
    /\ step.at = "unbypass"
    /\ rules' = rules \ {Bypass(step.family)}
    /\ step' = After("unbypass", "list")
    /\ UNCHANGED <<table, tun, todo, installing, installed, crashes, fails>>

parse_managed_rule(x) == x.priority \in ManagedPriority /\ x.table = OurTable

List ==
    /\ step.at = "list"
    /\ todo' = {x \in rules : x.family = step.family /\ parse_managed_rule(x)}
    /\ step' = [at |-> "delete", family |-> step.family]
    /\ UNCHANGED <<rules, table, tun, installing, installed, crashes, fails>>

\* Mutant: one command per priority, although two selectors may share it.
DeleteListedOnce(x, y) ==
    /\ step.at = "delete"
    /\ x \in todo
    /\ y \in rules
    /\ y.family = x.family /\ y.priority = x.priority /\ y.table = x.table
    /\ rules' = rules \ {y}
    /\ todo' = {z \in todo : z.priority # x.priority}
    /\ UNCHANGED <<table, tun, step, installing, installed, crashes, fails>>

\* The command names a priority and the table, so the kernel deletes one of
\* the rules that have them.
DeleteListed(x, y) ==
    /\ step.at = "delete"
    /\ x \in todo
    /\ y \in rules
    /\ y.family = x.family /\ y.priority = x.priority /\ y.table = x.table
    /\ rules' = rules \ {y}
    /\ todo' = todo \ {x}
    /\ UNCHANGED <<table, tun, step, installing, installed, crashes, fails>>

\* ip route flush
Flush ==
    /\ step.at = "delete"
    /\ todo = {}
    /\ table' = table \ {step.family}
    /\ step' = After("list", "bypass")
    /\ UNCHANGED <<rules, tun, todo, installing, installed, crashes, fails>>

\* Mutant: only one family.
AddBypassOnce ==
    /\ step.at = "bypass"
    /\ rules' = rules \cup {Bypass(step.family)}
    /\ step' = [at |-> "open", family |-> "-4"]
    /\ UNCHANGED <<table, tun, todo, installing, installed, crashes, fails>>

\* ensure_control_bypass: that the rule exists is not an error.
AddBypass ==
    /\ step.at = "bypass"
    /\ rules' = rules \cup {Bypass(step.family)}
    /\ step' = After("bypass", "open")
    /\ UNCHANGED <<table, tun, todo, installing, installed, crashes, fails>>

\* device::start creates the TUN: not while an earlier one has the name.
Open ==
    /\ step.at = "open"
    /\ ~tun
    /\ tun' = TRUE
    /\ step' = Up
    /\ UNCHANGED <<rules, table, todo, installing, installed, crashes, fails>>

-------------------------------------------------------------------------------
(* The trait PolicyRules, in a running generation *)

Idle == step.at = "up" /\ installing = NoDestination

\* install begins with prepare: the default route of the table.
Prepare(s) ==
    /\ Idle
    /\ table' = table \cup {FamilyOf[s]}
    /\ installing' = s
    /\ UNCHANGED <<rules, tun, step, todo, installed, crashes, fails>>

\* install, `ip rule add`
AddRule ==
    /\ step.at = "up"
    /\ installing # NoDestination
    /\ rules' = rules \cup {RuleOf(installing)}
    /\ installed' = installed \cup {installing}
    /\ installing' = NoDestination
    /\ UNCHANGED <<table, tun, step, todo, crashes, fails>>

\* remove: that there is no such rule is not an error.
Remove(s) ==
    /\ Idle
    /\ rules' = rules \ {RuleOf(s)}
    /\ installed' = installed \ {s}
    /\ UNCHANGED <<table, tun, step, todo, installing, crashes, fails>>

-------------------------------------------------------------------------------
(* Failures *)

\* A command of install or remove fails: the error goes to the caller.
CommandFails ==
    /\ step.at = "up"
    /\ fails < MaxFail
    /\ fails' = fails + 1
    /\ installing' = NoDestination
    /\ UNCHANGED <<rules, table, tun, step, todo, installed, crashes>>

\* A command of the start fails, a listed rule is gone, or the TUN's name is
\* still taken: run_generation_inner returns, the supervisor tries again.
StartupFails ==
    /\ step.at \notin {"down", "up"}
    /\ \/ fails < MaxFail /\ fails' = fails + 1
       \/ /\ step.at = "delete"
          /\ \E x \in todo : \A y \in rules :
                ~(y.family = x.family /\ y.priority = x.priority /\ y.table = x.table)
          /\ UNCHANGED fails
       \/ step.at = "open" /\ tun /\ UNCHANGED fails
    /\ step' = Down
    /\ todo' = {}
    /\ UNCHANGED <<rules, table, tun, installing, installed, crashes>>

\* The generation returns an error while it runs: its rules stay, and its
\* device closes later.
GenerationFails ==
    /\ step.at = "up"
    /\ crashes < MaxCrash
    /\ crashes' = crashes + 1
    /\ step' = Down
    /\ installing' = NoDestination
    /\ UNCHANGED <<rules, table, tun, todo, installed, fails>>

\* The generation is cancelled and has removed the rules of its sessions.
GenerationStops ==
    /\ Idle
    /\ installed = {}
    /\ crashes < MaxCrash
    /\ crashes' = crashes + 1
    /\ step' = Down
    /\ UNCHANGED <<rules, table, tun, todo, installing, installed, fails>>

\* The device task of a generation that has ended drops the TUN, and the kernel
\* drops the routes that lead to it.
TunCloses ==
    /\ tun
    /\ step.at # "up"
    /\ tun' = FALSE
    /\ table' = {}
    /\ UNCHANGED <<rules, step, todo, installing, installed, crashes, fails>>

\* The process dies: its device goes with it, its rules stay.
Crash ==
    /\ step.at # "down"
    /\ crashes < MaxCrash
    /\ crashes' = crashes + 1
    /\ step' = Down
    /\ tun' = FALSE
    /\ table' = {}
    /\ todo' = {}
    /\ installing' = NoDestination
    /\ UNCHANGED <<rules, installed, fails>>

-------------------------------------------------------------------------------
Startup ==
    \/ Begin \/ RemoveBypass \/ List \/ Flush \/ AddBypass \/ Open
    \/ \E x \in todo, y \in rules : DeleteListed(x, y)

PolicyNext ==
    \/ Startup
    \/ \E s \in Destination : Prepare(s) \/ Remove(s)
    \/ AddRule
    \/ CommandFails \/ StartupFails \/ GenerationFails \/ GenerationStops \/ TunCloses \/ Crash

PolicySpec == PolicyInit /\ [][PolicyNext]_policyVars

\* The process runs its commands, the supervisor starts a generation after one
\* that failed, and a cancelled device task ends.
PolicyFairness ==
    /\ WF_policyVars(Startup) /\ WF_policyVars(AddRule)
    /\ WF_policyVars(StartupFails) /\ WF_policyVars(TunCloses)

-------------------------------------------------------------------------------
\* In a running generation the kernel's managed rules are those it has
\* installed itself: none is left of an earlier one, however that ended, and
\* whichever command failed on the way (policy.rs:94-134).
CleanStart ==
    step.at = "up" =>
        {x \in rules : parse_managed_rule(x)} = {RuleOf(s) : s \in installed}

\* Control messages of a running generation have their way around the shortcut
\* in both families, as long as no other program deletes the rule
\* (policy.rs:136-161).
BypassHeld == step.at = "up" => \A f \in Family : Bypass(f) \in rules

\* The rules of other programs are never touched, also not those that share
\* the table or lie between the managed priorities (policy.rs:297-308).
ForeignKept == Foreign \subseteq rules

\* Once the process has begun and crashes and failures end, a generation comes
\* up and stays, whatever was left behind: no state of the kernel makes
\* cleanup_stale fail for ever (policy.rs:94, 136).
ComesUp == <>(step # Down) => <>[](step.at = "up")
===============================================================================
