------------------------------ MODULE RouteTable ------------------------------
(***************************************************************************)
(* The routing state of one generation: AtomicRouteManager (policy.rs),    *)
(* the DeviceRoutes map it shares with the device task (device.rs), and    *)
(* the part of the kernel's routing policy that SystemPolicy writes        *)
(* through the `ip` command.                                               *)
(*                                                                         *)
(* A route state is a record                                               *)
(*   userspace  selector -> session, the map the device looks packets up in *)
(*   active     selector -> session, the manager's own copy                *)
(*   rules      the selectors that have an `ip rule` to the shortcut table *)
(*   table      the shortcut table has its default route to the TUN        *)
(* A HashMap is a function whose domain is the set of its keys.  The       *)
(* operators are functions from route state to route state, so that a      *)
(* handler that makes several calls composes them.                         *)
(***************************************************************************)
EXTENDS Naturals

CONSTANTS
    Selector,      \* destination prefixes a ticket can cover
    Session        \* SessionKey: (shortcut_id, epoch)

\* HashMap::insert and HashMap::remove (of a set of keys).
Put(f, k, v) == [x \in DOMAIN f \cup {k} |-> IF x = k THEN v ELSE f[x]]
Drop(f, K) == [x \in DOMAIN f \ K |-> f[x]]
EmptyMap == [x \in {} |-> x]

MapType(f, K, V) ==
    /\ f = [x \in DOMAIN f |-> f[x]]
    /\ DOMAIN f \subseteq K
    /\ \A x \in DOMAIN f : f[x] \in V

RouteStateOK(r) ==
    /\ r = [userspace |-> r.userspace, active |-> r.active,
            rules |-> r.rules, table |-> r.table]
    /\ MapType(r.userspace, Selector, Session)
    /\ MapType(r.active, Selector, Session)
    /\ r.rules \subseteq Selector
    /\ r.table \in BOOLEAN

\* activate, when `ip route replace` and `ip rule add` both succeed; adding a
\* rule that exists ("File exists") counts as success.
Activated(r, selector, session) ==
    [userspace |-> Put(r.userspace, selector, session),
     active |-> Put(r.active, selector, session),
     rules |-> r.rules \cup {selector},
     table |-> TRUE]

\* Mutant: the userspace entry keeps the session whose rule was not installed.
RollbackForgotten(r, selector, session, table) ==
    [userspace |-> Put(r.userspace, selector, session),
     active |-> r.active, rules |-> r.rules, table |-> table]

\* Mutant: the userspace entry is removed where a previous one existed.
RollbackRemoves(r, selector, session, table) ==
    [userspace |-> Drop(r.userspace, {selector}),
     active |-> Drop(r.active, {selector}), rules |-> r.rules, table |-> table]

\* activate, when policy.install fails: the userspace entry was already
\* replaced and is rolled back to the previous target, or removed.  The
\* install first writes the table's default route and then the rule, so
\* `table` says whether the first of the two had succeeded.
ActivationRolledBack(r, selector, session, table) ==
    LET replaced == Put(r.userspace, selector, session)
    IN  [userspace |-> IF selector \in DOMAIN r.active
                       THEN Put(replaced, selector, r.active[selector])
                       ELSE Drop(replaced, {selector}),
         active |-> r.active,
         rules |-> r.rules,
         table |-> table]

\* Mutant: the rule is left in the kernel.
DeactivatedKeepsRule(r, S) ==
    [userspace |-> Drop(r.userspace, S), active |-> Drop(r.active, S),
     rules |-> r.rules, table |-> r.table]

\* deactivate of every selector in S: the rule first, then the userspace
\* entry, then the manager's own.  A failing rule removal returns before
\* anything has changed.
Deactivated(r, S) ==
    [userspace |-> Drop(r.userspace, S),
     active |-> Drop(r.active, S),
     rules |-> r.rules \ S,
     table |-> r.table]

\* The manager is dropped and the non-persistent TUN is gone: the kernel
\* deletes the table's route with the device, and keeps the rules.
TunClosed(rules) ==
    [userspace |-> EmptyMap, active |-> EmptyMap, rules |-> rules, table |-> FALSE]

\* cleanup_stale leaves the rules in `left`: none, unless a command failed.
CleanedUp(r, left) ==
    [userspace |-> r.userspace, active |-> r.active, rules |-> left, table |-> FALSE]
===============================================================================
