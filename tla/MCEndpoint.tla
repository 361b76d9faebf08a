------------------------------ MODULE MCEndpoint ------------------------------
(***************************************************************************)
(* The sessions and routes of one endpoint, and the kernel rules behind    *)
(* them command by command.  The two descriptions share no state, so each  *)
(* is checked by itself: a behaviour is one of `part`, and the other rests *)
(* in an initial state.                                                    *)
(***************************************************************************)
EXTENDS MCShortcutEndpoint, PolicyRules

CONSTANTS x1, x2, y1

\* Two destinations of one family whose priorities collide, one of the other,
\* and rules of other programs beside them.
Families == [d \in {x1, x2, y1} |-> IF d = y1 THEN "-6" ELSE "-4"]
Priorities == [d \in {x1, x2, y1} |-> IF d = y1 THEN 2 ELSE 1]
Others == {[family |-> "-4", priority |-> 1, match |-> "all", table |-> "other"],
           [family |-> "-4", priority |-> 7, match |-> "all", table |-> OurTable],
           [family |-> "-6", priority |-> 0, match |-> "all", table |-> "main"]}

VARIABLE part

MCInit ==
    /\ part \in {"sessions", "rules"}
    /\ Init /\ (part # "sessions" => routes.rules = {})
    /\ PolicyInit

MCNext ==
    /\ \/ part = "sessions" /\ Next /\ UNCHANGED policyVars
       \/ part = "rules" /\ PolicyNext /\ UNCHANGED vars
    /\ UNCHANGED part

MCSpec ==
    /\ MCInit /\ [][MCNext]_<<part, vars, policyVars>>
    /\ part = "sessions" => EndpointFairness
    /\ part = "rules" => PolicyFairness
===============================================================================
