-------------------------------- MODULE MCPaths --------------------------------
(***************************************************************************)
(* The relay paths of a peer as one node sees them: the choice of a path,  *)
(* the statistics it is shown with, and the peer's name on it.  The three  *)
(* share no state, so each is checked by itself: a behaviour is one of     *)
(* `part`, and the others rest in an initial state.                        *)
(***************************************************************************)
EXTENDS PathSelection, MetricsRegistry, IdentityRotation

CONSTANTS r1, r2, r3, c1, c2

ThreeTargets == <<r1, r2, r3>>

VARIABLE part

MCInit ==
    /\ part \in {"choice", "metrics", "names"}
    /\ PathInit /\ MetricsInit
    /\ RotationInit /\ (part # "names" => utc = 0)

MCNext ==
    /\ \/ part = "choice" /\ PathNext /\ UNCHANGED <<metricsVars, rotationVars>>
       \/ part = "metrics" /\ MetricsNext /\ UNCHANGED <<pathVars, rotationVars>>
       \/ part = "names" /\ RotationNext /\ UNCHANGED <<pathVars, metricsVars>>
    /\ UNCHANGED part

MCSpec == MCInit /\ [][MCNext]_<<part, pathVars, metricsVars, rotationVars>>
===============================================================================
