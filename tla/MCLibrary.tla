------------------------------ MODULE MCLibrary ------------------------------
(***************************************************************************)
(* The parts of the shortcut library that plan: which tickets a hub hands  *)
(* on, when it renews them, and which flows it finds worth a shortcut.     *)
(* They share no state, so each is checked by itself: a behaviour is one   *)
(* of `part`, and the others rest in an initial state.                     *)
(***************************************************************************)
EXTENDS CascadeDelegation, RenewalScheduler, TransitDetector

CONSTANTS a, b, k1, k2, k3

OneAhead == [n \in Node |-> IF n = a THEN 1 ELSE 0]

\* Addresses of two bits; the prefixes 0/0 and 0/1, whoever has them.
ThreePeers == <<k1, k2, k3>>
TwoPrefixes == {[base |-> 0, len |-> 0], [base |-> 0, len |-> 1]}

VARIABLE part

MCInit ==
    /\ part \in {"tickets", "renewals", "flows"}
    /\ CascadeInit /\ RenewalInit
    /\ TransitInit /\ (part # "flows" => owner = [x \in Prefix |-> NoPeer])

MCNext ==
    /\ \/ part = "tickets" /\ CascadeNext /\ UNCHANGED <<renewalVars, transitVars>>
       \/ part = "renewals" /\ RenewalNext /\ UNCHANGED <<cascadeVars, transitVars>>
       \/ part = "flows" /\ TransitNext /\ UNCHANGED <<cascadeVars, renewalVars>>
    /\ UNCHANGED part

MCSpec == MCInit /\ [][MCNext]_<<part, cascadeVars, renewalVars, transitVars>>
===============================================================================
