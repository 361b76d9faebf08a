----------------------------- MODULE MCHubIssuer -----------------------------
(* Two peers of a hub, with the hub's times scaled to a few ticks. *)
EXTENDS HubIssuer

CONSTANTS L, B

OnePair == {<<L, B>>}
===============================================================================
