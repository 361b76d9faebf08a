----------------------------- MODULE MCPathProbe -----------------------------
(* PathProbe with two peers, and a late reply of the second to a probe of    *)
(* the generation before.                                                    *)
EXTENDS PathProbe

StaleReply == [kind : {"reply"}, peer : {2}, nonce : {2}]
MCSpec == ProbeSpec /\ ProbeFairness
===============================================================================
