---- MODULE MCShortcutPair ----
(* Instances of ShortcutPair for TLC: a lease and its renewal. *)
EXTENDS ShortcutPair

Issued == <<0, 1>>
Expires == <<2, 3>>
MCSpec == PairSpec /\ PairFairness
====
