---------------------------- MODULE MCPeerDiscovery ----------------------------
(* PeerDiscovery with two nodes that find each other through a tracker, the  *)
(* DHT or their LAN.                                                         *)
EXTENDS PeerDiscovery

CONSTANTS a, b

EachOther == [n \in Node |-> IF n = a THEN <<b>> ELSE <<a>>]

Ahead(d) == [n \in Node |-> IF n = a THEN d ELSE 0]

\* Slightly different clocks with a request or an answer lost and a node the
\* providers see at a private address; and clocks a whole period apart.
Settings ==
    [skew : {Ahead(1)}, private : {{b}}, provider : {{"tracker"}, {"dht"}},
     on_lan : {FALSE}, max_lost : {1}, start : {3}]
    \cup [skew : {Ahead(PeriodSeconds)}, private : {{}}, provider : {{"tracker"}},
          on_lan : {FALSE}, max_lost : {0}, start : {3}]
    \cup [skew : {Ahead(1)}, private : {{}}, provider : {{}},
          on_lan : {TRUE}, max_lost : {0}, start : {2}]
    \cup [skew : {Ahead(PeriodSeconds)}, private : {{}}, provider : {{}},
          on_lan : {TRUE}, max_lost : {0}, start : {3}]

MCSpec == DiscoverySpec /\ DiscoveryFairness
===============================================================================
