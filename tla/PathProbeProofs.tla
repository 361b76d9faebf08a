--------------------------- MODULE PathProbeProofs ----------------------------
(***************************************************************************)
(* Proofs about the probes of a relay.                                     *)
(***************************************************************************)
EXTENDS PathProbe, FiniteSetTheorems, TLAPS

-------------------------------------------------------------------------------
(***************************************************************************)
(* PathProbe                                                               *)
(*                                                                         *)
(* Every probe of a relay is accounted for exactly once, within the limits *)
(* of the relay, for every number of peers, sender slots and seconds until *)
(* a probe is lost.                                                        *)
(***************************************************************************)

\* The probes of a refresh are numbered without gaps in the order of the peers.
LEMMA AheadFacts ==
    ASSUME NEW routes \in SUBSET Peers
    PROVE  /\ IsFiniteSet(routes) /\ Cardinality(routes) \in Nat
           /\ \A p \in routes : Ahead(routes, p) \in 0 .. Cardinality(routes) - 1
           /\ \A p, q \in routes : Ahead(routes, p) = Ahead(routes, q) => p = q
           /\ \A k \in 0 .. Cardinality(routes) - 1 : \E p \in routes : Ahead(routes, p) = k
<1> DEFINE Before(p) == {q \in routes : q < p}
<1>1. PeerCount \in Nat /\ \A p \in routes : p \in Nat
  BY ProbeAssumption DEF Peers
<1>2. IsFiniteSet(routes) /\ Cardinality(routes) \in Nat
  <2>1. IsFiniteSet(Peers)
    BY <1>1, FS_Interval DEF Peers
  <2>2. IsFiniteSet(routes)
    BY <2>1, FS_Subset
  <2> QED  BY <2>2, FS_CardinalityType
<1>3. ASSUME NEW p \in routes
      PROVE  Ahead(routes, p) \in 0 .. Cardinality(routes) - 1
  <2>1. Before(p) \in SUBSET routes /\ Before(p) # routes
    BY <1>1, <1>3
  <2> HIDE DEF Before
  <2>2. IsFiniteSet(Before(p)) /\ Cardinality(Before(p)) <= Cardinality(routes)
        /\ Cardinality(Before(p)) # Cardinality(routes)
    BY <1>2, <2>1, FS_Subset
  <2>3. Cardinality(Before(p)) \in Nat
    BY <2>2, FS_CardinalityType
  <2> QED  BY <1>2, <2>2, <2>3 DEF Ahead, Before
<1>4. ASSUME NEW p \in routes, NEW q \in routes, p < q
      PROVE  Ahead(routes, p) # Ahead(routes, q)
  <2>1. Before(p) \in SUBSET Before(q) /\ p \in Before(q) /\ p \notin Before(p)
        /\ Before(q) \in SUBSET routes
    BY <1>1, <1>4
  <2> HIDE DEF Before
  <2>2. IsFiniteSet(Before(q))
    BY <1>2, <2>1, FS_Subset
  <2>3. Cardinality(Before(p)) # Cardinality(Before(q))
    BY <2>1, <2>2, FS_Subset
  <2> QED  BY <2>3 DEF Ahead, Before
<1>5. \A p, q \in routes : Ahead(routes, p) = Ahead(routes, q) => p = q
  BY <1>1, <1>4
<1>6. \A k \in 0 .. Cardinality(routes) - 1 : \E p \in routes : Ahead(routes, p) = k
  <2> DEFINE f == [p \in routes |-> Ahead(routes, p)]
  <2> DEFINE K == 0 .. Cardinality(routes) - 1
  <2>1. f \in Injection(routes, K)
    BY <1>3, <1>5 DEF Injection, IsInjective
  <2>2. IsFiniteSet(K) /\ Cardinality(K) = Cardinality(routes)
    <3> DEFINE last == Cardinality(routes) - 1
    <3>1. last \in Int
      BY <1>2
    <3> HIDE DEF last
    <3>2. /\ IsFiniteSet(0 .. last)
          /\ Cardinality(0 .. last) = IF 0 > last THEN 0 ELSE last - 0 + 1
      BY <3>1, FS_Interval
    <3> QED  BY <1>2, <3>2 DEF last
  <2>3. f \in Surjection(routes, K)
    BY <2>1, <2>2, FS_Injection
  <2> QED  BY Zenon, <2>3 DEF Surjection
<1> QED  BY <1>2, <1>3, <1>5, <1>6

\* So a number belongs to one peer, and the new numbers follow the old ones.
LEMMA NonceFacts ==
    ASSUME NEW routes \in SUBSET Peers, next_probe_nonce \in Nat
    PROVE  /\ \A p \in routes : NonceOf(routes, p) \in Nat
                                /\ PeerOf(routes, NonceOf(routes, p)) = p
           /\ NoncesOf(routes, routes)
                 = next_probe_nonce .. next_probe_nonce + Cardinality(routes) - 1
<1> DEFINE c == Cardinality(routes)
<1>1. c \in Nat /\ \A p \in routes : Ahead(routes, p) \in 0 .. c - 1
  BY AheadFacts
<1>2. \A p \in routes : NonceOf(routes, p) \in next_probe_nonce .. next_probe_nonce + c - 1
  BY <1>1 DEF NonceOf
<1>3. \A p, q \in routes : NonceOf(routes, p) = NonceOf(routes, q) => p = q
  <2> SUFFICES ASSUME NEW p \in routes, NEW q \in routes, NonceOf(routes, p) = NonceOf(routes, q)
               PROVE  p = q
    OBVIOUS
  <2>1. Ahead(routes, p) = Ahead(routes, q)
    BY <1>1 DEF NonceOf
  <2> QED  BY <2>1, AheadFacts
<1>4. \A p \in routes : PeerOf(routes, NonceOf(routes, p)) = p
  BY <1>3 DEF PeerOf
<1>5. ASSUME NEW n \in next_probe_nonce .. next_probe_nonce + c - 1
      PROVE  \E p \in routes : n = NonceOf(routes, p)
  <2>1. n - next_probe_nonce \in 0 .. c - 1
    BY <1>1
  <2>2. PICK p \in routes : Ahead(routes, p) = n - next_probe_nonce
    BY <2>1, AheadFacts
  <2> QED  BY <1>1, <2>2 DEF NonceOf
<1> HIDE DEF c
<1>6. NoncesOf(routes, routes) = next_probe_nonce .. next_probe_nonce + c - 1
  BY <1>2, <1>5 DEF NoncesOf
<1> QED  BY <1>1, <1>2, <1>4, <1>6 DEF c

\* The probes that get a sender are no more than the free slots.
LEMMA QueuedFacts ==
    ASSUME NEW routes \in SUBSET Peers, next_probe_nonce \in Nat,
           InFlight \in Nat, InFlight <= MaxInFlight
    PROVE  LET fresh == NoncesOf(routes, Queued(routes))
           IN  IsFiniteSet(fresh) /\ Cardinality(fresh) \in Nat
               /\ Cardinality(fresh) <= MaxInFlight - InFlight
<1> DEFINE Q == Queued(routes)
<1> DEFINE fresh == NoncesOf(routes, Q)
<1> DEFINE f == [p \in Q |-> Ahead(routes, p)]
<1> DEFINE g == [p \in Q |-> NonceOf(routes, p)]
<1> DEFINE K == 0 .. MaxInFlight - InFlight - 1
<1>1. MaxInFlight \in Nat
  BY ProbeAssumption
<1>2. \A p \in routes : Ahead(routes, p) \in Nat
  <2>1. /\ Cardinality(routes) \in Nat
        /\ \A p \in routes : Ahead(routes, p) \in 0 .. Cardinality(routes) - 1
    BY AheadFacts
  <2> QED  BY <2>1
<1>3. Q \in SUBSET routes /\ \A p \in Q : Ahead(routes, p) \in K
  BY <1>1, <1>2 DEF Queued
<1> HIDE DEF Q
<1>4. f \in Injection(Q, K)
  <2>1. \A p, q \in routes : Ahead(routes, p) = Ahead(routes, q) => p = q
    BY AheadFacts
  <2> HIDE DEF K
  <2> QED  BY <1>3, <2>1 DEF Injection, IsInjective
<1>5. IsFiniteSet(K) /\ Cardinality(K) = MaxInFlight - InFlight
  <2> DEFINE last == MaxInFlight - InFlight - 1
  <2>1. last \in Int
    BY <1>1
  <2> HIDE DEF last
  <2>2. /\ IsFiniteSet(0 .. last)
        /\ Cardinality(0 .. last) = IF 0 > last THEN 0 ELSE last - 0 + 1
    BY <2>1, FS_Interval
  <2> QED  BY <1>1, <2>2 DEF last
<1>6. IsFiniteSet(Q) /\ Cardinality(Q) <= MaxInFlight - InFlight
  BY <1>4, <1>5, FS_Injection
<1>7. g \in Surjection(Q, fresh)
  BY DEF Surjection, NoncesOf
<1>8. IsFiniteSet(fresh) /\ Cardinality(fresh) <= Cardinality(Q)
  BY <1>6, <1>7, FS_Surjection
<1>9. Cardinality(fresh) \in Nat /\ Cardinality(Q) \in Nat
  BY <1>6, <1>8, FS_CardinalityType
<1> QED  BY <1>1, <1>6, <1>8, <1>9 DEF Q

-------------------------------------------------------------------------------
\* What the invariant says of the numbers in use.
LEMMA NumbersInUse ==
    ASSUME ProbeInv
    PROVE  /\ next_probe_nonce \in Nat \ {0} /\ Issued \subseteq Nonces
           /\ DOMAIN pending_probes \subseteq Issued
           /\ IsFiniteSet(DOMAIN pending_probes) /\ Cardinality(DOMAIN pending_probes) \in Nat
           /\ IsFiniteSet(DOMAIN probe_sends) /\ Cardinality(DOMAIN probe_sends) \in Nat
           /\ InFlight \in Nat /\ InFlight <= MaxInFlight
           /\ \A n \in Nonces :
                 counted[n] \in Nat
                 /\ (n \notin Issued =>
                        counted[n] = 0 /\ n \notin DOMAIN pending_probes /\ n \notin consumed)
<1>1. MaxNonce \in Nat /\ MaxInFlight \in Nat
  BY ProbeAssumption
<1>2. next_probe_nonce \in 1 .. MaxNonce + 1 /\ counted \in [Nonces -> Nat]
      /\ DOMAIN pending_probes \subseteq Nonces /\ DOMAIN probe_sends \subseteq Nonces
      /\ Cardinality(DOMAIN probe_sends) + replying <= MaxInFlight /\ replying \in Nat
  BY DEF ProbeInv, ProbeAccounted, ProbeTypeOK
<1>3. next_probe_nonce \in Nat \ {0} /\ Issued \subseteq Nonces
  BY <1>1, <1>2 DEF Issued, Nonces
<1>4. IsFiniteSet(Nonces)
  BY <1>1, FS_Interval DEF Nonces
<1>5. IsFiniteSet(DOMAIN pending_probes) /\ IsFiniteSet(DOMAIN probe_sends)
  BY <1>2, <1>4, FS_Subset
<1>6. Cardinality(DOMAIN pending_probes) \in Nat /\ Cardinality(DOMAIN probe_sends) \in Nat
  BY <1>5, FS_CardinalityType
<1>7. InFlight \in Nat /\ InFlight <= MaxInFlight
  BY <1>1, <1>2, <1>6 DEF InFlight
<1>8. ASSUME NEW n \in Nonces
      PROVE  counted[n] \in Nat
             /\ (n \notin Issued =>
                    counted[n] = 0 /\ n \notin DOMAIN pending_probes /\ n \notin consumed)
  <2>1. counted[n] \in Nat
    BY <1>2
  <2>2. counted[n] + Times(n \in DOMAIN pending_probes) + Times(n \in consumed)
            = Times(n \in Issued)
    BY DEF ProbeInv, ProbeAccounted
  <2> QED  BY <2>1, <2>2 DEF Times
<1>9. DOMAIN pending_probes \subseteq Issued
  BY <1>2, <1>8
<1> QED  BY <1>3, <1>5, <1>6, <1>7, <1>8, <1>9

\* The numbers of a refresh: new ones, each either queued or lost at once.
LEMMA FreshNumbers ==
    ASSUME ProbeInv, NEW routes \in SUBSET Peers,
           next_probe_nonce + Cardinality(routes) <= MaxNonce + 1
    PROVE  LET fresh == NoncesOf(routes, Queued(routes))
               refused  == NoncesOf(routes, routes \ Queued(routes))
           IN  /\ fresh \cup refused = (1 .. next_probe_nonce + Cardinality(routes) - 1) \ Issued
               /\ fresh \cup refused \subseteq Nonces
               /\ fresh \cap refused = {}
               /\ \A n \in fresh : PeerOf(routes, n) \in Peers
               /\ \A m, n \in fresh : PeerOf(routes, m) = PeerOf(routes, n) => m = n
<1> DEFINE fresh == NoncesOf(routes, Queued(routes))
<1> DEFINE refused == NoncesOf(routes, routes \ Queued(routes))
<1>1. next_probe_nonce \in Nat \ {0} /\ MaxNonce \in Nat
  BY NumbersInUse, ProbeAssumption
<1>2. Cardinality(routes) \in Nat
  BY AheadFacts
<1>3. \A p \in routes : PeerOf(routes, NonceOf(routes, p)) = p
  BY <1>1, NonceFacts
<1>4. fresh \cup refused = next_probe_nonce .. next_probe_nonce + Cardinality(routes) - 1
  <2>1. NoncesOf(routes, routes) = next_probe_nonce .. next_probe_nonce + Cardinality(routes) - 1
    BY <1>1, NonceFacts
  <2>2. fresh \cup refused = NoncesOf(routes, routes)
    BY DEF NoncesOf, Queued
  <2> QED  BY Zenon, <2>1, <2>2
<1>5. Queued(routes) \subseteq routes
  BY DEF Queued
<1>6. \A n \in fresh : \E p \in Queued(routes) : n = NonceOf(routes, p) /\ PeerOf(routes, n) = p
  BY <1>3, <1>5 DEF NoncesOf
<1>7. \A n \in refused : \E p \in routes \ Queued(routes) : PeerOf(routes, n) = p
  BY <1>3 DEF NoncesOf
<1>8. fresh \cap refused = {}
  BY <1>6, <1>7
<1> HIDE DEF fresh, refused
<1>9. fresh \cup refused = (1 .. next_probe_nonce + Cardinality(routes) - 1) \ Issued
      /\ fresh \cup refused \subseteq Nonces
  BY <1>1, <1>2, <1>4 DEF Issued, Nonces
<1>10. (\A n \in fresh : PeerOf(routes, n) \in Peers)
       /\ (\A m, n \in fresh : PeerOf(routes, m) = PeerOf(routes, n) => m = n)
  BY <1>5, <1>6
<1> QED  BY Zenon, <1>8, <1>9, <1>10 DEF fresh, refused

\* Pending probes that have not expired and differ in peer or age are at most
\* one for each peer and second.
LEMMA PendingBound ==
    ASSUME NEW pending,
           \A n \in DOMAIN pending : pending[n] \in [peer : Peers, age : 0 .. ProbeTimeout],
           \A m, n \in DOMAIN pending : pending[m] = pending[n] => m = n
    PROVE  Cardinality(DOMAIN pending) <= (ProbeTimeout + 1) * PeerCount
<1> DEFINE T == (0 .. ProbeTimeout) \X Peers
<1> DEFINE f == [n \in DOMAIN pending |-> <<pending[n].age, pending[n].peer>>]
<1>1. ProbeTimeout \in Nat /\ PeerCount \in Nat
  BY ProbeAssumption
<1>2. IsFiniteSet(0 .. ProbeTimeout) /\ Cardinality(0 .. ProbeTimeout) = ProbeTimeout + 1
  BY <1>1, FS_Interval
<1>3. IsFiniteSet(Peers) /\ Cardinality(Peers) = PeerCount
  BY <1>1, FS_Interval DEF Peers
<1>4. IsFiniteSet(T) /\ Cardinality(T) = (ProbeTimeout + 1) * PeerCount
  BY ZenonT(30), <1>2, <1>3, FS_Product
<1>5. f \in [DOMAIN pending -> T]
  OBVIOUS
<1>6. \A m, n \in DOMAIN pending : f[m] = f[n] => m = n
  <2> SUFFICES ASSUME NEW m \in DOMAIN pending, NEW n \in DOMAIN pending, f[m] = f[n]
               PROVE  pending[m] = pending[n]
    OBVIOUS
  <2>1. pending[m].age = pending[n].age /\ pending[m].peer = pending[n].peer
    OBVIOUS
  <2>2. pending[m] \in [peer : Peers, age : 0 .. ProbeTimeout]
        /\ pending[n] \in [peer : Peers, age : 0 .. ProbeTimeout]
    OBVIOUS
  <2> QED  BY <2>1, <2>2
<1> HIDE DEF f, T
<1>7. f \in Injection(DOMAIN pending, T)
  BY <1>5, <1>6 DEF Injection, IsInjective
<1> QED  BY <1>4, <1>7, FS_Injection

\* A refresh: what has expired is counted, what is queued is pending, and what
\* found no slot is counted at once.
LEMMA RefreshInv ==
    ASSUME ProbeInv, NEW routes \in SUBSET Peers, Refresh(routes)
    PROVE  ProbeInv'
<1> DEFINE P == DOMAIN pending_probes
<1> DEFINE S == DOMAIN probe_sends
<1> DEFINE fresh == NoncesOf(routes, Queued(routes))
<1> DEFINE refused == NoncesOf(routes, routes \ Queued(routes))
<1> DEFINE c == Cardinality(routes)
<1>1. /\ due /\ next_probe_nonce + c <= MaxNonce + 1
      /\ due' = FALSE /\ listed' = routes /\ reachable' = routes
      /\ next_probe_nonce' = next_probe_nonce + c
      /\ pending_probes' =
            [n \in (P \ expired) \cup fresh |->
                IF n \in P THEN pending_probes[n]
                ELSE [peer |-> PeerOf(routes, n), age |-> 0]]
      /\ probe_sends' =
            [n \in S \cup fresh |->
                IF n \in S THEN probe_sends[n]
                ELSE [peer |-> PeerOf(routes, n), status |-> "running"]]
      /\ counted' = [n \in Nonces |-> counted[n] + IF n \in expired \cup refused THEN 1 ELSE 0]
      /\ UNCHANGED <<replying, succeeded, consumed, network, replied>>
  BY DEF Refresh
<1>2. /\ next_probe_nonce \in Nat \ {0} /\ Issued \subseteq Nonces /\ P \subseteq Issued
      /\ IsFiniteSet(S) /\ Cardinality(S) \in Nat
      /\ InFlight \in Nat /\ InFlight <= MaxInFlight
      /\ \A n \in Nonces : n \notin Issued => counted[n] = 0 /\ n \notin consumed
  BY NumbersInUse
<1>3. /\ fresh \cup refused = (1 .. next_probe_nonce + c - 1) \ Issued
      /\ fresh \cup refused \subseteq Nonces
      /\ fresh \cap refused = {}
      /\ \A n \in fresh : PeerOf(routes, n) \in Peers
      /\ \A m, n \in fresh : PeerOf(routes, m) = PeerOf(routes, n) => m = n
  BY <1>1, FreshNumbers
<1>4. IsFiniteSet(fresh) /\ Cardinality(fresh) \in Nat /\ Cardinality(fresh) <= MaxInFlight - InFlight
  BY <1>2, QueuedFacts
<1>5. c \in Nat /\ MaxNonce \in Nat /\ ProbeTimeout \in Nat /\ MaxInFlight \in Nat
  BY AheadFacts, ProbeAssumption
<1> HIDE DEF fresh, refused, c
<1>6. fresh \cap Issued = {} /\ refused \cap Issued = {} /\ S \subseteq Issued /\ fresh \cap S = {}
      /\ expired \subseteq P /\ fresh \cap P = {}
  BY <1>2, <1>3 DEF ProbeInv, expired
<1>7. ProbeTypeOK /\ replying \in Nat
  BY DEF ProbeInv, ProbeAccounted
<1>8. Issued' = Issued \cup fresh \cup refused
  <2>1. next_probe_nonce' = next_probe_nonce + c /\ next_probe_nonce \in Nat \ {0} /\ c \in Nat
    BY <1>1, <1>2, <1>5
  <2>2. Issued' = Issued \cup ((1 .. next_probe_nonce + c - 1) \ Issued)
    BY <2>1 DEF Issued
  <2>3. fresh \cup refused = (1 .. next_probe_nonce + c - 1) \ Issued
    BY <1>3
  <2> QED  BY <2>2, <2>3
<1>9. /\ DOMAIN pending_probes' = (P \ expired) \cup fresh
      /\ \A n \in P \ expired : pending_probes'[n] = pending_probes[n]
      /\ \A n \in fresh : pending_probes'[n] = [peer |-> PeerOf(routes, n), age |-> 0]
  <2>1. pending_probes' = [n \in (P \ expired) \cup fresh |->
                              IF n \in P THEN pending_probes[n]
                              ELSE [peer |-> PeerOf(routes, n), age |-> 0]]
    BY <1>1
  <2>2. DOMAIN pending_probes' = (P \ expired) \cup fresh
    BY <2>1
  <2>3. \A n \in P \ expired : pending_probes'[n] = pending_probes[n]
    BY <2>1
  <2>4. \A n \in fresh : n \notin P
    BY <1>6
  <2>5. \A n \in fresh : pending_probes'[n] = [peer |-> PeerOf(routes, n), age |-> 0]
    BY <2>1, <2>4
  <2> QED  BY Zenon, <2>2, <2>3, <2>5
<1>10. /\ DOMAIN probe_sends' = S \cup fresh
       /\ \A n \in S : probe_sends'[n] = probe_sends[n]
       /\ \A n \in fresh : probe_sends'[n] = [peer |-> PeerOf(routes, n), status |-> "running"]
  <2>1. probe_sends' = [n \in S \cup fresh |->
                           IF n \in S THEN probe_sends[n]
                           ELSE [peer |-> PeerOf(routes, n), status |-> "running"]]
    BY <1>1
  <2>2. DOMAIN probe_sends' = S \cup fresh
    BY <2>1
  <2>3. \A n \in S : probe_sends'[n] = probe_sends[n]
    BY <2>1
  <2>4. \A n \in fresh : n \notin S
    BY <1>6
  <2>5. \A n \in fresh : probe_sends'[n] = [peer |-> PeerOf(routes, n), status |-> "running"]
    BY <2>1, <2>4
  <2> QED  BY <2>2, <2>3, <2>5
<1>11. ASSUME NEW n \in DOMAIN pending_probes'
       PROVE  /\ pending_probes'[n] \in [peer : Peers, age : 0 .. ProbeTimeout]
              /\ n \in P \ expired => pending_probes'[n].age > 0
              /\ n \in fresh => pending_probes'[n].age = 0
  <2>1. CASE n \in P \ expired
    <3>1. pending_probes[n] \in [peer : Peers, age : 0 .. ProbeTimeout + 1]
          /\ pending_probes[n].age > 0
      BY <1>1, <1>7, <2>1 DEF ProbeInv, ProbeTypeOK
    <3>2. pending_probes[n].age <= ProbeTimeout
      BY <1>5, <2>1, <3>1 DEF expired
    <3> QED  BY <1>5, <1>6, <1>9, <2>1, <3>1, <3>2
  <2>2. CASE n \in fresh
    BY <1>3, <1>5, <1>6, <1>9, <2>2
  <2> QED  BY <1>9, <1>11, <2>1, <2>2
<1>12. ASSUME NEW m \in DOMAIN pending_probes', NEW n \in DOMAIN pending_probes',
              pending_probes'[m] = pending_probes'[n]
       PROVE  m = n
  <2>1. CASE m \in fresh /\ n \in fresh
    BY <1>3, <1>9, <1>12, <2>1
  <2>2. CASE m \in P \ expired /\ n \in P \ expired
    <3>1. pending_probes[m] = pending_probes[n] /\ pending_probes[n].age <= ProbeTimeout
      BY <1>5, <1>9, <1>11, <1>12, <2>2
    <3> QED  BY <2>2, <3>1 DEF ProbeInv
  <2>3. CASE (m \in fresh) # (n \in fresh)
    BY <1>9, <1>11, <1>12, <2>3
  <2> QED  BY <1>9, <1>12, <2>1, <2>2, <2>3
<1>13. Cardinality(DOMAIN pending_probes') <= (ProbeTimeout + 1) * PeerCount
  BY <1>11, <1>12, PendingBound
<1>14. Cardinality(DOMAIN probe_sends') + replying' <= MaxInFlight
  <2>1. Cardinality(S \cup fresh) = Cardinality(S) + Cardinality(fresh) - Cardinality(S \cap fresh)
    BY <1>2, <1>4, FS_Union
  <2>2. Cardinality(S \cap fresh) = 0
    <3>1. S \cap fresh = {}
      BY <1>6
    <3> QED  BY <3>1, FS_EmptySet
  <2>3. DOMAIN probe_sends' = S \cup fresh /\ replying' = replying
    BY <1>1, <1>10
  <2> QED  BY <1>2, <1>4, <1>5, <1>7, <2>1, <2>2, <2>3 DEF InFlight
<1>15. ProbeTypeOK'
  <2>1. \A n \in DOMAIN pending_probes' :
           pending_probes'[n] \in [peer : Peers, age : 0 .. ProbeTimeout + 1]
    BY <1>5, <1>11
  <2>2. \A n \in DOMAIN probe_sends' :
           probe_sends'[n] \in [peer : Peers, status : {"running", "failed", "done"}]
    <3>1. \A n \in S : probe_sends[n] \in [peer : Peers, status : {"running", "failed", "done"}]
      BY <1>7 DEF ProbeTypeOK
    <3>2. \A n \in fresh : [peer |-> PeerOf(routes, n), status |-> "running"]
                               \in [peer : Peers, status : {"running", "failed", "done"}]
      BY <1>3
    <3> QED  BY <1>10, <3>1, <3>2
  <2>3. DOMAIN pending_probes' \subseteq Nonces /\ DOMAIN probe_sends' \subseteq Nonces
    BY <1>2, <1>3, <1>6, <1>9, <1>10
  <2>4. next_probe_nonce' \in 1 .. MaxNonce + 1
    <3>1. next_probe_nonce' = next_probe_nonce + c /\ next_probe_nonce + c <= MaxNonce + 1
      BY <1>1
    <3>2. next_probe_nonce \in Nat \ {0}
      BY <1>2
    <3> QED  BY <1>5, <3>1, <3>2
  <2>5. counted' \in [Nonces -> Nat]
    <3>1. counted \in [Nonces -> Nat]
      BY <1>7 DEF ProbeTypeOK
    <3>2. \A n \in Nonces : counted[n] + (IF n \in expired \cup refused THEN 1 ELSE 0) \in Nat
      BY <3>1
    <3> QED  BY <1>1, <3>2
  <2> QED  BY Zenon, <1>1, <1>7, <1>13, <1>14, <2>1, <2>2, <2>3, <2>4, <2>5 DEF ProbeTypeOK
<1>16. ASSUME NEW n \in Nonces
       PROVE  counted'[n] + Times(n \in DOMAIN pending_probes') + Times(n \in consumed')
                  = Times(n \in Issued')
  <2>1. counted[n] + Times(n \in P) + Times(n \in consumed) = Times(n \in Issued)
        /\ counted[n] \in Nat
    BY ZenonT(30), <1>7 DEF ProbeInv, ProbeAccounted, ProbeTypeOK
  <2>2. counted'[n] = counted[n] + (IF n \in expired \cup refused THEN 1 ELSE 0)
    BY <1>1
  <2>3. consumed' = consumed
    BY <1>1
  <2>4. CASE n \in Issued
    BY <1>6, <1>8, <1>9, <2>1, <2>2, <2>3, <2>4 DEF Times
  <2>5. CASE n \notin Issued
    BY <1>2, <1>3, <1>6, <1>8, <1>9, <2>1, <2>2, <2>3, <2>5 DEF Times
  <2> QED  BY Zenon, <2>4, <2>5
<1>17. ProbeAccounted'
  <2>1. succeeded' \subseteq replied' \cup {f.nonce : f \in Stale}
    BY <1>1 DEF ProbeInv, ProbeAccounted
  <2> QED  BY Zenon, <1>15, <1>16, <2>1 DEF ProbeAccounted
<1>18. DOMAIN probe_sends' \subseteq Issued'
  BY <1>6, <1>8, <1>10
<1>19. \A f \in network' :
          /\ f.kind = "request" => f.nonce \in Nonces
          /\ f.kind = "reply" => f.nonce \in replied' \cup {g.nonce : g \in Stale}
  BY <1>1 DEF ProbeInv
<1>20. due' = FALSE /\ replying' \in Nat
  BY <1>1, <1>7
<1> QED  BY <1>12, <1>17, <1>18, <1>19, <1>20 DEF ProbeInv

\* Removing an entry leaves no more of them.
LEMMA WithoutFacts ==
    ASSUME NEW f, NEW g, NEW n, IsFiniteSet(DOMAIN f), g = Without(f, {n})
    PROVE  /\ DOMAIN g = DOMAIN f \ {n}
           /\ Cardinality(DOMAIN g) \in Nat
           /\ Cardinality(DOMAIN g) <= Cardinality(DOMAIN f)
<1>1. DOMAIN g = DOMAIN f \ {n}
  BY DEF Without
<1>2. DOMAIN g \in SUBSET (DOMAIN f)
  BY <1>1
<1>3. IsFiniteSet(DOMAIN g) /\ Cardinality(DOMAIN g) <= Cardinality(DOMAIN f)
  BY Zenon, <1>2, FS_Subset
<1>4. Cardinality(DOMAIN g) \in Nat
  BY <1>3, FS_CardinalityType
<1> QED  BY <1>1, <1>3, <1>4

\* The steps of the sender tasks, and of the arm that joins them.
LEMMA SenderInv ==
    ASSUME ProbeInv,
           \/ \E n \in DOMAIN probe_sends :
                 Transmit(n) \/ JoinDone(n) \/ JoinFailed(n)
                 \/ \E status \in {"failed", "done"} : TransmitFails(n, status)
    PROVE  ProbeInv'
<1> DEFINE Sends == [peer : Peers, status : {"running", "failed", "done"}]
<1>1. ProbeTypeOK /\ replying \in Nat /\ MaxInFlight \in Nat
  BY ProbeAssumption DEF ProbeInv, ProbeAccounted
<1>2. /\ IsFiniteSet(DOMAIN probe_sends) /\ Cardinality(DOMAIN probe_sends) \in Nat
      /\ IsFiniteSet(DOMAIN pending_probes) /\ Cardinality(DOMAIN pending_probes) \in Nat
  BY NumbersInUse
<1>3. PICK n \in DOMAIN probe_sends :
         Transmit(n) \/ JoinDone(n) \/ JoinFailed(n)
         \/ \E status \in {"failed", "done"} : TransmitFails(n, status)
  OBVIOUS
<1>4. n \in Nonces /\ n \in Issued /\ probe_sends[n] \in Sends
  BY <1>1 DEF ProbeTypeOK, ProbeInv
<1>5. /\ DOMAIN probe_sends' \subseteq DOMAIN probe_sends
      /\ \A m \in DOMAIN probe_sends' : probe_sends'[m] \in Sends
      /\ Cardinality(DOMAIN probe_sends') \in Nat
      /\ Cardinality(DOMAIN probe_sends') <= Cardinality(DOMAIN probe_sends)
  <2>1. \A m \in DOMAIN probe_sends : probe_sends[m] \in Sends
    BY <1>1 DEF ProbeTypeOK
  <2>2. CASE probe_sends' = Without(probe_sends, {n})
    <3>1. /\ DOMAIN probe_sends' = DOMAIN probe_sends \ {n}
          /\ Cardinality(DOMAIN probe_sends') \in Nat
          /\ Cardinality(DOMAIN probe_sends') <= Cardinality(DOMAIN probe_sends)
      BY Zenon, <1>2, <2>2, WithoutFacts
    <3>2. \A m \in DOMAIN probe_sends' : probe_sends'[m] = probe_sends[m]
      BY <2>2 DEF Without
    <3> QED  BY <2>1, <3>1, <3>2
  <2>3. CASE \E status \in {"failed", "done"} :
                probe_sends' = [probe_sends EXCEPT ![n].status = status]
    <3>1. PICK status \in {"failed", "done"} :
             probe_sends' = [probe_sends EXCEPT ![n].status = status]
      BY Zenon, <2>3
    <3>2. DOMAIN probe_sends' = DOMAIN probe_sends
      BY <3>1
    <3>3. \A m \in DOMAIN probe_sends' : probe_sends'[m] \in Sends
      BY <2>1, <3>1
    <3> QED  BY <1>2, <3>2, <3>3
  <2> QED  BY <1>3, <2>2, <2>3 DEF Transmit, JoinDone, JoinFailed, TransmitFails
<1>6. UNCHANGED <<due, listed, replying, next_probe_nonce, reachable, succeeded, consumed, replied>>
  BY <1>3 DEF Transmit, JoinDone, JoinFailed, TransmitFails, metricVars
<1>7. \/ UNCHANGED <<pending_probes, counted>>
      \/ /\ n \in DOMAIN pending_probes
         /\ pending_probes' = Without(pending_probes, {n})
         /\ counted' = [counted EXCEPT ![n] = @ + 1]
  BY <1>3 DEF Transmit, JoinDone, JoinFailed, TransmitFails, metricVars
<1>8. \/ network' = network
      \/ network' = network \cup {[kind |-> "request", peer |-> probe_sends[n].peer, nonce |-> n]}
  BY <1>3 DEF Transmit, JoinDone, JoinFailed, TransmitFails
<1>9. /\ DOMAIN pending_probes' \subseteq DOMAIN pending_probes
      /\ \A m \in DOMAIN pending_probes' : pending_probes'[m] = pending_probes[m]
      /\ Cardinality(DOMAIN pending_probes') \in Nat
      /\ Cardinality(DOMAIN pending_probes') <= Cardinality(DOMAIN pending_probes)
  <2>1. CASE pending_probes' = Without(pending_probes, {n})
    <3>1. /\ DOMAIN pending_probes' = DOMAIN pending_probes \ {n}
          /\ Cardinality(DOMAIN pending_probes') \in Nat
          /\ Cardinality(DOMAIN pending_probes') <= Cardinality(DOMAIN pending_probes)
      BY Zenon, <1>2, <2>1, WithoutFacts
    <3>2. \A m \in DOMAIN pending_probes' : pending_probes'[m] = pending_probes[m]
      BY <2>1 DEF Without
    <3> QED  BY <3>1, <3>2
  <2>2. CASE pending_probes' = pending_probes
    BY <1>2, <2>2
  <2> QED  BY <1>7, <2>1, <2>2
<1>10. counted' \in [Nonces -> Nat]
  BY <1>1, <1>4, <1>7 DEF ProbeTypeOK
<1>11. network' \subseteq Frame
       /\ \A f \in network' :
             /\ f.kind = "request" => f.nonce \in Nonces
             /\ f.kind = "reply" => f.nonce \in replied \cup {g.nonce : g \in Stale}
  <2>1. network \subseteq Frame
        /\ \A f \in network :
             /\ f.kind = "request" => f.nonce \in Nonces
             /\ f.kind = "reply" => f.nonce \in replied \cup {g.nonce : g \in Stale}
    BY <1>1 DEF ProbeInv, ProbeTypeOK
  <2>2. [kind |-> "request", peer |-> probe_sends[n].peer, nonce |-> n] \in Frame
    BY <1>4 DEF Frame, Nonces
  <2> QED  BY <1>4, <1>8, <2>1, <2>2
<1>12. Cardinality(DOMAIN pending_probes') <= (ProbeTimeout + 1) * PeerCount
  <2>1. (ProbeTimeout + 1) * PeerCount \in Nat
    BY ProbeAssumption
  <2> QED  BY <1>1, <1>2, <1>9, <2>1 DEF ProbeTypeOK
<1>13. Cardinality(DOMAIN probe_sends') + replying' <= MaxInFlight
  BY <1>1, <1>2, <1>5, <1>6 DEF ProbeTypeOK
<1>14. ProbeTypeOK'
  BY Zenon, <1>1, <1>5, <1>6, <1>9, <1>10, <1>11, <1>12, <1>13 DEF ProbeTypeOK
<1>15. ASSUME NEW m \in Nonces
       PROVE  counted'[m] + Times(m \in DOMAIN pending_probes') + Times(m \in consumed')
                  = Times(m \in Issued')
  <2>1. counted[m] + Times(m \in DOMAIN pending_probes) + Times(m \in consumed)
            = Times(m \in Issued)
        /\ counted \in [Nonces -> Nat]
    BY <1>1 DEF ProbeInv, ProbeAccounted, ProbeTypeOK
  <2>2. Issued' = Issued /\ consumed' = consumed
    BY <1>6 DEF Issued
  <2>3. CASE UNCHANGED <<pending_probes, counted>>
    BY <2>1, <2>2, <2>3
  <2>4. CASE /\ n \in DOMAIN pending_probes
             /\ pending_probes' = Without(pending_probes, {n})
             /\ counted' = [counted EXCEPT ![n] = @ + 1]
    <3>1. DOMAIN pending_probes' = DOMAIN pending_probes \ {n}
      BY Zenon, <1>2, <2>4, WithoutFacts
    <3>2. counted'[m] = IF m = n THEN counted[m] + 1 ELSE counted[m]
      BY <2>1, <2>4
    <3>3. counted[m] \in Nat
      BY Zenon, <2>1
    <3> QED  BY <2>1, <2>2, <2>4, <3>1, <3>2, <3>3 DEF Times
  <2> QED  BY Zenon, <1>7, <2>3, <2>4
<1>16. ProbeAccounted'
  <2>1. succeeded' \subseteq replied' \cup {f.nonce : f \in Stale}
    BY <1>6 DEF ProbeInv, ProbeAccounted
  <2> QED  BY <1>14, <1>15, <2>1 DEF ProbeAccounted
<1>17. DOMAIN probe_sends' \subseteq Issued' /\ replying' \in Nat
  BY <1>1, <1>5, <1>6 DEF ProbeInv, Issued
<1>18. /\ due' => \A m \in DOMAIN pending_probes' : pending_probes'[m].age > 0
       /\ \A l, m \in DOMAIN pending_probes' :
             pending_probes'[l] = pending_probes'[m] /\ pending_probes'[m].age <= ProbeTimeout => l = m
  BY <1>6, <1>9 DEF ProbeInv
<1> QED  BY <1>6, <1>11, <1>16, <1>17, <1>18 DEF ProbeInv

\* A reply ends its probe: counted, or consumed if it is from another peer.
LEMMA ReplyInv ==
    ASSUME ProbeInv, NEW f \in network, OnReply(f)
    PROVE  ProbeInv'
<1> DEFINE n == f.nonce
<1>1. ProbeTypeOK /\ replying \in Nat
  BY Zenon DEF ProbeInv, ProbeAccounted
<1>2. /\ f.kind = "reply" /\ n \in DOMAIN pending_probes
      /\ pending_probes' = Without(pending_probes, {n})
      /\ \/ /\ counted' = [counted EXCEPT ![n] = @ + 1]
            /\ succeeded' = succeeded \cup {n}
            /\ reachable' = reachable \cup {f.peer}
            /\ consumed' = consumed
         \/ /\ consumed' = consumed \cup {n}
            /\ UNCHANGED <<counted, succeeded, reachable>>
      /\ UNCHANGED <<due, listed, probe_sends, replying, next_probe_nonce, network, replied>>
  BY Zenon DEF OnReply
<1>3. f \in Frame /\ n \in Nonces /\ n \in replied \cup {g.nonce : g \in Stale}
  BY <1>1, <1>2 DEF ProbeInv, ProbeTypeOK
<1>4. f.peer \in Peers
  BY <1>3 DEF Frame
<1>5. IsFiniteSet(DOMAIN pending_probes) /\ Cardinality(DOMAIN pending_probes) \in Nat
  BY NumbersInUse
<1> HIDE DEF n
<1>6. /\ DOMAIN pending_probes' = DOMAIN pending_probes \ {n}
      /\ Cardinality(DOMAIN pending_probes') \in Nat
      /\ Cardinality(DOMAIN pending_probes') <= Cardinality(DOMAIN pending_probes)
  BY Zenon, <1>2, <1>5, WithoutFacts
<1>7. \A m \in DOMAIN pending_probes' : pending_probes'[m] = pending_probes[m]
  BY <1>2 DEF Without
<1>8. Cardinality(DOMAIN pending_probes') <= (ProbeTimeout + 1) * PeerCount
  <2>1. (ProbeTimeout + 1) * PeerCount \in Nat
    BY ProbeAssumption
  <2> QED  BY <1>1, <1>5, <1>6, <2>1 DEF ProbeTypeOK
<1>9. counted' \in [Nonces -> Nat] /\ succeeded' \subseteq Nonces /\ consumed' \subseteq Nonces
      /\ reachable' \subseteq Peers
  BY <1>1, <1>2, <1>3, <1>4 DEF ProbeTypeOK
<1>10. ProbeTypeOK'
  BY Zenon, <1>1, <1>2, <1>6, <1>7, <1>8, <1>9 DEF ProbeTypeOK
<1>11. ASSUME NEW m \in Nonces
       PROVE  counted'[m] + Times(m \in DOMAIN pending_probes') + Times(m \in consumed')
                  = Times(m \in Issued')
  <2>1. counted[m] + Times(m \in DOMAIN pending_probes) + Times(m \in consumed)
            = Times(m \in Issued)
    BY DEF ProbeInv, ProbeAccounted
  <2>2. counted[m] \in Nat /\ Issued' = Issued
    BY <1>1, <1>2 DEF ProbeTypeOK, Issued
  <2>3. counted \in [Nonces -> Nat]
    BY Zenon, <1>1 DEF ProbeTypeOK
  <2>4. CASE m # n
    BY <1>2, <1>6, <2>1, <2>2, <2>3, <2>4 DEF Times
  <2>5. CASE m = n
    <3>1. counted[n] = 0 /\ n \notin consumed /\ n \in Issued
      BY <1>2, <2>1, <2>2, <2>5 DEF Times
    <3> QED  BY <1>2, <1>3, <1>6, <2>2, <2>3, <2>5, <3>1 DEF Times
  <2> QED  BY <2>4, <2>5
<1>12. succeeded' \subseteq replied' \cup {g.nonce : g \in Stale}
  BY <1>2, <1>3 DEF ProbeInv, ProbeAccounted
<1>13. ProbeAccounted'
  BY <1>10, <1>11, <1>12 DEF ProbeAccounted
<1>14. DOMAIN probe_sends' \subseteq Issued' /\ replying' \in Nat
  BY <1>1, <1>2 DEF ProbeInv, Issued
<1>15. /\ due' => \A m \in DOMAIN pending_probes' : pending_probes'[m].age > 0
       /\ \A l, m \in DOMAIN pending_probes' :
             pending_probes'[l] = pending_probes'[m] /\ pending_probes'[m].age <= ProbeTimeout => l = m
  <2>1. due' = due /\ DOMAIN pending_probes' \subseteq DOMAIN pending_probes
    BY <1>2, <1>6
  <2> QED  BY <1>7, <2>1 DEF ProbeInv
<1>16. \A g \in network' :
          /\ g.kind = "request" => g.nonce \in Nonces
          /\ g.kind = "reply" => g.nonce \in replied' \cup {h.nonce : h \in Stale}
  BY <1>2 DEF ProbeInv
<1> QED  BY Zenon, <1>13, <1>14, <1>15, <1>16 DEF ProbeInv

\* A peer's answer is to a request of ours.
LEMMA AnswerInv ==
    ASSUME ProbeInv, NEW f \in network, PeerAnswers(f)
    PROVE  ProbeInv'
<1> DEFINE reply == [f EXCEPT !.kind = "reply"]
<1>1. ProbeTypeOK
  BY DEF ProbeInv, ProbeAccounted
<1>2. f \in Frame /\ f.kind = "request" /\ f.nonce \in Nonces
  BY <1>1 DEF PeerAnswers, ProbeInv, ProbeTypeOK
<1>3. reply \in Frame /\ reply.kind = "reply" /\ reply.nonce = f.nonce
  BY <1>2 DEF Frame
<1>4. /\ network' = network \cup {reply} /\ replied' = replied \cup {f.nonce}
      /\ UNCHANGED <<relayVars, metricVars>>
  BY Zenon DEF PeerAnswers
<1> HIDE DEF reply
<1>5. ProbeTypeOK'
  BY Zenon, <1>1, <1>2, <1>3, <1>4 DEF ProbeTypeOK, relayVars, metricVars
<1>6. ProbeAccounted'
  BY <1>4, <1>5 DEF ProbeInv, ProbeAccounted, relayVars, metricVars, Issued
<1>7. \A g \in network' :
          /\ g.kind = "request" => g.nonce \in Nonces
          /\ g.kind = "reply" => g.nonce \in replied' \cup {h.nonce : h \in Stale}
  BY <1>3, <1>4 DEF ProbeInv
<1> QED  BY <1>4, <1>6, <1>7 DEF ProbeInv, relayVars, metricVars, Issued

\* The steps about the peers' requests and the other packets.
LEMMA OtherInv ==
    ASSUME ProbeInv,
           (\E p \in Peers : OnRequest(p) \/ SendFails(p)) \/ JoinReply
    PROVE  ProbeInv'
<1>1. ProbeTypeOK /\ replying \in Nat /\ MaxInFlight \in Nat
  BY ProbeAssumption DEF ProbeInv, ProbeAccounted
<1>2. Cardinality(DOMAIN probe_sends) \in Nat
  BY NumbersInUse
<1>3. UNCHANGED <<due, listed, pending_probes, probe_sends, next_probe_nonce,
                  counted, succeeded, consumed, network, replied>>
  BY DEF OnRequest, SendFails, JoinReply, relayVars, metricVars
<1>4. replying' \in Nat /\ Cardinality(DOMAIN probe_sends) + replying' <= MaxInFlight
      /\ reachable' \subseteq Peers
  BY <1>1, <1>2
     DEF OnRequest, SendFails, JoinReply, relayVars, metricVars, InFlight, ProbeTypeOK
<1>5. ProbeTypeOK'
  BY <1>1, <1>3, <1>4 DEF ProbeTypeOK
<1>6. ProbeAccounted'
  BY Zenon, <1>3, <1>5 DEF ProbeInv, ProbeAccounted, Issued
<1> QED  BY <1>3, <1>4, <1>6 DEF ProbeInv, Issued

\* A second passes for every pending probe.
LEMMA TickInv ==
    ASSUME ProbeInv, ProbeTick
    PROVE  ProbeInv'
<1> DEFINE older(n) == Aged(pending_probes[n].age, ProbeTimeout)
<1>1. ProbeTypeOK /\ ProbeTimeout \in Nat
  BY ProbeAssumption DEF ProbeInv, ProbeAccounted
<1>2. /\ pending_probes' = [n \in DOMAIN pending_probes |->
              [peer |-> pending_probes[n].peer, age |-> older(n)]]
      /\ UNCHANGED <<listed, probe_sends, replying, next_probe_nonce, reachable, counted,
                     succeeded, consumed, network, replied>>
      /\ due' = TRUE
  BY Zenon DEF ProbeTick, metricVars
<1>3. \A n \in DOMAIN pending_probes :
         pending_probes[n] \in [peer : Peers, age : 0 .. ProbeTimeout + 1]
  BY <1>1 DEF ProbeTypeOK
<1>4. \A n \in DOMAIN pending_probes : older(n) \in 1 .. ProbeTimeout + 1
  BY <1>1, <1>3 DEF Aged
<1>5. \A m, n \in DOMAIN pending_probes :
         older(m) = older(n) /\ older(n) <= ProbeTimeout
            => pending_probes[m].age = pending_probes[n].age
               /\ pending_probes[n].age <= ProbeTimeout
  BY <1>1, <1>3 DEF Aged
<1> HIDE DEF older
<1>6. DOMAIN pending_probes' = DOMAIN pending_probes
      /\ \A n \in DOMAIN pending_probes :
            pending_probes'[n] = [peer |-> pending_probes[n].peer, age |-> older(n)]
  BY <1>2
<1>7. \A n \in DOMAIN pending_probes' :
         /\ pending_probes'[n] \in [peer : Peers, age : 0 .. ProbeTimeout + 1]
         /\ pending_probes'[n].age > 0
  BY <1>1, <1>3, <1>4, <1>6
<1>8. ASSUME NEW m \in DOMAIN pending_probes, NEW n \in DOMAIN pending_probes,
             pending_probes'[m] = pending_probes'[n], pending_probes'[n].age <= ProbeTimeout
      PROVE  m = n
  <2>1. older(m) = older(n) /\ older(n) <= ProbeTimeout
        /\ pending_probes[m].peer = pending_probes[n].peer
    BY <1>6, <1>8
  <2>2. pending_probes[m].age = pending_probes[n].age /\ pending_probes[n].age <= ProbeTimeout
    BY <1>5, <2>1
  <2>3. pending_probes[m] = pending_probes[n]
    BY <1>3, <2>1, <2>2
  <2> QED  BY <2>2, <2>3 DEF ProbeInv
<1>9. ProbeTypeOK'
  BY Zenon, <1>1, <1>2, <1>6, <1>7 DEF ProbeTypeOK
<1>10. ProbeAccounted'
  BY <1>2, <1>6, <1>9 DEF ProbeInv, ProbeAccounted, Issued
<1> QED  BY Zenon, <1>2, <1>6, <1>7, <1>8, <1>10 DEF ProbeInv, Issued

\* Init establishes the invariant.
LEMMA ProbeInitInv == ProbeInit => ProbeInv
<1> SUFFICES ASSUME ProbeInit
             PROVE  ProbeInv
  OBVIOUS
<1>1. DOMAIN pending_probes = {} /\ DOMAIN probe_sends = {} /\ Issued = {}
  BY DEF ProbeInit, Issued
<1>2. Cardinality(DOMAIN pending_probes) = 0 /\ Cardinality(DOMAIN probe_sends) = 0
  BY <1>1, FS_EmptySet
<1>3. (ProbeTimeout + 1) * PeerCount \in Nat /\ MaxInFlight \in Nat /\ MaxNonce \in Nat
      /\ replying = 0 /\ next_probe_nonce = 1 /\ next_probe_nonce \in 1 .. MaxNonce + 1
  BY ProbeAssumption DEF ProbeInit
<1>4. network \subseteq Frame /\ counted \in [Nonces -> Nat]
      /\ \A f \in network : f.kind = "reply" /\ f \in Stale
  BY ProbeAssumption DEF ProbeInit, Frame
<1>5. ProbeTypeOK
  BY <1>1, <1>2, <1>3, <1>4 DEF ProbeInit, ProbeTypeOK
<1>6. \A n \in Nonces :
         counted[n] + Times(n \in DOMAIN pending_probes) + Times(n \in consumed)
            = Times(n \in Issued)
  BY <1>1 DEF ProbeInit, Times
<1>7. ProbeAccounted
  BY <1>5, <1>6 DEF ProbeAccounted, ProbeInit
<1> QED  BY <1>1, <1>3, <1>4, <1>7 DEF ProbeInv

\* Every step preserves it.
LEMMA ProbeStepInv == ProbeInv /\ [ProbeNext]_probeVars => ProbeInv'
<1> SUFFICES ASSUME ProbeInv, [ProbeNext]_probeVars
             PROVE  ProbeInv'
  OBVIOUS
<1>1. CASE UNCHANGED probeVars
  <2>1. ProbeTypeOK'
    BY Zenon, <1>1 DEF ProbeInv, ProbeAccounted, ProbeTypeOK, probeVars, relayVars, metricVars
  <2>2. ProbeAccounted'
    BY <1>1, <2>1 DEF ProbeInv, ProbeAccounted, probeVars, relayVars, metricVars, Issued
  <2> QED  BY Zenon, <1>1, <2>2 DEF ProbeInv, probeVars, relayVars, metricVars, Issued
<1>2. CASE ProbeNext
  BY <1>2, RefreshInv, SenderInv, ReplyInv, AnswerInv, OtherInv, TickInv DEF ProbeNext
<1> QED  BY <1>1, <1>2

\* Every probe of a relay is pending, counted or consumed by a wrong reply,
\* exactly one of them, and the sender slots and pending probes stay within
\* their limits, for any number of peers and slots and any replies left over
\* from the generation before (easytier.rs:251, 296, 310, 328, 413).
THEOREM ProbesAreAccounted == ProbeSpec => []ProbeAccounted
<1>1. ProbeInv => ProbeAccounted
  BY DEF ProbeInv
<1> QED  BY <1>1, ProbeInitInv, ProbeStepInv, PTL DEF ProbeSpec
===============================================================================
