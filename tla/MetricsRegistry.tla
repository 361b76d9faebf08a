---------------------------- MODULE MetricsRegistry ----------------------------
(***************************************************************************)
(* The metrics registry (metrics.rs) across changes of generation: one     *)
(* path's entry per peer, with the availability flag and the window of     *)
(* probe samples.  Relays write entries, the console reads them, and       *)
(* replace_generation (management.rs) removes the peers that are gone.     *)
(* Writing and reading both create an entry that does not exist.           *)
(*                                                                         *)
(* The console takes the list of peers first and reads their metrics one   *)
(* by one, so a change of generation may come in between.  Ages of samples *)
(* stop growing once they are past the window.  Only relays of the running *)
(* generation write: one that outlives a failed generation is left out.    *)
(***************************************************************************)
EXTENDS Naturals, Sequences, FiniteSetsExt

CONSTANTS
    Peer,
    MaxSamples,      \* samples trim_probes keeps
    SampleWindow     \* seconds trim_probes keeps them

ASSUME MetricsAssumption == MaxSamples \in Nat /\ SampleWindow \in Nat

VARIABLES
    peers,      \* peers of the running generation
    registry,   \* peer -> its entry
    shown,      \* peers of the console's map
    reading     \* peers a console request has yet to read

metricsVars == <<peers, registry, shown, reading>>

\* PathMetrics::default.
Default == [available |-> FALSE, probes |-> <<>>]

MetricsInit ==
    /\ peers = {}
    /\ registry = [p \in {} |-> Default]
    /\ shown = {}
    /\ reading = {}

\* trim_probes drops samples from the front until the window is short enough
\* and its first sample young enough.
trim_probes(samples) ==
    LET stops == {k \in 1 .. Len(samples) + 1 :
                    /\ Len(samples) - k + 1 <= MaxSamples
                    /\ k <= Len(samples) => samples[k].age <= SampleWindow}
    IN  SubSeq(samples, Min(stops), Len(samples))

\* entry().or_default()
Entry(p) == IF p \in DOMAIN registry THEN registry[p] ELSE Default
with_path(p, entry) == [q \in DOMAIN registry \cup {p} |-> IF q = p THEN entry ELSE registry[q]]

set_available(p, available) ==
    /\ p \in peers
    /\ registry' = with_path(p, [Entry(p) EXCEPT !.available = available])
    /\ UNCHANGED <<peers, shown, reading>>

record_probe(p, success) ==
    /\ p \in peers
    /\ registry' = with_path(p,
            [available |-> success \/ Entry(p).available,
             probes |-> trim_probes(Append(Entry(p).probes, [age |-> 0, success |-> success]))])
    /\ UNCHANGED <<peers, shown, reading>>

\* Mutant: the old peers stay in the registry.
replace_generation_keeps(P) ==
    /\ peers' = P
    /\ registry' = [p \in DOMAIN registry \cup P |-> Entry(p)]
    /\ UNCHANGED <<shown, reading>>

\* A new generation registers its paths and replace_generation removes the
\* other peers' entries.
replace_generation(P) ==
    /\ peers' = P
    /\ registry' = [p \in P |-> Entry(p)]
    /\ UNCHANGED <<shown, reading>>

\* replace_generation, later: the console's map is exchanged.
PublishPeers ==
    /\ shown' = peers
    /\ UNCHANGED <<peers, registry, reading>>

\* A console request clones the map, then reads each peer's metrics.
StartSnapshot ==
    /\ reading = {}
    /\ reading' = shown
    /\ UNCHANGED <<peers, registry, shown>>

snapshot(p) ==
    /\ p \in reading
    /\ reading' = reading \ {p}
    /\ registry' = with_path(p, [Entry(p) EXCEPT !.probes = trim_probes(@)])
    /\ UNCHANGED <<peers, shown>>

Older(age) == IF age <= SampleWindow THEN age + 1 ELSE age

MetricsTick ==
    /\ registry' = [p \in DOMAIN registry |-> [registry[p] EXCEPT !.probes =
            [i \in DOMAIN @ |-> [@[i] EXCEPT !.age = Older(@)]]]]
    /\ UNCHANGED <<peers, shown, reading>>

MetricsNext ==
    \/ \E p \in Peer, available \in BOOLEAN : set_available(p, available)
    \/ \E p \in Peer, success \in BOOLEAN : record_probe(p, success)
    \/ \E P \in SUBSET Peer : replace_generation(P)
    \/ PublishPeers
    \/ StartSnapshot
    \/ \E p \in Peer : snapshot(p)
    \/ MetricsTick

MetricsSpec == MetricsInit /\ [][MetricsNext]_metricsVars

-------------------------------------------------------------------------------
\* A peer that joins, or comes back, starts unavailable and without samples,
\* also when a console request has created its entry again after it was
\* removed (metrics.rs:139, 195, 230).
FreshStart ==
    [][\A p \in peers' \ peers :
          registry'[p].available = FALSE /\ registry'[p].probes = <<>>]_metricsVars

\* Why it holds, as an inductive invariant: an entry that a console request
\* created for a peer that is gone is empty.
MetricsInv ==
    /\ peers \subseteq DOMAIN registry
    /\ \A p \in DOMAIN registry \ peers : registry[p] = Default
===============================================================================
