-------------------------------- MODULE MCSync --------------------------------
EXTENDS KunlunSync, TLC
CONSTANTS a1, a2, a3,
          MaxBatch   \* bound: vnodes listed in a sync-down message
\* Every node is in a zone of its own, so nodes are interchangeable.
MCZone == [a \in Addrs |-> a]
MCWeight == [a \in Addrs |-> 1]
\* The lists of a sync-down: any vnodes, in any order, as often as they like.
MCBatches == UNION {[1..n -> Vnodes] : n \in 1..MaxBatch}
Nodes == Permutations(Addrs)
=============================================================================
