------------------------------- MODULE MCMaster -------------------------------
EXTENDS MasterSpec, TLC
CONSTANTS a1, a2, a3,
          MaxBatch   \* bound: vnodes listed in a sync-down message
\* a3 shares its zone with a1.
MCZone == [a \in Addrs |-> IF a = a2 THEN "z2" ELSE "z1"]
MCWeight == [a \in Addrs |-> 1]
\* The lists of a sync-down: any vnodes, in any order, as often as they like.
MCBatches == UNION {[1..n -> Vnodes] : n \in 1..MaxBatch}
=============================================================================
