--------------------------- MODULE MCMachinePools ---------------------------
(* MachinePools for TLC: two machines of one owner, two pools.             *)
EXTENDS MachinePools, TLC

CONSTANTS r1, r2, p1, p2, k1, k2

Symmetry == Permutations(Calls) \cup Permutations(Pools) \cup Permutations(Keys)

\* Bound: one machine at most is unpaired, or paired again.
OneChanges == Cardinality({m \in Machines : registry[m].owner = NoOne \/ registry[m].gen > 1}) <= 1

\* Bound: a behaviour ends with the first revocation that is cut short.
NoneTorn == torn = {}
=============================================================================
