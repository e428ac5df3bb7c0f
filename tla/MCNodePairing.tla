---------------------------- MODULE MCNodePairing ----------------------------
(* NodePairing for TLC: two codes, two machines.                            *)
EXTENDS NodePairing, TLC

CONSTANTS r1, r2, k1, k2, n1, n2

Symmetry == Permutations(Requests) \cup Permutations(Codes) \cup Permutations(Nodes)
=============================================================================
