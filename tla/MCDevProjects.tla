--------------------------- MODULE MCDevProjects ---------------------------
(* DevProjects for TLC: two people, a sandbox app, an agent, a capability. *)
EXTENDS DevProjects

CONSTANTS r1, r2, ada, ben, a1, c1, g1, g2

Symmetry == Permutations(Requests) \cup Permutations(Agents)
=============================================================================
