-------------------------- MODULE MCRefreshTokens --------------------------
(* The instance TLC checks: one person, one to three tokens beyond the     *)
(* first, two requests in any order.                                       *)
EXTENDS RefreshTokens, TLC

\* Requests and tokens are only ever compared for equality.
RequestSymmetry == Permutations(Requests)
Symmetry == RequestSymmetry \cup Permutations(Tokens)

\* audit is written and never read by a handler, so where no property but its type reads it
\* two states that differ in it alone behave alike.
ViewWithoutAudit == <<clock, banned, validAfter, cuts, certs, code, tok, pc, req>>

\* In the run about rotation a banned person's refresh adds nothing: refused
\* after the token was spent, it is the request that fails there (Fail).
NobodyBanned == ~banned
============================================================================
