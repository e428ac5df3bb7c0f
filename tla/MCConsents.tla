----------------------------- MODULE MCConsents -----------------------------
(* Consents for TLC: one app, one purpose besides app.data, two rows.      *)
EXTENDS Consents, TLC

CONSTANTS r1, r2, c1, c2, train, data, app

Symmetry == Permutations(Requests) \cup Permutations(Rows)

\* Bound: behaviours end with the first event that is lost; it changes nothing
\* but what the service knows, of which nothing is said then.
NothingLost == ~lost
=============================================================================
