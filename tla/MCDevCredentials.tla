-------------------------- MODULE MCDevCredentials --------------------------
(* DevCredentials for TLC: one app with three secrets, a key and a code.   *)
EXTENDS DevCredentials

CONSTANTS r1, r2, s1, s2, s3, k1, d1

Symmetry == Permutations(Requests) \cup Permutations(Creds \ {First})

\* Bound: of the secrets, the key, the code and the project's secret, at most
\* two are in play in one behaviour; they meet only in the app and the project.
PartsInPlay == Cardinality({p \in Kinds :
    \/ p = "credential" /\ \E c \in Creds : c # First /\ cred[c].state # "none"
    \/ p = "key" /\ \E k \in Keys : key[k].state # "none"
    \/ p = "code" /\ \E d \in Codes : code[d].state # "none"
    \/ p = "secret" /\ secret # NoSecret})
TwoParts == PartsInPlay <= 2
=============================================================================
