----------------------------- MODULE MCQrSignin -----------------------------
(* The instance TLC checks: one person, a source and its targets. *)
EXTENDS QrSignin, TLC

\* Requests, transfers and devices are only compared.
Symmetry == Permutations(Requests) \cup Permutations(Transfers) \cup Permutations(Devices)
============================================================================
