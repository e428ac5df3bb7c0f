---------------------------- MODULE MCCoinWallet ----------------------------
(* The instance TLC checks: two people, a key and the key it gives to the  *)
(* credit side of its transfer, which a caller may also send.              *)
EXTENDS CoinWallet, TLC

CONSTANTS alice, bob

MCUsers == {alice, bob}
MCInKey(k) == Append(k, "in")
OneKey == {<<"k">>}
TwoKeys == {<<"k">>, <<"k", "in">>}
MCOpening == [u \in MCUsers |-> 1]
Symmetry == Permutations(Requests)
============================================================================
