---------------------------- MODULE CoinLedger ----------------------------
(***************************************************************************)
(* What server/coins/wallet.js promises the services that call it: a       *)
(* credit, a debit or a transfer happens at once or not at all, once for   *)
(* its idempotency key, and no balance is ever negative.                   *)
(***************************************************************************)
EXTENDS Integers

CONSTANTS Users, CallerKeys, InKey(_), Amounts, Opening

VARIABLES
    balance,  \* of each person
    applied   \* the keys that have had their effect

Init == balance = Opening /\ applied = {}

Credit(u, a, k) ==
    /\ k \notin applied
    /\ balance' = [balance EXCEPT ![u] = @ + a]
    /\ applied' = applied \cup {k}

Debit(u, a, k) ==
    /\ k \notin applied
    /\ balance[u] >= a
    /\ balance' = [balance EXCEPT ![u] = @ - a]
    /\ applied' = applied \cup {k}

Transfer(u, v, a, k) ==
    /\ u # v
    /\ k \notin applied /\ InKey(k) \notin applied
    /\ balance[u] >= a
    /\ balance' = [balance EXCEPT ![u] = @ - a, ![v] = @ + a]
    /\ applied' = applied \cup {k, InKey(k)}

Next ==
    \E u \in Users, a \in Amounts, k \in CallerKeys :
        \/ Credit(u, a, k)
        \/ Debit(u, a, k)
        \/ \E v \in Users : Transfer(u, v, a, k)

Spec == Init /\ [][Next]_<<balance, applied>>

============================================================================
