---------------------------- MODULE CoinWallet ----------------------------
(***************************************************************************)
(* The OpenCoins wallet: server/coins/wallet.js.                           *)
(*                                                                         *)
(* A credit, a debit or a transfer is one READ COMMITTED transaction: look *)
(* for the idempotency key; for each side (a leg) move the balance with a  *)
(* conditional UPDATE, which locks the wallet row until commit, and insert *)
(* the ledger row, whose key is UNIQUE and whose id comes from a sequence; *)
(* commit.  A key found answers with the balance right after its row,      *)
(* summed from the ledger.  One action is one statement; creating the      *)
(* wallet row at 0 is part of the UPDATE, for no row reads as 0.           *)
(*                                                                         *)
(* Validation of input and the existence of the users are left out (they   *)
(* refuse before the transaction), and so is what an account merge or an   *)
(* erasure adds around a debit.                                            *)
(***************************************************************************)
EXTENDS Integers, Sequences, FiniteSets, FiniteSetsExt

CONSTANTS
    Requests,    \* requests; a retry of a service is another request
    Users,
    CallerKeys,  \* idempotency keys as the services send them
    InKey(_),    \* `${idempotency_key}:in`
    Amounts,
    Opening      \* the sums of the ledger rows written before

ASSUME WalletAssumption ==
    /\ Amounts \subseteq Nat \ {0}
    /\ Opening \in [Users -> Nat]
    /\ \A k, l \in CallerKeys : InKey(k) = InKey(l) => k = l
    /\ \A k \in CallerKeys : InKey(k) # k

VARIABLES
    wallet,  \* wallets.balance, as committed
    ledger,  \* coin_transactions, as committed
    nextId,  \* the sequence of coin_transactions.id
    pc, req  \* the transactions

vars == <<wallet, ledger, nextId, pc, req>>

----------------------------------------------------------------------------
Keys == CallerKeys \cup {InKey(k) : k \in CallerKeys}
Leg == [user: Users, delta: Int, key: Keys]
LedgerRow == [id: Nat, user: Users, delta: Int, key: Keys]

\* rows are the transaction's own inserts; moved its own, uncommitted updates;
\* result the balances it answers with.
Job == [legs: Seq(Leg), rows: SUBSET LedgerRow, moved: SUBSET Leg,
        result: Seq(Int), status: {"open", "ok", "replayed", "insufficient", "error"}]

PCs == {"new", "look", "move", "insert", "commit", "done"}

TypeOK ==
    /\ wallet \in [Users -> Int] /\ nextId \in Nat
    /\ ledger \subseteq LedgerRow
    /\ pc \in [Requests -> PCs]
    /\ req \in [Requests -> Job]

NoJob == [legs |-> <<>>, rows |-> {}, moved |-> {}, result |-> <<>>, status |-> "open"]

Init ==
    /\ wallet = Opening /\ ledger = {} /\ nextId = 1
    /\ pc = [r \in Requests |-> "new"]
    /\ req = [r \in Requests |-> NoJob]

\* creditOrDebit has one leg; transfer debits one person and credits the other.
Credit(u, a, k) == <<[user |-> u, delta |-> a, key |-> k]>>
Debit(u, a, k) == <<[user |-> u, delta |-> -a, key |-> k]>>

Transfer(u, v, a, k) == Debit(u, a, k) \o Credit(v, a, InKey(k))

Goto(r, step) == pc' = [pc EXCEPT ![r] = step]

\* The answer is sent; a rollback gives up what the transaction wrote.
Answer(r, status, result) ==
    /\ Goto(r, "done")
    /\ req' = [req EXCEPT ![r] = [legs |-> req[r].legs, rows |-> {}, moved |-> {},
                                  result |-> result, status |-> status]]

RowOf(k) == CHOOSE row \in ledger : row.key = k
Applied(k) == \E row \in ledger : row.key = k

Sum(rows) == MapThenSumSet(LAMBDA x : x.delta, rows)
RowsOf(u) == {x \in ledger : x.user = u}

\* SUM(delta) of the person's rows up to this one.
BalanceAfter(row) ==
    Opening[row.user] + Sum({x \in RowsOf(row.user) : x.id <= row.id})

----------------------------------------------------------------------------
Begin(r, legs) ==
    /\ pc[r] = "new"
    /\ Goto(r, "look")
    /\ req' = [req EXCEPT ![r].legs = legs]
    /\ UNCHANGED <<wallet, ledger, nextId>>

\* findByIdempotencyKey, and the replay's answer when there is one; the credit
\* side of a transfer found without its row is read from the wallet.
Look(r) ==
    LET legs == req[r].legs
        after(i) == IF Applied(legs[i].key) THEN BalanceAfter(RowOf(legs[i].key))
                                            ELSE wallet[legs[i].user]
    IN
    /\ pc[r] = "look"
    /\ IF Applied(legs[1].key)
       THEN Answer(r, "replayed", [i \in 1..Len(legs) |-> after(i)])
       ELSE Goto(r, "move") /\ UNCHANGED req
    /\ UNCHANGED <<wallet, ledger, nextId>>

NextLeg(r) == req[r].legs[Cardinality(req[r].rows) + 1]

WalletFree(r, u) == \A o \in Requests \ {r} : \A leg \in req[o].moved : leg.user # u
KeyFree(r, k) == \A o \in Requests \ {r} : \A row \in req[o].rows : row.key # k

\* Mutant: no conditional UPDATE, nor a lock, keeps two spends apart.
MoveUnlocked(r) ==
    LET leg == NextLeg(r) IN
    /\ pc[r] = "move"
    /\ IF wallet[leg.user] + leg.delta >= 0
       THEN /\ req' = [req EXCEPT ![r].moved = @ \cup {leg},
                         ![r].result = Append(@, wallet[leg.user] + leg.delta)]
            /\ Goto(r, "insert")
       ELSE Answer(r, "insufficient", <<wallet[leg.user]>>)
    /\ UNCHANGED <<wallet, ledger, nextId>>

\* applyDelta: UPDATE wallets ... WHERE user_id = ? AND balance + ? >= 0.
Move(r) ==
    LET leg == NextLeg(r) IN
    /\ pc[r] = "move"
    /\ WalletFree(r, leg.user)
    /\ IF wallet[leg.user] + leg.delta >= 0
       THEN /\ req' = [req EXCEPT ![r].moved = @ \cup {leg},
                         ![r].result = Append(@, wallet[leg.user] + leg.delta)]
            /\ Goto(r, "insert")
       ELSE Answer(r, "insufficient", <<wallet[leg.user]>>)
    /\ UNCHANGED <<wallet, ledger, nextId>>

\* Mutant: idempotency_key is not UNIQUE.
InsertAgain(r) ==
    LET leg == NextLeg(r)
        row == [id |-> nextId, user |-> leg.user, delta |-> leg.delta, key |-> leg.key]
        last == Cardinality(req[r].rows) + 1 = Len(req[r].legs)
    IN
    /\ pc[r] = "insert"
    /\ nextId' = nextId + 1
    /\ req' = [req EXCEPT ![r].rows = @ \cup {row}]
    /\ Goto(r, IF last THEN "commit" ELSE "move")
    /\ UNCHANGED <<wallet, ledger>>

\* applyDelta: INSERT INTO coin_transactions; a key that is there already, or
\* arrives while it waits for the other transaction, is a unique violation.
Insert(r) ==
    LET leg == NextLeg(r)
        row == [id |-> nextId, user |-> leg.user, delta |-> leg.delta, key |-> leg.key]
        last == Cardinality(req[r].rows) + 1 = Len(req[r].legs)
    IN
    /\ pc[r] = "insert"
    /\ KeyFree(r, leg.key)
    /\ nextId' = nextId + 1
    /\ IF Applied(leg.key)
       THEN Answer(r, "error", <<>>)
       ELSE /\ req' = [req EXCEPT ![r].rows = @ \cup {row}]
            /\ Goto(r, IF last THEN "commit" ELSE "move")
    /\ UNCHANGED <<wallet, ledger>>

Commit(r) ==
    /\ pc[r] = "commit"
    /\ wallet' = [u \in Users |-> wallet[u] + Sum({leg \in req[r].moved : leg.user = u})]
    /\ ledger' = ledger \cup req[r].rows
    /\ Answer(r, "ok", req[r].result)
    /\ UNCHANGED nextId

\* The process stops, the connection breaks or PostgreSQL breaks a deadlock.
Abort(r) ==
    /\ pc[r] \in {"look", "move", "insert", "commit"}
    /\ Answer(r, "error", <<>>)
    /\ UNCHANGED <<wallet, ledger, nextId>>

----------------------------------------------------------------------------
Begins(r) ==
    \E u \in Users, a \in Amounts, k \in CallerKeys :
        \/ Begin(r, Credit(u, a, k))
        \/ Begin(r, Debit(u, a, k))
        \/ \E v \in Users \ {u} : Begin(r, Transfer(u, v, a, k))

Continues(r) == Look(r) \/ Move(r) \/ Insert(r) \/ Commit(r)

Next == \E r \in Requests : Begins(r) \/ Continues(r) \/ Abort(r)

Spec == Init /\ [][Next]_vars

----------------------------------------------------------------------------
(* Properties *)

\* The wallet is the sum of its ledger, and is never overdrawn: two spends of
\* one balance do not both succeed.
WalletIsLedger == TypeOK /\
    \A u \in Users :
        /\ wallet[u] >= 0
        /\ wallet[u] = Opening[u] + Sum(RowsOf(u))

\* A replayed key answers with the very balances of the first answer, whatever
\* was spent, credited or rolled back in between: ids, taken from a sequence
\* long before the commit, order the rows of one person as they committed.
\* (For a replay that asks for the same mutation, as a retry does.)
ReplayAgrees ==
    \A r, o \in Requests :
        (/\ req[r].status = "ok" /\ req[o].status = "replayed"
         /\ req[r].legs = req[o].legs)
        => req[r].result = req[o].result

\* The detailed wallet implements the promise: every mutation at once or not at
\* all, once for its key.
L == INSTANCE CoinLedger WITH balance <- wallet, applied <- {row.key : row \in ledger}
ImplementsLedger == L!Spec

============================================================================
