------------------------- MODULE CoinWallet_proofs -------------------------
(***************************************************************************)
(* Theorems about CoinWallet, for any number of requests, people, keys and *)
(* amounts.                                                                *)
(*                                                                         *)
(* A transaction has moved its first legs and written the rows of as many  *)
(* or one fewer.  What it has moved nobody else moves (Apart), so a wallet *)
(* is still what it read, and no row of that person enters the ledger in   *)
(* between: its own row, once committed, comes after all of them (RowsFit, *)
(* MovesFit).  So a commit adds one row and its amount to each wallet it   *)
(* moved (CommitUser), the balance right after that row is the balance it  *)
(* answered with, and it stays so (CommitBalances).                        *)
(*                                                                         *)
(* A balance is a sum over a finite set, which the library defines by a    *)
(* recursive function: the first part shows what is needed of it, by       *)
(* induction on the number of rows.  Induction itself is shown from the    *)
(* well-foundedness of the natural numbers, for sets of numbers.           *)
(***************************************************************************)
EXTENDS CoinWallet, FiniteSetTheorems, SequenceTheorems, WellFoundedInduction, TLAPS

----------------------------------------------------------------------------
(* Sums over finite sets *)

\* Every set of natural numbers that is not empty has a least one.
LEMMA LeastNumber ==
  ASSUME NEW S \in SUBSET Nat, S # {}
  PROVE  \E n \in S : \A m \in S : n <= m
<1> DEFINE R == OpToRel(<, Nat)
<1>1. \A x, y \in Nat : x < y => <<x, y>> \in R
  BY DEF OpToRel
<1> HIDE DEF R
<1>2. PICK n \in S : \A m \in S : ~ (<<m, n>> \in R)
  <2>1. IsWellFoundedOn(R, Nat)
    BY NatLessThanWellFounded DEF R
  <2> QED
    BY <2>1, WFMin
<1>3. \A m \in S : m \in Nat /\ n \in Nat /\ ~ (m < n)
  BY <1>1, <1>2
<1> QED
  BY <1>3

\* Induction over numbers, stated with a set.
LEMMA SetInduction ==
  ASSUME NEW S \in SUBSET Nat, 0 \in S, \A n \in S : n + 1 \in S
  PROVE  S = Nat
<1> SUFFICES ASSUME Nat \ S # {} PROVE FALSE
  OBVIOUS
<1>1. PICK n \in Nat \ S : \A m \in Nat \ S : n <= m
  BY LeastNumber
<1>2. n - 1 \in Nat /\ n - 1 \notin S
  BY <1>1
<1> QED
  BY <1>1, <1>2

LEMMA SumEmpty == Sum({}) = 0
BY DEF Sum, MapThenSumSet, MapThenFoldSet

\* The library's sum: a function it on sets of rows that adds the first row of a
\* set, the one CHOOSE picks, to the sum of the others.
First(s) == CHOOSE x \in s : TRUE
Adds(it, s) == IF s = {} THEN 0 ELSE First(s).delta + it[s \ {First(s)}]
SumsOn(it, D) == it = [s \in D |-> Adds(it, s)]

\* The subsets of S with at most n elements.
Small(S, n) == {s \in SUBSET S : Cardinality(s) <= n}

LEMMA SmallSets ==
  ASSUME NEW S, IsFiniteSet(S), NEW n \in Nat
  PROVE  /\ Small(S, 0) = {{}}
         /\ Small(S, n) \subseteq Small(S, n + 1)
         /\ \A s \in Small(S, n + 1) : s # {} => s \ {First(s)} \in Small(S, n)
         /\ Small(S, Cardinality(S)) = SUBSET S
<1>1. \A s \in SUBSET S :
        IsFiniteSet(s) /\ Cardinality(s) \in Nat /\ Cardinality(s) <= Cardinality(S)
  BY FS_Subset, FS_CardinalityType
<1>2. \A s \in SUBSET S : Cardinality(s) = 0 <=> s = {}
  BY <1>1, FS_EmptySet
<1>3. Small(S, 0) = {{}}
  <2>1. \A s \in SUBSET S : Cardinality(s) <= 0 <=> s = {}
    BY <1>1, <1>2
  <2> QED
    BY <2>1 DEF Small
<1>4. Small(S, n) \subseteq Small(S, n + 1)
  BY <1>1 DEF Small
<1>5. ASSUME NEW s \in Small(S, n + 1), s # {}
      PROVE  s \ {First(s)} \in Small(S, n)
  <2>1. First(s) \in s
    BY <1>5 DEF First
  <2>2. s \in SUBSET S /\ Cardinality(s) <= n + 1
    BY DEF Small
  <2>3. Cardinality(s \ {First(s)}) = Cardinality(s) - 1
    BY <1>1, <2>1, <2>2, FS_RemoveElement
  <2>4. Cardinality(s \ {First(s)}) <= n
    BY <1>1, <2>2, <2>3
  <2> QED
    BY <2>2, <2>4 DEF Small
<1>6. Small(S, Cardinality(S)) = SUBSET S
  BY <1>1 DEF Small
<1> QED
  BY <1>3, <1>4, <1>5, <1>6

\* There is one on the subsets of a finite set.
LEMMA SumsExist ==
  ASSUME NEW S, IsFiniteSet(S)
  PROVE  \E it : SumsOn(it, SUBSET S)
<1> DEFINE N == {n \in Nat : \E it : SumsOn(it, Small(S, n))}
<1>1. 0 \in N
  <2> DEFINE it == [s \in Small(S, 0) |-> 0]
  <2>1. SumsOn(it, Small(S, 0))
    BY SmallSets DEF SumsOn, Adds
  <2> QED
    BY <2>1
<1>2. ASSUME NEW n \in N PROVE n + 1 \in N
  <2>1. PICK it : SumsOn(it, Small(S, n))
    OBVIOUS
  <2> DEFINE up == [s \in Small(S, n + 1) |-> Adds(it, s)]
  <2>2. \A s \in Small(S, n) : up[s] = it[s]
    BY <2>1, SmallSets DEF SumsOn
  <2>3. \A s \in Small(S, n + 1) : Adds(up, s) = Adds(it, s)
    BY <2>2, SmallSets DEF Adds
  <2>4. SumsOn(up, Small(S, n + 1))
    BY <2>3 DEF SumsOn
  <2> QED
    BY <2>4
<1> HIDE DEF N
<1>3. N = Nat
  BY <1>1, <1>2, SetInduction DEF N
<1>4. Cardinality(S) \in Nat /\ Small(S, Cardinality(S)) = SUBSET S
  BY SmallSets, FS_CardinalityType
<1>5. \E it : SumsOn(it, Small(S, Cardinality(S)))
  BY <1>3, <1>4 DEF N
<1> QED
  BY <1>4, <1>5

LEMMA SumIs ==
  ASSUME NEW S, IsFiniteSet(S)
  PROVE  \E it : SumsOn(it, SUBSET S) /\ Sum(S) = it[S]
<1> DEFINE it == CHOOSE it : SumsOn(it, SUBSET S)
<1>1. SumsOn(it, SUBSET S)
  BY SumsExist
<1>2. Sum(S) = it[S]
  BY DEF Sum, MapThenSumSet, MapThenFoldSet, SumsOn, Adds, First
<1> QED
  BY <1>1, <1>2

\* Two such functions, on the subsets of S and of a part T of it, agree on T.
LEMMA SumsAgree ==
  ASSUME NEW S, IsFiniteSet(S), NEW T \in SUBSET S,
         NEW it, SumsOn(it, SUBSET S), NEW ti, SumsOn(ti, SUBSET T)
  PROVE  it[T] = ti[T]
<1> DEFINE N == {n \in Nat : \A s \in Small(T, n) : it[s] = ti[s]}
<1>1. IsFiniteSet(T)
  BY FS_Subset
<1>2. \A s \in SUBSET T : it[s] = Adds(it, s) /\ ti[s] = Adds(ti, s)
  BY DEF SumsOn
<1>3. 0 \in N
  BY <1>1, <1>2, SmallSets DEF Adds
<1>4. ASSUME NEW n \in N PROVE n + 1 \in N
  <2>1. \A s \in Small(T, n) : it[s] = ti[s]
    OBVIOUS
  <2>2. ASSUME NEW s \in Small(T, n + 1) PROVE it[s] = ti[s]
    <3>1. s \in SUBSET T
      BY DEF Small
    <3>2. s # {} => s \ {First(s)} \in Small(T, n)
      BY <1>1, SmallSets
    <3> QED
      BY <1>2, <2>1, <3>1, <3>2 DEF Adds
  <2> QED
    BY <2>2
<1> HIDE DEF N
<1>5. Cardinality(T) \in N
  BY <1>1, <1>3, <1>4, SetInduction, FS_CardinalityType DEF N
<1> QED
  BY <1>1, <1>5, SmallSets, FS_CardinalityType DEF N

LEMMA SumStep ==
  ASSUME NEW S, IsFiniteSet(S), S # {}
  PROVE  Sum(S) = First(S).delta + Sum(S \ {First(S)})
<1> DEFINE T == S \ {First(S)}
<1>1. PICK it : SumsOn(it, SUBSET S) /\ Sum(S) = it[S]
  BY SumIs
<1>2. IsFiniteSet(T) /\ T \in SUBSET S
  BY FS_Subset
<1>3. PICK ti : SumsOn(ti, SUBSET T) /\ Sum(T) = ti[T]
  BY <1>2, SumIs
<1>4. it[S] = First(S).delta + it[T]
  BY <1>1 DEF SumsOn, Adds
<1>5. it[T] = ti[T]
  BY <1>1, <1>2, <1>3, SumsAgree
<1> QED
  BY <1>1, <1>3, <1>4, <1>5

\* Finite sets of rows whose amounts are integers.
Amount(S) == IsFiniteSet(S) /\ \A x \in S : x.delta \in Int

LEMMA SumInt == ASSUME NEW S, Amount(S) PROVE Sum(S) \in Int
<1> DEFINE N == {n \in Nat : \A s \in Small(S, n) : Sum(s) \in Int}
<1>1. IsFiniteSet(S) /\ \A s \in SUBSET S : IsFiniteSet(s)
  BY FS_Subset DEF Amount
<1>2. 0 \in N
  <2>1. Sum({}) \in Int
    BY SumEmpty
  <2> QED
    BY <1>1, <2>1, SmallSets
<1>3. ASSUME NEW n \in N PROVE n + 1 \in N
  <2>1. ASSUME NEW s \in Small(S, n + 1), s # {} PROVE Sum(s) \in Int
    <3>1. s \in SUBSET S /\ IsFiniteSet(s) /\ First(s) \in S
      BY <1>1, <2>1 DEF Small, First
    <3>2. Sum(s \ {First(s)}) \in Int
      BY <1>1, <2>1, SmallSets
    <3>3. Sum(s) = First(s).delta + Sum(s \ {First(s)})
      BY <2>1, <3>1, SumStep
    <3> QED
      BY <3>1, <3>2, <3>3 DEF Amount
  <2>2. Sum({}) \in Int
    BY SumEmpty
  <2>3. \A s \in Small(S, n + 1) : Sum(s) \in Int
    BY <2>1, <2>2
  <2> QED
    BY <2>3
<1> HIDE DEF N
<1>4. Cardinality(S) \in N
  BY <1>1, <1>2, <1>3, SetInduction, FS_CardinalityType DEF N
<1> QED
  BY <1>1, <1>4, SmallSets, FS_CardinalityType DEF N

\* The element that is added last does not matter.
LEMMA SumTake ==
  ASSUME NEW S, Amount(S), NEW x \in S
  PROVE  Sum(S) = Sum(S \ {x}) + x.delta
<1> DEFINE N == {n \in Nat : \A s \in Small(S, n) : \A y \in s : Sum(s) = Sum(s \ {y}) + y.delta}
<1>1. IsFiniteSet(S) /\ \A s \in SUBSET S : Amount(s) /\ IsFiniteSet(s) /\ Sum(s) \in Int
  BY FS_Subset, SumInt DEF Amount
<1>2. 0 \in N
  BY <1>1, SmallSets
<1>3. ASSUME NEW n \in N PROVE n + 1 \in N
  <2>1. ASSUME NEW s \in Small(S, n + 1), NEW y \in s
        PROVE  Sum(s) = Sum(s \ {y}) + y.delta
    <3> DEFINE f == First(s)
    <3>1. s \in SUBSET S /\ f \in s
      BY DEF Small, First
    <3>2. s \ {f} \in Small(S, n)
      BY <1>1, <2>1, SmallSets
    <3>3. Sum(s) = f.delta + Sum(s \ {f})
      BY <1>1, <3>1, SumStep
    <3>4. f.delta \in Int /\ y.delta \in Int /\ Sum(s \ {f}) \in Int
      BY <1>1, <3>1 DEF Amount
    <3> HIDE DEF f
    <3>5. CASE y = f
      BY <3>3, <3>4, <3>5
    <3>6. CASE y # f
      <4>1. s \ {y} \in Small(S, n)
        <5>1. /\ Cardinality(s) \in Nat /\ Cardinality(s \ {y}) = Cardinality(s) - 1
          BY <1>1, <3>1, FS_RemoveElement, FS_CardinalityType
        <5> QED
          BY <3>1, <5>1 DEF Small
      <4>2. Sum(s \ {f}) = Sum((s \ {f}) \ {y}) + y.delta
        BY <3>2, <3>6
      <4>3. Sum(s \ {y}) = Sum((s \ {y}) \ {f}) + f.delta
        BY <3>1, <3>6, <4>1
      <4>4. Sum((s \ {y}) \ {f}) = Sum((s \ {f}) \ {y})
        <5>1. (s \ {y}) \ {f} = (s \ {f}) \ {y}
          OBVIOUS
        <5> QED
          BY <5>1
      <4>5. Sum((s \ {f}) \ {y}) \in Int
        BY <1>1, <3>1
      <4> QED
        BY <3>3, <3>4, <4>2, <4>3, <4>4, <4>5
    <3> QED
      BY <3>5, <3>6
  <2> QED
    BY <2>1
<1> HIDE DEF N
<1>4. Cardinality(S) \in N
  BY <1>1, <1>2, <1>3, SetInduction, FS_CardinalityType DEF N
<1> QED
  BY <1>1, <1>4, SmallSets, FS_CardinalityType DEF N

LEMMA SumAdd ==
  ASSUME NEW S, Amount(S), NEW x, x \notin S, x.delta \in Int
  PROVE  Amount(S \cup {x}) /\ Sum(S \cup {x}) = Sum(S) + x.delta
<1>1. Amount(S \cup {x})
  BY FS_AddElement DEF Amount
<1>2. (S \cup {x}) \ {x} = S
  OBVIOUS
<1> QED
  BY <1>1, <1>2, SumTake

LEMMA SumOne == ASSUME NEW x, x.delta \in Int PROVE Sum({x}) = x.delta
<1>1. Amount({})
  BY FS_EmptySet DEF Amount
<1>2. {} \cup {x} = {x}
  OBVIOUS
<1> QED
  BY <1>1, <1>2, SumAdd, SumEmpty
----------------------------------------------------------------------------
(* The inductive invariant *)

\* What a request asks for.
LegsOf(j) ==
    \E u \in Users, a \in Amounts, k \in CallerKeys :
        \/ j.legs = Credit(u, a, k)
        \/ j.legs = Debit(u, a, k)
        \/ \E v \in Users \ {u} : j.legs = Transfer(u, v, a, k)

RowFor(row, leg) == row.user = leg.user /\ row.delta = leg.delta /\ row.key = leg.key

\* How many legs a transaction j at step s has written, and how many it has moved.
Written(j) == Cardinality(j.rows)
Moved(j, s) == IF s = "insert" THEN Written(j) + 1 ELSE Written(j)

\* Its rows are of its first legs, one a person; their keys are not in the
\* ledger, and every row there of the same person is an earlier one.
RowsFit(j) ==
    /\ IsFiniteSet(j.rows)
    /\ \A row \in j.rows : \E i \in 1..Written(j) : RowFor(row, j.legs[i])
    /\ \A i \in 1..Written(j) : \E row \in j.rows : RowFor(row, j.legs[i])
    /\ \A x, y \in j.rows : x.user = y.user => x = y
    /\ \A row \in j.rows :
        /\ row.id < nextId /\ ~Applied(row.key)
        /\ \A x \in RowsOf(row.user) : x.id < row.id

\* The wallets it has moved and holds are still what it read.
MovesFit(j, s) ==
    /\ j.moved = {j.legs[i] : i \in 1..Moved(j, s)}
    /\ Len(j.result) = Moved(j, s)
    /\ \A i \in 1..Moved(j, s) :
        /\ j.result[i] = wallet[j.legs[i].user] + j.legs[i].delta
        /\ j.result[i] >= 0

Opened(s) == s \in {"look", "move", "insert", "commit"}

OpenFits(j, s) ==
    /\ LegsOf(j) /\ j.status = "open"
    /\ RowsFit(j) /\ MovesFit(j, s)
    /\ s = "look" => j.rows = {}
    /\ s \in {"move", "insert"} => Written(j) < Len(j.legs)
    /\ s = "commit" => Written(j) = Len(j.legs)

\* What was answered stays true.
AnswerFits(j) ==
    /\ LegsOf(j) /\ j.rows = {} /\ j.moved = {}
    /\ j.status = "ok" =>
        /\ Len(j.result) = Len(j.legs)
        /\ \A i \in 1..Len(j.legs) : \E row \in ledger :
             RowFor(row, j.legs[i]) /\ j.result[i] = BalanceAfter(row)
    /\ j.status = "replayed" => Applied(j.legs[1].key)

Fits(j, s) ==
    /\ s = "new" => j = NoJob
    /\ Opened(s) => OpenFits(j, s)
    /\ s = "done" => AnswerFits(j)

\* Two transactions have not moved one wallet, nor written one key.
Apart(i, j) ==
    /\ \A x \in i.moved, y \in j.moved : x.user # y.user
    /\ \A x \in i.rows, y \in j.rows : x.key # y.key

LedgerOK ==
    /\ IsFiniteSet(ledger)
    /\ \A x \in ledger : x.id < nextId
    /\ \A x, y \in ledger : x.key = y.key => x = y
    /\ \A u \in Users : wallet[u] >= 0 /\ wallet[u] = Opening[u] + Sum(RowsOf(u))

Inv ==
    /\ TypeOK /\ LedgerOK
    /\ \A r \in Requests : Fits(req[r], pc[r])
    /\ \A r, o \in Requests : r # o => Apart(req[r], req[o])
    /\ ReplayAgrees

----------------------------------------------------------------------------
(* The legs of a request *)

LEMMA Two == ASSUME NEW x, NEW y PROVE <<x>> \o <<y>> = <<x, y>>
<1> DEFINE S == {x, y}
           s == <<x>> \o <<y>>
<1>1. <<x>> \in Seq(S) /\ <<y>> \in Seq(S) /\ <<x, y>> \in Seq(S)
  OBVIOUS
<1>2. s \in Seq(S) /\ Len(s) = 2 /\ s[1] = x /\ s[2] = y
  BY <1>1
<1> HIDE DEF s
<1>3. \A i \in 1..2 : s[i] = <<x, y>>[i]
  BY <1>2
<1>4. Len(s) = Len(<<x, y>>)
  BY <1>2
<1> QED
  BY <1>1, <1>2, <1>3, <1>4, SeqEqual DEF s

LEMMA TransferIs ==
  ASSUME NEW u, NEW v, NEW a, NEW k
  PROVE  Transfer(u, v, a, k) = <<Debit(u, a, k)[1], Credit(v, a, InKey(k))[1]>>
BY Two DEF Transfer, Debit, Credit

----------------------------------------------------------------------------
(* What the steps have in common *)

LEMMA LegsTyped ==
  ASSUME NEW j, LegsOf(j)
  PROVE  /\ j.legs \in Seq(Leg) /\ Len(j.legs) \in {1, 2}
         /\ \A i \in 1..Len(j.legs) : j.legs[i] \in Leg
         /\ \A i, l \in 1..Len(j.legs) :
              i # l => j.legs[i].user # j.legs[l].user /\ j.legs[i].key # j.legs[l].key
<1>1. PICK u \in Users, a \in Amounts, k \in CallerKeys :
        \/ j.legs = Credit(u, a, k)
        \/ j.legs = Debit(u, a, k)
        \/ \E v \in Users \ {u} : j.legs = Transfer(u, v, a, k)
  BY DEF LegsOf
<1>2. a \in Int /\ -a \in Int /\ k \in Keys /\ InKey(k) \in Keys /\ InKey(k) # k
  BY WalletAssumption DEF Keys
<1>3. CASE j.legs = Credit(u, a, k)
  <2> DEFINE l == [user |-> u, delta |-> a, key |-> k]
  <2>1. l \in Leg /\ j.legs = <<l>>
    BY <1>2, <1>3 DEF Leg, Credit
  <2> QED
    BY <2>1
<1>4. CASE j.legs = Debit(u, a, k)
  <2> DEFINE l == [user |-> u, delta |-> -a, key |-> k]
  <2>1. l \in Leg /\ j.legs = <<l>>
    BY <1>2, <1>4 DEF Leg, Debit
  <2> QED
    BY <2>1
<1>5. CASE \E v \in Users \ {u} : j.legs = Transfer(u, v, a, k)
  <2>1. PICK v \in Users \ {u} : j.legs = Transfer(u, v, a, k)
    BY <1>5
  <2> DEFINE out == [user |-> u, delta |-> -a, key |-> k]
             in == [user |-> v, delta |-> a, key |-> InKey(k)]
  <2>2. j.legs = <<out, in>>
    BY <2>1, TransferIs DEF Debit, Credit
  <2>3. out \in Leg /\ in \in Leg /\ out.user # in.user /\ out.key # in.key
    BY <1>2 DEF Leg
  <2> QED
    BY <2>2, <2>3
<1> QED
  BY <1>1, <1>3, <1>4, <1>5

LEMMA LedgerAmounts == ASSUME Inv, NEW u PROVE Amount(RowsOf(u))
BY FS_Subset DEF Inv, LedgerOK, TypeOK, LedgerRow, RowsOf, Amount

LEMMA NoJobTyped == NoJob \in Job
BY DEF NoJob, Job

\* A step that writes neither wallets nor ledger leaves every transaction fit.
LEMMA Spared ==
  ASSUME wallet' = wallet, ledger' = ledger, nextId \in Nat, nextId' \in Nat, nextId <= nextId',
         NEW j \in Job, NEW s, Fits(j, s), ledger \subseteq LedgerRow
  PROVE  Fits(j, s)'
<1>1. /\ \A k : Applied(k)' <=> Applied(k)
      /\ \A u : RowsOf(u)' = RowsOf(u)
      /\ \A row : BalanceAfter(row)' = BalanceAfter(row)
  BY DEF Applied, RowsOf, BalanceAfter
<1>2. RowsFit(j) => RowsFit(j)'
  <2>1. \A row \in j.rows : row.id \in Nat
    BY DEF Job, LedgerRow
  <2> QED
    BY <1>1, <2>1 DEF RowsFit
<1>3. MovesFit(j, s) => MovesFit(j, s)'
  BY DEF MovesFit
<1>4. AnswerFits(j) => AnswerFits(j)'
  BY <1>1 DEF AnswerFits
<1> QED
  BY <1>2, <1>3, <1>4 DEF Fits, OpenFits

LEMMA QuietInv ==
  ASSUME Inv, NEW r \in Requests, NEW s \in PCs, NEW j \in Job,
         wallet' = wallet, ledger' = ledger, nextId' \in Nat, nextId <= nextId',
         pc' = [pc EXCEPT ![r] = s], req' = [req EXCEPT ![r] = j],
         Fits(j, s)',
         \A o \in Requests \ {r} : Apart(j, req[o]),
         j.status # "ok",
         j.status = "replayed" =>
           \A o \in Requests : req[o].status = "ok" /\ req[o].legs = j.legs
                                 => req[o].result = j.result
  PROVE  Inv'
<1>1. TypeOK /\ TypeOK'
  BY DEF Inv, TypeOK
<1>2. LedgerOK'
  <2>1. \A u : RowsOf(u)' = RowsOf(u)
    BY DEF RowsOf
  <2>2. \A x \in ledger : x.id \in Nat
    BY <1>1 DEF TypeOK, LedgerRow
  <2>3. \A u \in Users : wallet'[u] >= 0 /\ wallet'[u] = Opening[u] + Sum(RowsOf(u)')
    BY <2>1 DEF Inv, LedgerOK
  <2> QED
    BY <1>1, <2>2, <2>3 DEF Inv, LedgerOK, TypeOK
<1>3. ASSUME NEW o \in Requests PROVE Fits(req[o], pc[o])'
  <2>1. CASE o = r
    BY <1>1, <2>1 DEF TypeOK
  <2>2. CASE o # r
    <3>1. req'[o] = req[o] /\ pc'[o] = pc[o] /\ req[o] \in Job
      BY <1>1, <2>2 DEF TypeOK
    <3>2. Fits(req[o], pc[o])
      BY DEF Inv
    <3> DEFINE q == req[o]
               t == pc[o]
    <3>3. \A i \in Job, c \in PCs : Fits(i, c) => Fits(i, c)'
      BY <1>1, Spared DEF TypeOK
    <3> QED
      BY <1>1, <3>1, <3>2, <3>3 DEF TypeOK
  <2> QED
    BY <2>1, <2>2
<1>4. \A o, q \in Requests : o # q => Apart(req[o], req[q])'
  BY <1>1 DEF Inv, TypeOK, Apart
<1>5. ReplayAgrees'
  BY <1>1 DEF Inv, TypeOK, ReplayAgrees
<1> QED
  BY <1>1, <1>2, <1>3, <1>4, <1>5 DEF Inv
----------------------------------------------------------------------------
(* Statements that commit nothing *)

LEMMA InitInv == Init => Inv
<1> SUFFICES ASSUME Init PROVE Inv
  OBVIOUS
<1>1. TypeOK
  BY NoJobTyped, WalletAssumption DEF Init, TypeOK, PCs
<1>2. \A u \in Users : RowsOf(u) = {}
  BY DEF Init, RowsOf
<1>3. LedgerOK
  BY <1>2, SumEmpty, FS_EmptySet, WalletAssumption DEF Init, LedgerOK
<1>4. \A r \in Requests : req[r] = NoJob /\ pc[r] = "new"
  BY DEF Init
<1>5. ASSUME NEW r \in Requests PROVE Fits(req[r], pc[r])
  <2>1. ~Opened("new") /\ "new" # "done"
    BY DEF Opened
  <2> QED
    BY <1>4, <2>1 DEF Fits
<1>6. \A r, o \in Requests : Apart(req[r], req[o])
  <2>1. NoJob.rows = {} /\ NoJob.moved = {}
    BY DEF NoJob
  <2> QED
    BY <1>4, <2>1 DEF Apart
<1>7. ReplayAgrees
  BY <1>4 DEF ReplayAgrees, NoJob
<1> QED
  BY <1>1, <1>3, <1>5, <1>6, <1>7 DEF Inv

\* A transaction j that has done nothing yet fits, at its first two steps.
LEMMA FreshFits ==
  ASSUME NEW j \in Job, LegsOf(j), j.status = "open", j.rows = {}, j.moved = {}, j.result = <<>>,
         NEW s \in {"look", "move"}
  PROVE  Fits(j, s)'
<1>1. Cardinality(j.rows) = 0 /\ IsFiniteSet(j.rows) /\ Len(j.result) = 0
  BY FS_EmptySet
<1>2. s # "insert" /\ s # "commit" /\ s # "new" /\ s # "done"
  OBVIOUS
<1>3. 0 < Len(j.legs)
  BY LegsTyped
<1>4. RowsFit(j)'
  <2>1. 1..Cardinality(j.rows) = {}
    BY <1>1
  <2> QED
    BY <1>1, <2>1 DEF RowsFit, Written
<1>5. MovesFit(j, s)'
  <2>1. 1..Cardinality(j.rows) = {}
    BY <1>1
  <2> QED
    BY <1>1, <1>2, <2>1 DEF MovesFit, Moved, Written
<1>6. LegsOf(j)'
  BY DEF LegsOf
<1> QED
  BY <1>1, <1>2, <1>3, <1>4, <1>5, <1>6 DEF Fits, OpenFits, Written

LEMMA BeginInv ==
  ASSUME Inv, NEW r \in Requests, NEW legs, LegsOf([legs |-> legs]), Begin(r, legs)
  PROVE  Inv'
<1> PICK j : j = [NoJob EXCEPT !.legs = legs]
  OBVIOUS
<1>1. TypeOK /\ req[r] = NoJob /\ pc[r] = "new"
  BY DEF Inv, Fits, Begin
<1>2. LegsOf(j)
  BY DEF LegsOf, NoJob
<1>3. j \in Job /\ j.status = "open" /\ j.rows = {} /\ j.moved = {} /\ j.result = <<>>
  <2>1. /\ j.legs = legs /\ j.status = "open" /\ j.rows = {} /\ j.moved = {} /\ j.result = <<>>
        /\ j = [legs |-> legs, rows |-> {}, moved |-> {}, result |-> <<>>, status |-> "open"]
    BY DEF NoJob
  <2>2. legs \in Seq(Leg)
    BY <1>2, <2>1, LegsTyped
  <2>3. <<>> \in Seq(Int)
    OBVIOUS
  <2>4. j \in Job
    BY <2>1, <2>2, <2>3 DEF Job
  <2> QED
    BY <2>1, <2>4
<1>4. /\ req' = [req EXCEPT ![r] = j] /\ pc' = [pc EXCEPT ![r] = "look"]
      /\ wallet' = wallet /\ ledger' = ledger /\ nextId' = nextId /\ nextId \in Nat
  <2>1. req' = [req EXCEPT ![r].legs = legs] /\ req \in [Requests -> Job]
    BY <1>1 DEF Begin, TypeOK
  <2> QED
    BY <1>1, <2>1 DEF Begin, Goto, TypeOK
<1>5. Fits(j, "look")'
  BY <1>2, <1>3, FreshFits
<1>6. \A o \in Requests : Apart(j, req[o])
  BY <1>3 DEF Apart
<1>7. "look" \in PCs /\ j.status # "ok" /\ j.status # "replayed" /\ nextId <= nextId'
  BY <1>3, <1>4 DEF PCs
<1> QED
  BY <1>3, <1>4, <1>5, <1>6, <1>7, QuietInv

\* The end of a request that commits nothing.
LEMMA AnswerInv ==
  ASSUME Inv, NEW r \in Requests, Opened(pc[r]),
         NEW status \in {"replayed", "insufficient", "error"}, NEW result \in Seq(Int),
         Answer(r, status, result), wallet' = wallet, ledger' = ledger,
         nextId' \in {nextId, nextId + 1},
         status = "replayed" =>
           /\ Applied(req[r].legs[1].key)
           /\ \A o \in Requests : req[o].status = "ok" /\ req[o].legs = req[r].legs
                                    => req[o].result = result
  PROVE  Inv'
<1> PICK j : j = [legs |-> req[r].legs, rows |-> {}, moved |-> {}, result |-> result,
                  status |-> status]
  OBVIOUS
<1>1. TypeOK /\ LegsOf(req[r]) /\ req[r] \in Job
  BY DEF Inv, Fits, OpenFits, TypeOK
<1>2. LegsOf(j)
  BY <1>1 DEF LegsOf
<1>3. /\ j \in Job /\ j.legs = req[r].legs /\ j.rows = {} /\ j.moved = {}
      /\ j.result = result /\ j.status = status
  BY <1>1 DEF Job
<1>4. /\ req' = [req EXCEPT ![r] = j] /\ pc' = [pc EXCEPT ![r] = "done"]
      /\ nextId' \in Nat /\ nextId <= nextId'
  <2>1. req' = [req EXCEPT ![r] = j]
    BY DEF Answer
  <2> QED
    BY <1>1, <2>1 DEF Answer, Goto, TypeOK
<1>5. Fits(j, "done")'
  <2>1. status = "replayed" => Applied(j.legs[1].key)'
    BY <1>3 DEF Applied
  <2> QED
    BY <1>2, <1>3, <2>1 DEF Fits, AnswerFits, Opened
<1>6. \A o \in Requests : Apart(j, req[o])
  BY <1>3 DEF Apart
<1> QED
  BY <1>3, <1>4, <1>5, <1>6, QuietInv DEF PCs

LEMMA AbortInv == ASSUME Inv, NEW r \in Requests, Abort(r) PROVE Inv'
<1>1. <<>> \in Seq(Int)
  OBVIOUS
<1> QED
  BY <1>1, AnswerInv DEF Abort, Opened

\* The ledger has one row for a key, so the row of a key is found.
LEMMA TheRow ==
  ASSUME Inv, NEW row \in ledger
  PROVE  Applied(row.key) /\ RowOf(row.key) = row
BY DEF Inv, LedgerOK, Applied, RowOf

LEMMA RowTyped ==
  ASSUME Inv, NEW k, Applied(k)
  PROVE  RowOf(k) \in ledger /\ RowOf(k).key = k /\ BalanceAfter(RowOf(k)) \in Int
<1> DEFINE row == RowOf(k)
           before == {x \in RowsOf(row.user) : x.id <= row.id}
<1>1. row \in ledger /\ row.key = k
  BY DEF Applied, RowOf
<1>2. Amount(before)
  BY LedgerAmounts, FS_Subset DEF Amount
<1>3. Opening[row.user] \in Int
  BY <1>1, WalletAssumption DEF Inv, TypeOK, LedgerRow
<1> QED
  BY <1>1, <1>2, <1>3, SumInt DEF BalanceAfter

LEMMA LookInv == ASSUME Inv, NEW r \in Requests, Look(r) PROVE Inv'
<1> DEFINE legs == req[r].legs
           after(i) == IF Applied(legs[i].key) THEN BalanceAfter(RowOf(legs[i].key))
                                               ELSE wallet[legs[i].user]
           result == [i \in 1..Len(legs) |-> after(i)]
<1>1. /\ TypeOK /\ pc[r] = "look" /\ OpenFits(req[r], "look") /\ req[r] \in Job
      /\ wallet' = wallet /\ ledger' = ledger /\ nextId' = nextId
  BY DEF Inv, Fits, Opened, Look, TypeOK
<1>2. /\ legs \in Seq(Leg) /\ Len(legs) \in {1, 2}
      /\ \A i \in 1..Len(legs) : legs[i] \in Leg
  BY <1>1, LegsTyped DEF OpenFits
<1>3. CASE Applied(legs[1].key)
  <2>1. Answer(r, "replayed", result)
    BY <1>3 DEF Look
  <2>2. \A i \in 1..Len(legs) : after(i) \in Int
    <3>1. \A i \in 1..Len(legs) : wallet[legs[i].user] \in Int
      BY <1>1, <1>2 DEF TypeOK, Leg
    <3> QED
      BY <3>1, RowTyped
  <2>3. result \in Seq(Int) /\ Len(result) = Len(legs)
    <3> HIDE DEF after
    <3> QED
      BY <1>2, <2>2
  <2>4. ASSUME NEW o \in Requests, req[o].status = "ok", req[o].legs = legs
        PROVE  req[o].result = result
    <3>1. pc[o] = "done" /\ req[o] \in Job
      <4>1. NoJob.status = "open" /\ req[o] \in Job /\ pc[o] \in PCs /\ Fits(req[o], pc[o])
        BY <1>1 DEF NoJob, Inv, TypeOK
      <4>2. pc[o] # "new" /\ ~Opened(pc[o])
        BY <2>4, <4>1 DEF Fits, OpenFits
      <4> QED
        BY <4>1, <4>2 DEF PCs, Opened
    <3>2. /\ Len(req[o].result) = Len(legs)
          /\ \A i \in 1..Len(legs) : \E row \in ledger :
               RowFor(row, legs[i]) /\ req[o].result[i] = BalanceAfter(row)
      BY <2>4, <3>1 DEF Inv, Fits, AnswerFits
    <3>3. \A i \in 1..Len(legs) : req[o].result[i] = after(i)
      BY <3>2, TheRow DEF RowFor
    <3>4. req[o].result \in Seq(Int)
      BY <3>1 DEF Job
    <3> HIDE DEF after
    <3>5. \A i \in 1..Len(legs) : req[o].result[i] = result[i]
      BY <3>3
    <3> QED
      BY <2>3, <3>2, <3>4, <3>5, SeqEqual
  <2> HIDE DEF result
  <2> QED
    BY <1>1, <1>3, <2>1, <2>3, <2>4, AnswerInv DEF Opened
<1>4. CASE ~Applied(legs[1].key)
  <2> PICK j : j = req[r]
    OBVIOUS
  <2>1. pc' = [pc EXCEPT ![r] = "move"] /\ req' = [req EXCEPT ![r] = j]
    BY <1>1, <1>4 DEF Look, Goto, TypeOK
  <2>2. LegsOf(j) /\ j.status = "open" /\ j.rows = {} /\ j.moved = {} /\ j.result = <<>>
    <3>1. Written(j) = 0 /\ Moved(j, "look") = 0
      BY <1>1, FS_EmptySet DEF OpenFits, Written, Moved
    <3>2. j.result \in Seq(Int) /\ Len(j.result) = 0
      BY <1>1, <3>1 DEF OpenFits, MovesFit, Job
    <3>3. j.moved = {}
      <4>1. 1..0 = {} /\ j.moved = {j.legs[i] : i \in 1..0}
        BY <1>1, <3>1 DEF OpenFits, MovesFit
      <4> QED
        BY <4>1
    <3>4. j.result = <<>>
      BY <3>2
    <3> QED
      BY <1>1, <3>3, <3>4 DEF OpenFits
  <2>3. \A o \in Requests : Apart(j, req[o])
    BY <2>2 DEF Apart
  <2>4. j \in Job /\ nextId \in Nat
    BY <1>1 DEF TypeOK
  <2>5. Fits(j, "move")'
    BY <2>2, <2>4, FreshFits
  <2>6. "move" \in PCs /\ j.status # "ok" /\ j.status # "replayed" /\ nextId <= nextId'
    BY <1>1, <2>2, <2>4 DEF PCs
  <2> QED
    BY <1>1, <2>1, <2>3, <2>4, <2>5, <2>6, QuietInv
<1> QED
  BY <1>3, <1>4

\* What is known of the next leg, before it is moved and before it is written.
LEMMA NextLegTyped ==
  ASSUME Inv, NEW r \in Requests, pc[r] \in {"move", "insert"}
  PROVE  /\ TypeOK /\ OpenFits(req[r], pc[r]) /\ req[r] \in Job
         /\ Written(req[r]) \in Nat /\ Written(req[r]) < Len(req[r].legs)
         /\ NextLeg(r) = req[r].legs[Written(req[r]) + 1] /\ NextLeg(r) \in Leg
         /\ \A i \in 1..Len(req[r].legs) : req[r].legs[i] \in Leg
         /\ \A i \in 1..Written(req[r]) :
              req[r].legs[i].user # NextLeg(r).user /\ req[r].legs[i].key # NextLeg(r).key
<1> PICK j : j = req[r]
  OBVIOUS
<1>1. TypeOK /\ OpenFits(j, pc[r]) /\ j \in Job
  BY DEF Inv, Fits, Opened, TypeOK
<1>2. Written(j) \in Nat /\ Written(j) < Len(j.legs)
  BY <1>1, FS_CardinalityType DEF OpenFits, RowsFit, Written
<1>3. NextLeg(r) = j.legs[Written(j) + 1]
  BY DEF NextLeg, Written
<1>4. /\ Len(j.legs) \in {1, 2}
      /\ \A i \in 1..Len(j.legs) : j.legs[i] \in Leg
      /\ \A i, l \in 1..Len(j.legs) :
           i # l => j.legs[i].user # j.legs[l].user /\ j.legs[i].key # j.legs[l].key
  BY <1>1, LegsTyped DEF OpenFits
<1>5. /\ Written(j) + 1 \in 1..Len(j.legs)
      /\ \A i \in 1..Written(j) : i \in 1..Len(j.legs) /\ i # Written(j) + 1
  BY <1>2, <1>4
<1> QED
  BY <1>1, <1>2, <1>3, <1>4, <1>5

LEMMA MoveInv == ASSUME Inv, NEW r \in Requests, Move(r) PROVE Inv'
<1> PICK q, leg, w, x : /\ q = req[r] /\ leg = NextLeg(r) /\ w = Written(q)
                        /\ x = wallet[leg.user] + leg.delta
  OBVIOUS
<1>1. /\ TypeOK /\ OpenFits(q, "move") /\ q \in Job /\ w \in Nat /\ w < Len(q.legs)
      /\ leg = q.legs[w + 1] /\ leg \in Leg /\ \A i \in 1..Len(q.legs) : q.legs[i] \in Leg
      /\ pc[r] = "move"
      /\ wallet' = wallet /\ ledger' = ledger /\ nextId' = nextId /\ nextId \in Nat
  BY NextLegTyped DEF Move, TypeOK
<1>2. leg.user \in Users /\ wallet[leg.user] \in Int /\ x \in Int
  BY <1>1 DEF Leg, TypeOK
<1>3. CASE x >= 0
  <2> PICK j : j = [q EXCEPT !.moved = @ \cup {leg}, !.result = Append(@, x)]
    OBVIOUS
  <2>1. /\ req' = [req EXCEPT ![r] = j] /\ pc' = [pc EXCEPT ![r] = "insert"]
    BY <1>1, <1>3 DEF Move, Goto, TypeOK
  <2>2. /\ j.legs = q.legs /\ j.rows = q.rows /\ j.moved = q.moved \cup {leg}
        /\ j.result = Append(q.result, x) /\ j.status = q.status
        /\ j \in Job
    <3>1. /\ q \in [legs: Seq(Leg), rows: SUBSET LedgerRow, moved: SUBSET Leg, result: Seq(Int),
                    status: {"open", "ok", "replayed", "insufficient", "error"}]
      BY <1>1 DEF Job
    <3>2. Append(q.result, x) \in Seq(Int) /\ q.moved \cup {leg} \in SUBSET Leg
      BY <1>1, <1>2, <3>1
    <3>3. /\ j.legs = q.legs /\ j.rows = q.rows /\ j.moved = q.moved \cup {leg}
          /\ j.result = Append(q.result, x) /\ j.status = q.status
      BY <3>1
    <3>4. j \in Job
      BY <3>1, <3>2 DEF Job
    <3> QED
      BY <3>3, <3>4
  <2>3. Moved(q, "move") = w /\ Moved(j, "insert") = w + 1 /\ Written(j) = w
    BY <2>2 DEF Moved, Written
  <2>4. /\ q.moved = {q.legs[i] : i \in 1..w} /\ Len(q.result) = w /\ q.result \in Seq(Int)
        /\ \A i \in 1..w :
             q.result[i] = wallet[q.legs[i].user] + q.legs[i].delta /\ q.result[i] >= 0
    BY <1>1, <2>3 DEF OpenFits, MovesFit, Job
  <2>5. j.moved = {j.legs[i] : i \in 1..(w + 1)}
    <3>1. \A i : i \in 1..(w + 1) <=> i \in 1..w \/ i = w + 1
      BY <1>1
    <3>2. \A y : y \in j.moved <=> y \in q.moved \/ y = q.legs[w + 1]
      BY <1>1, <2>2
    <3>3. \A y : y \in q.moved <=> \E i \in 1..w : y = q.legs[i]
      BY <2>4
    <3>4. \A y : y \in j.moved <=> \E i \in 1..(w + 1) : y = j.legs[i]
      <4>1. ASSUME NEW y \in j.moved PROVE \E i \in 1..(w + 1) : y = j.legs[i]
        <5>1. CASE y = q.legs[w + 1]
          BY <2>2, <3>1, <5>1
        <5>2. CASE y \in q.moved
          BY <2>2, <3>1, <3>3, <5>2
        <5> QED
          BY <3>2, <5>1, <5>2
      <4>2. ASSUME NEW i \in 1..(w + 1) PROVE j.legs[i] \in j.moved
        BY <2>2, <3>1, <3>2, <3>3
      <4> QED
        BY <4>1, <4>2
    <3> QED
      BY <3>4
  <2>6. /\ Len(j.result) = w + 1 /\ j.result[w + 1] = x
        /\ \A i \in 1..w : j.result[i] = q.result[i]
    BY <1>2, <2>2, <2>4
  <2>7. \A i \in 1..(w + 1) :
           j.result[i] = wallet[j.legs[i].user] + j.legs[i].delta /\ j.result[i] >= 0
    <3>1. ASSUME NEW i \in 1..(w + 1)
          PROVE  j.result[i] = wallet[j.legs[i].user] + j.legs[i].delta /\ j.result[i] >= 0
      <4>1. CASE i = w + 1
        BY <1>1, <1>3, <2>2, <2>6, <4>1
      <4>2. CASE i \in 1..w
        BY <2>2, <2>4, <2>6, <4>2
      <4>3. i = w + 1 \/ i \in 1..w
        BY <1>1
      <4> QED
        BY <4>1, <4>2, <4>3
    <3> QED
      BY <3>1
  <2>8. MovesFit(j, "insert")
    BY <2>3, <2>5, <2>6, <2>7 DEF MovesFit
  <2>9. RowsFit(j) /\ LegsOf(j)
    <3>1. RowsFit(q) /\ LegsOf(q)
      BY <1>1 DEF OpenFits
    <3>2. RowsFit(j)
      BY <2>2, <3>1 DEF RowsFit, Written
    <3>3. LegsOf(j)
      BY <2>2, <3>1 DEF LegsOf
    <3> QED
      BY <3>2, <3>3
  <2>10. Fits(j, "insert")
    BY <1>1, <2>2, <2>3, <2>8, <2>9 DEF Fits, OpenFits, Opened
  <2>11. Fits(j, "insert")'
    <3>1. nextId' \in Nat /\ nextId <= nextId' /\ ledger \subseteq LedgerRow
      BY <1>1 DEF TypeOK
    <3> QED
      BY <1>1, <2>2, <2>10, <3>1, Spared
  <2>12. ASSUME NEW o \in Requests \ {r} PROVE Apart(j, req[o])
    <3>1. Apart(q, req[o])
      BY DEF Inv
    <3>2. \A y \in req[o].moved : y.user # leg.user
      BY DEF Move, WalletFree
    <3>3. \A x1 \in j.moved, y \in req[o].moved : x1.user # y.user
      BY <2>2, <3>1, <3>2 DEF Apart
    <3>4. \A x1 \in j.rows, y \in req[o].rows : x1.key # y.key
      BY <2>2, <3>1 DEF Apart
    <3> QED
      BY <3>3, <3>4 DEF Apart
  <2>13. "insert" \in PCs /\ j.status = "open" /\ nextId <= nextId'
    <3>1. q.status = "open"
      BY <1>1 DEF OpenFits
    <3>2. nextId <= nextId'
      BY <1>1
    <3> QED
      BY <2>2, <3>1, <3>2 DEF PCs
  <2> QED
    BY <1>1, <2>1, <2>2, <2>11, <2>12, <2>13, QuietInv
<1>4. CASE ~(x >= 0)
  <2>1. Answer(r, "insufficient", <<wallet[leg.user]>>)
    BY <1>4 DEF Move
  <2>2. <<wallet[leg.user]>> \in Seq(Int)
    BY <1>2
  <2> QED
    BY <1>1, <2>1, <2>2, AnswerInv DEF Opened
<1> QED
  BY <1>3, <1>4

LEMMA InsertInv == ASSUME Inv, NEW r \in Requests, Insert(r) PROVE Inv'
<1> PICK q, leg, w : q = req[r] /\ leg = NextLeg(r) /\ w = Written(q)
  OBVIOUS
<1>1. /\ TypeOK /\ OpenFits(q, "insert") /\ q \in Job /\ w \in Nat /\ w < Len(q.legs)
      /\ leg = q.legs[w + 1] /\ leg \in Leg
      /\ \A i \in 1..w : q.legs[i].user # leg.user /\ q.legs[i].key # leg.key
      /\ pc[r] = "insert"
      /\ wallet' = wallet /\ ledger' = ledger /\ nextId' = nextId + 1 /\ nextId \in Nat
      /\ Len(q.legs) \in {1, 2}
  BY NextLegTyped, LegsTyped DEF Insert, TypeOK, OpenFits
<1>2. CASE Applied(leg.key)
  <2>1. Answer(r, "error", <<>>)
    BY <1>2 DEF Insert
  <2>2. <<>> \in Seq(Int)
    OBVIOUS
  <2> QED
    BY <1>1, <2>1, <2>2, AnswerInv DEF Opened
<1>3. CASE ~Applied(leg.key)
  <2> PICK row : row = [id |-> nextId, user |-> leg.user, delta |-> leg.delta, key |-> leg.key]
    OBVIOUS
  <2> PICK j, s : /\ j = [q EXCEPT !.rows = @ \cup {row}]
                  /\ s = IF w + 1 = Len(q.legs) THEN "commit" ELSE "move"
    OBVIOUS
  <2>1. /\ req' = [req EXCEPT ![r] = j] /\ pc' = [pc EXCEPT ![r] = s]
    BY <1>1, <1>3 DEF Insert, Goto, TypeOK, Written
  <2>2. /\ row \in LedgerRow /\ RowFor(row, leg)
        /\ row.id = nextId /\ row.key = leg.key /\ row.user = leg.user
    BY <1>1 DEF LedgerRow, Leg, RowFor
  <2>3. /\ j.legs = q.legs /\ j.rows = q.rows \cup {row} /\ j.moved = q.moved
        /\ j.result = q.result /\ j.status = q.status
        /\ j \in Job
    BY <1>1, <2>2 DEF Job
  <2>4. /\ IsFiniteSet(q.rows)
        /\ \A y \in q.rows : \E i \in 1..w : RowFor(y, q.legs[i])
        /\ \A i \in 1..w : \E y \in q.rows : RowFor(y, q.legs[i])
        /\ \A y, z \in q.rows : y.user = z.user => y = z
        /\ \A y \in q.rows : y.id \in Nat /\ y.id < nextId
        /\ \A y \in q.rows : ~Applied(y.key) /\ \A z \in RowsOf(y.user) : z.id < y.id
    BY <1>1 DEF OpenFits, RowsFit, Job, LedgerRow
  <2>5. \A y \in q.rows : y.user # row.user
    BY <1>1, <2>2, <2>4 DEF RowFor
  <2>6. IsFiniteSet(j.rows) /\ Written(j) = w + 1
    <3>1. row \notin q.rows
      BY <2>5
    <3> QED
      <4>1. /\ IsFiniteSet(q.rows \cup {row})
            /\ Cardinality(q.rows \cup {row}) = Cardinality(q.rows) + 1
        BY <2>4, <3>1, FS_AddElement
      <4>2. w = Cardinality(q.rows)
        BY DEF Written
      <4> QED
        BY <2>3, <4>1, <4>2 DEF Written
  <2>7. \A y \in j.rows : \E i \in 1..(w + 1) : RowFor(y, j.legs[i])
    <3>1. \A i \in 1..w : i \in 1..(w + 1)
      BY <1>1
    <3>2. w + 1 \in 1..(w + 1)
      BY <1>1
    <3> QED
      BY <1>1, <2>2, <2>3, <2>4, <3>1, <3>2
  <2>8. \A i \in 1..(w + 1) : \E y \in j.rows : RowFor(y, j.legs[i])
    <3>1. \A i \in 1..(w + 1) : i = w + 1 \/ i \in 1..w
      BY <1>1
    <3> QED
      BY <1>1, <2>2, <2>3, <2>4, <3>1
  <2>9. \A y, z \in j.rows : y.user = z.user => y = z
    BY <2>3, <2>4, <2>5
  <2>10. ASSUME NEW y \in j.rows
         PROVE  y.id < nextId + 1 /\ ~Applied(y.key) /\ \A z \in RowsOf(y.user) : z.id < y.id
    <3>1. CASE y = row
      <4>1. \A z \in RowsOf(y.user) : z.id < nextId
        BY DEF RowsOf, Inv, LedgerOK
      <4>2. y.id = nextId /\ y.key = leg.key
        BY <2>2, <3>1
      <4>3. y.id < nextId + 1
        BY <1>1, <4>2
      <4> QED
        BY <1>3, <4>1, <4>2, <4>3
    <3>2. CASE y \in q.rows
      BY <1>1, <2>4, <3>2
    <3> QED
      BY <2>3, <3>1, <3>2
  <2>11. \A k, u : (Applied(k)' <=> Applied(k)) /\ RowsOf(u)' = RowsOf(u)
    BY <1>1 DEF Applied, RowsOf
  <2>12. RowsFit(j)'
    <3>1. \A y \in j.rows :
            y.id < nextId' /\ ~Applied(y.key)' /\ \A z \in RowsOf(y.user)' : z.id < y.id
      BY <1>1, <2>10, <2>11
    <3>2. Cardinality(j.rows) = w + 1
      BY <2>6 DEF Written
    <3> QED
      BY <2>6, <2>7, <2>8, <2>9, <3>1, <3>2 DEF RowsFit, Written
  <2>13. /\ s \in {"move", "commit"}
         /\ s = "move" => w + 1 < Len(q.legs)
         /\ s = "commit" => w + 1 = Len(q.legs)
    BY <1>1
  <2>14. MovesFit(j, s)'
    <3>1. MovesFit(q, "insert") /\ Moved(q, "insert") = w + 1
      BY <1>1 DEF OpenFits, Moved
    <3>2. Moved(j, s) = w + 1
      BY <2>6, <2>13 DEF Moved
    <3>3. /\ j.moved = {j.legs[i] : i \in 1..(w + 1)} /\ Len(j.result) = w + 1
          /\ \A i \in 1..(w + 1) :
               j.result[i] = wallet[j.legs[i].user] + j.legs[i].delta /\ j.result[i] >= 0
      BY <2>3, <3>1 DEF MovesFit
    <3>4. MovesFit(j, s)
      BY <3>2, <3>3 DEF MovesFit
    <3> QED
      BY <1>1, <3>4 DEF MovesFit
  <2>15. LegsOf(j)
    BY <1>1, <2>3 DEF OpenFits, LegsOf
  <2>16. Fits(j, s)'
    <3>1. Cardinality(j.rows) = w + 1
      BY <2>6 DEF Written
    <3>2. j.status = "open"
      BY <1>1, <2>3 DEF OpenFits
    <3> QED
      BY <2>3, <2>12, <2>13, <2>14, <2>15, <3>1, <3>2 DEF Fits, OpenFits, Written, Opened, LegsOf
  <2>17. ASSUME NEW o \in Requests \ {r} PROVE Apart(j, req[o])
    <3>1. Apart(q, req[o])
      BY DEF Inv
    <3>2. \A y \in req[o].rows : y.key # leg.key
      BY DEF Insert, KeyFree
    <3> QED
      BY <2>2, <2>3, <3>1, <3>2 DEF Apart
  <2>18. /\ s \in PCs /\ j.status # "ok" /\ j.status # "replayed"
         /\ nextId' \in Nat /\ nextId <= nextId'
    BY <1>1, <2>3, <2>13 DEF PCs, OpenFits
  <2> QED
    BY <1>1, <2>1, <2>3, <2>16, <2>17, <2>18, QuietInv
<1> QED
  BY <1>2, <1>3

----------------------------------------------------------------------------
(* The commit *)

LEMMA CommitTyped ==
  ASSUME Inv, NEW r \in Requests, Commit(r), NEW q, q = req[r]
  PROVE  /\ TypeOK /\ OpenFits(q, "commit") /\ q \in Job /\ pc[r] = "commit"
         /\ Cardinality(q.rows) = Len(q.legs) /\ Len(q.legs) \in {1, 2}
         /\ \A i \in 1..Len(q.legs) : q.legs[i] \in Leg
         /\ \A i, l \in 1..Len(q.legs) : i # l => q.legs[i].user # q.legs[l].user
         /\ \A leg \in q.moved : \E i \in 1..Len(q.legs) : leg = q.legs[i]
         /\ \A i \in 1..Len(q.legs) : q.legs[i] \in q.moved
         /\ Len(q.result) = Len(q.legs)
         /\ \A i \in 1..Len(q.legs) :
              q.result[i] = wallet[q.legs[i].user] + q.legs[i].delta /\ q.result[i] >= 0
         /\ IsFiniteSet(q.rows) /\ q.rows \subseteq LedgerRow
         /\ \A row \in q.rows : \E i \in 1..Len(q.legs) : RowFor(row, q.legs[i])
         /\ \A i \in 1..Len(q.legs) : \E row \in q.rows : RowFor(row, q.legs[i])
         /\ \A x, y \in q.rows : x.user = y.user => x = y
         /\ \A row \in q.rows :
              row.id < nextId /\ ~Applied(row.key) /\ \A x \in RowsOf(row.user) : x.id < row.id
<1>1. TypeOK /\ OpenFits(q, "commit") /\ q \in Job /\ pc[r] = "commit"
  BY DEF Inv, Fits, Opened, Commit, TypeOK
<1>2. Cardinality(q.rows) = Len(q.legs)
  BY <1>1 DEF OpenFits, Written
<1>3. /\ Len(q.legs) \in {1, 2} /\ \A i \in 1..Len(q.legs) : q.legs[i] \in Leg
      /\ \A i, l \in 1..Len(q.legs) : i # l => q.legs[i].user # q.legs[l].user
  BY <1>1, LegsTyped DEF OpenFits
<1>4. Written(q) = Len(q.legs) /\ Moved(q, "commit") = Len(q.legs)
  BY <1>2 DEF Written, Moved
<1>5. /\ \A leg \in q.moved : \E i \in 1..Len(q.legs) : leg = q.legs[i]
      /\ \A i \in 1..Len(q.legs) : q.legs[i] \in q.moved
      /\ Len(q.result) = Len(q.legs)
      /\ \A i \in 1..Len(q.legs) :
           q.result[i] = wallet[q.legs[i].user] + q.legs[i].delta /\ q.result[i] >= 0
  BY <1>1, <1>4 DEF OpenFits, MovesFit
<1>6. /\ IsFiniteSet(q.rows) /\ q.rows \subseteq LedgerRow
      /\ \A row \in q.rows : \E i \in 1..Len(q.legs) : RowFor(row, q.legs[i])
      /\ \A i \in 1..Len(q.legs) : \E row \in q.rows : RowFor(row, q.legs[i])
      /\ \A x, y \in q.rows : x.user = y.user => x = y
      /\ \A row \in q.rows :
           row.id < nextId /\ ~Applied(row.key) /\ \A x \in RowsOf(row.user) : x.id < row.id
  BY <1>1, <1>4 DEF OpenFits, RowsFit, Job
<1> QED
  BY <1>1, <1>2, <1>3, <1>5, <1>6

\* For each person the commit adds one row and its amount, or nothing.
LEMMA CommitUser ==
  ASSUME Inv, NEW r \in Requests, Commit(r), NEW q, q = req[r], NEW u \in Users
  PROVE  \/ \E row \in q.rows, i \in 1..Len(q.legs) :
              /\ row.user = u /\ RowFor(row, q.legs[i])
              /\ RowsOf(u)' = RowsOf(u) \cup {row}
              /\ wallet'[u] = wallet[u] + row.delta /\ wallet'[u] = q.result[i] /\ wallet'[u] >= 0
         \/ /\ \A row \in q.rows : row.user # u
            /\ \A leg \in q.moved : leg.user # u
            /\ RowsOf(u)' = RowsOf(u) /\ wallet'[u] = wallet[u]
<1> DEFINE n == Len(q.legs)
           mine == {leg \in q.moved : leg.user = u}
<1>1. /\ TypeOK
      /\ \A leg \in q.moved : \E i \in 1..n : leg = q.legs[i]
      /\ \A i \in 1..n : q.legs[i] \in q.moved
      /\ \A i \in 1..n : q.legs[i] \in Leg
      /\ \A i, l \in 1..n : i # l => q.legs[i].user # q.legs[l].user
      /\ \A i \in 1..n : q.result[i] = wallet[q.legs[i].user] + q.legs[i].delta /\ q.result[i] >= 0
      /\ \A row \in q.rows : \E i \in 1..n : RowFor(row, q.legs[i])
      /\ \A i \in 1..n : \E row \in q.rows : RowFor(row, q.legs[i])
      /\ \A x, y \in q.rows : x.user = y.user => x = y
  <2>1. /\ TypeOK
        /\ \A leg \in q.moved : \E i \in 1..n : leg = q.legs[i]
        /\ \A i \in 1..n : q.legs[i] \in q.moved
        /\ \A i \in 1..n : q.legs[i] \in Leg
    BY CommitTyped
  <2>2. \A i, l \in 1..n : i # l => q.legs[i].user # q.legs[l].user
    BY CommitTyped
  <2>3. \A i \in 1..n : q.result[i] = wallet[q.legs[i].user] + q.legs[i].delta /\ q.result[i] >= 0
    BY CommitTyped
  <2>4. /\ \A row \in q.rows : \E i \in 1..n : RowFor(row, q.legs[i])
        /\ \A i \in 1..n : \E row \in q.rows : RowFor(row, q.legs[i])
        /\ \A x, y \in q.rows : x.user = y.user => x = y
    BY CommitTyped
  <2> QED
    BY <2>1, <2>2, <2>3, <2>4
<1>2. wallet'[u] = wallet[u] + Sum(mine)
  BY DEF Commit
<1>3. RowsOf(u)' = RowsOf(u) \cup {x \in q.rows : x.user = u}
  BY DEF Commit, RowsOf
<1> HIDE DEF n
<1>4. CASE \E i \in 1..n : q.legs[i].user = u
  <2>1. PICK i \in 1..n : q.legs[i].user = u
    BY <1>4
  <2>2. PICK row \in q.rows : RowFor(row, q.legs[i])
    BY <1>1, <2>1
  <2>3. row.user = u /\ row.delta = q.legs[i].delta /\ q.legs[i].delta \in Int
    <3>1. q.legs[i] \in Leg
      BY <1>1, <2>1
    <3> QED
      BY <2>1, <2>2, <3>1 DEF RowFor, Leg
  <2>4. mine = {q.legs[i]}
    <3>1. ASSUME NEW leg \in mine PROVE leg = q.legs[i]
      <4>1. PICK l \in 1..n : leg = q.legs[l] /\ leg.user = u
        BY <1>1
      <4> QED
        BY <1>1, <2>1, <4>1
    <3>2. q.legs[i] \in mine
      BY <1>1, <2>1
    <3> QED
      BY <3>1, <3>2
  <2>5. Sum(mine) = row.delta
    BY <2>3, <2>4, SumOne
  <2>6. {x \in q.rows : x.user = u} = {row}
    BY <1>1, <2>2, <2>3
  <2>7. wallet'[u] = wallet[u] + row.delta /\ wallet'[u] = q.result[i] /\ wallet'[u] >= 0
    <3> HIDE DEF mine
    <3> QED
      BY <1>1, <1>2, <2>1, <2>3, <2>5
  <2> QED
    BY <1>3, <2>2, <2>3, <2>6, <2>7 DEF n
<1>5. CASE ~ \E i \in 1..n : q.legs[i].user = u
  <2>1. \A leg \in q.moved : leg.user # u
    BY <1>1, <1>5
  <2>2. \A row \in q.rows : row.user # u
    BY <1>1, <1>5 DEF RowFor
  <2>3. mine = {} /\ {x \in q.rows : x.user = u} = {}
    BY <2>1, <2>2
  <2>4. wallet[u] \in Int
    BY <1>1 DEF TypeOK
  <2>5. wallet'[u] = wallet[u]
    <3>1. Sum(mine) = 0
      BY <2>3, SumEmpty
    <3> HIDE DEF mine
    <3> QED
      BY <1>2, <2>4, <3>1
  <2> QED
    BY <1>3, <2>1, <2>2, <2>3, <2>5
<1> QED
  BY <1>4, <1>5

\* What a commit leaves of the rows that were there, and says of its own.
LEMMA CommitBalances ==
  ASSUME Inv, NEW r \in Requests, Commit(r), NEW q, q = req[r]
  PROVE  /\ \A row \in ledger : BalanceAfter(row)' = BalanceAfter(row)
         /\ \A row \in q.rows : BalanceAfter(row)' = wallet'[row.user]
<1>1. /\ TypeOK /\ q.rows \subseteq LedgerRow
      /\ \A x, y \in q.rows : x.user = y.user => x = y
      /\ \A row \in q.rows : \A x \in RowsOf(row.user) : x.id < row.id
  BY CommitTyped
<1>2. ASSUME NEW row \in ledger PROVE BalanceAfter(row)' = BalanceAfter(row)
  <2>1. row.user \in Users /\ row \in RowsOf(row.user) /\ row.id \in Nat
    BY <1>1 DEF TypeOK, LedgerRow, RowsOf
  <2>2. {x \in RowsOf(row.user)' : x.id <= row.id} = {x \in RowsOf(row.user) : x.id <= row.id}
    <3>1. CASE RowsOf(row.user)' = RowsOf(row.user)
      BY <3>1
    <3>2. CASE \E x \in q.rows : x.user = row.user /\ RowsOf(row.user)' = RowsOf(row.user) \cup {x}
      <4>1. PICK x \in q.rows : x.user = row.user /\ RowsOf(row.user)' = RowsOf(row.user) \cup {x}
        BY <3>2
      <4>2. row.id < x.id /\ x.id \in Nat
        BY <1>1, <2>1, <4>1 DEF LedgerRow
      <4>3. ~(x.id <= row.id)
        BY <2>1, <4>2
      <4> QED
        BY <4>1, <4>3
    <3> QED
      BY <2>1, <3>1, <3>2, CommitUser
  <2> QED
    BY <2>2 DEF BalanceAfter
<1>3. ASSUME NEW row \in q.rows PROVE BalanceAfter(row)' = wallet'[row.user]
  <2> PICK u, before : u = row.user /\ before = RowsOf(u)
    OBVIOUS
  <2>1. u \in Users /\ row.delta \in Int /\ row.id \in Nat
    BY <1>1 DEF LedgerRow
  <2>2. RowsOf(u)' = before \cup {row} /\ wallet'[u] = wallet[u] + row.delta
    BY <1>1, <2>1, CommitUser
  <2>3. Amount(before) /\ row \notin before
    <3>1. row \notin before
      BY <1>1, <2>1
    <3> QED
      BY <3>1, LedgerAmounts
  <2>4. {x \in RowsOf(u)' : x.id <= row.id} = before \cup {row}
    <3>1. \A x \in before : x.id \in Nat /\ x.id < row.id
      BY <1>1 DEF TypeOK, LedgerRow, RowsOf
    <3>2. \A x \in before : x.id <= row.id
      BY <2>1, <3>1
    <3>3. row.id <= row.id
      BY <2>1
    <3> QED
      BY <2>2, <3>2, <3>3
  <2>5. Sum(before \cup {row}) = Sum(before) + row.delta
    BY <2>1, <2>3, SumAdd
  <2>6. wallet[u] = Opening[u] + Sum(before) /\ Opening[u] \in Int /\ Sum(before) \in Int
    BY <2>1, <2>3, SumInt, WalletAssumption DEF Inv, LedgerOK
  <2>7. BalanceAfter(row)' = Opening[u] + Sum({x \in RowsOf(u)' : x.id <= row.id})
    BY DEF BalanceAfter
  <2>8. wallet'[u] = Opening[u] + Sum(before \cup {row})
    BY <2>1, <2>2, <2>5, <2>6
  <2> QED
    BY <2>4, <2>7, <2>8
<1> QED
  BY <1>2, <1>3

LEMMA CommitInv == ASSUME Inv, NEW r \in Requests, Commit(r) PROVE Inv'
<1> PICK q : q = req[r]
  OBVIOUS
<1> PICK j : j = [legs |-> q.legs, rows |-> {}, moved |-> {}, result |-> q.result, status |-> "ok"]
  OBVIOUS
<1>1. /\ TypeOK /\ OpenFits(q, "commit") /\ q \in Job /\ pc[r] = "commit"
      /\ IsFiniteSet(q.rows) /\ q.rows \subseteq LedgerRow /\ Len(q.legs) \in {1, 2}
      /\ \A x, y \in q.rows : x.user = y.user => x = y
  BY CommitTyped
<1>2. \A row \in q.rows :
        row.id < nextId /\ ~Applied(row.key) /\ \E i \in 1..Len(q.legs) : RowFor(row, q.legs[i])
  BY CommitTyped
<1>3. \A i \in 1..Len(q.legs) : \E row \in q.rows : RowFor(row, q.legs[i])
  BY CommitTyped
<1>4. \A i \in 1..Len(q.legs) : q.legs[i] \in q.moved
  BY CommitTyped
<1>5. /\ ledger' = ledger \cup q.rows /\ nextId' = nextId
      /\ req' = [req EXCEPT ![r] = j] /\ pc' = [pc EXCEPT ![r] = "done"]
      /\ nextId \in Nat
  BY <1>1 DEF Commit, Answer, Goto, TypeOK
<1>6. /\ j \in Job /\ j.legs = q.legs /\ j.rows = {} /\ j.moved = {}
      /\ j.result = q.result /\ j.status = "ok"
  BY <1>1 DEF Job
<1>7. /\ req'[r] = j /\ pc'[r] = "done"
      /\ \A o \in Requests \ {r} : req'[o] = req[o] /\ pc'[o] = pc[o] /\ req[o] \in Job
  BY <1>1, <1>5 DEF TypeOK
<1>8. \A u \in Users : wallet[u] \in Int /\ wallet'[u] \in Int
  <2>1. ASSUME NEW u \in Users PROVE wallet[u] \in Int /\ wallet'[u] \in Int
    <3>1. wallet[u] \in Int /\ \A row \in q.rows : row.delta \in Int
      BY <1>1 DEF TypeOK, LedgerRow
    <3> QED
      BY <3>1, CommitUser
  <2> QED
    BY <2>1
<1>9. TypeOK'
  <2>1. wallet' \in [Users -> Int]
    <3>1. wallet' = [u \in Users |-> wallet'[u]]
      BY DEF Commit
    <3> QED
      BY <1>8, <3>1
  <2> QED
    BY <1>1, <1>5, <1>6, <2>1 DEF TypeOK, PCs
<1>10. \A x, y \in q.rows : x.key = y.key => x = y
  <2>1. \A i, l \in 1..Len(q.legs) : i # l => q.legs[i].key # q.legs[l].key
    BY <1>1, LegsTyped DEF OpenFits
  <2> QED
    BY <1>1, <1>2, <2>1 DEF RowFor
<1>11. LedgerOK'
  <2>1. IsFiniteSet(ledger')
    BY <1>1, <1>5, FS_Union DEF Inv, LedgerOK
  <2>2. \A x \in ledger' : x.id < nextId'
    BY <1>2, <1>5 DEF Inv, LedgerOK
  <2>3. \A x, y \in ledger' : x.key = y.key => x = y
    BY <1>2, <1>5, <1>10 DEF Inv, LedgerOK, Applied
  <2>4. ASSUME NEW u \in Users
        PROVE  wallet'[u] >= 0 /\ wallet'[u] = Opening[u] + Sum(RowsOf(u)')
    <3>1. /\ wallet[u] >= 0 /\ wallet[u] = Opening[u] + Sum(RowsOf(u))
          /\ Opening[u] \in Int /\ Sum(RowsOf(u)) \in Int
      BY LedgerAmounts, SumInt, WalletAssumption DEF Inv, LedgerOK
    <3>2. CASE RowsOf(u)' = RowsOf(u) /\ wallet'[u] = wallet[u]
      BY <3>1, <3>2
    <3>3. CASE \E row \in q.rows :
                 /\ row.user = u /\ RowsOf(u)' = RowsOf(u) \cup {row}
                 /\ wallet'[u] = wallet[u] + row.delta /\ wallet'[u] >= 0
      <4>1. PICK row \in q.rows :
                 /\ row.user = u /\ RowsOf(u)' = RowsOf(u) \cup {row}
                 /\ wallet'[u] = wallet[u] + row.delta /\ wallet'[u] >= 0
        BY <3>3
      <4>2. row \notin RowsOf(u) /\ row.delta \in Int
        BY <1>1, <1>2 DEF RowsOf, Applied, LedgerRow
      <4>3. Sum(RowsOf(u) \cup {row}) = Sum(RowsOf(u)) + row.delta
        BY <4>2, LedgerAmounts, SumAdd
      <4>4. Sum(RowsOf(u)') = Sum(RowsOf(u)) + row.delta
        BY <4>1, <4>3
      <4> QED
        BY <3>1, <4>1, <4>2, <4>4
    <3> QED
      BY <3>2, <3>3, CommitUser
  <2> QED
    BY <2>1, <2>2, <2>3, <2>4 DEF LedgerOK
<1>12. \A k : Applied(k) => Applied(k)'
  BY <1>5 DEF Applied
<1>13. /\ \A row \in ledger : row \in ledger' /\ BalanceAfter(row)' = BalanceAfter(row)
       /\ \A row \in q.rows : row \in ledger' /\ BalanceAfter(row)' = wallet'[row.user]
  BY <1>5, CommitBalances
<1>14. ASSUME NEW i \in Job, AnswerFits(i) PROVE AnswerFits(i)'
  <2>1. ASSUME i.status = "ok", NEW l \in 1..Len(i.legs)
        PROVE  \E row \in ledger' : RowFor(row, i.legs[l]) /\ i.result[l] = BalanceAfter(row)'
    <3>1. PICK row \in ledger : RowFor(row, i.legs[l]) /\ i.result[l] = BalanceAfter(row)
      BY <1>14, <2>1 DEF AnswerFits
    <3> QED
      BY <1>13, <3>1
  <2> QED
    BY <1>12, <1>14, <2>1 DEF AnswerFits, LegsOf, RowFor
<1>15. ASSUME NEW o \in Requests \ {r} PROVE Fits(req[o], pc[o])'
  <2> PICK i, s : i = req[o] /\ s = pc[o]
    OBVIOUS
  <2>1. i \in Job /\ Fits(i, s) /\ Apart(q, i) /\ req'[o] = i /\ pc'[o] = s
    BY <1>7 DEF Inv
  <2>2. ASSUME OpenFits(i, s) PROVE OpenFits(i, s)'
    <3>1. /\ \A row \in i.rows : \E l \in 1..Written(i) : RowFor(row, i.legs[l])
          /\ \A l \in 1..Moved(i, s) : i.legs[l] \in i.moved
          /\ Written(i) \in Nat /\ IsFiniteSet(i.rows)
          /\ Moved(i, s) \in {Written(i), Written(i) + 1}
      <4>1. /\ IsFiniteSet(i.rows) /\ Written(i) \in Nat
            /\ Moved(i, s) \in {Written(i), Written(i) + 1}
        BY <2>2, FS_CardinalityType DEF OpenFits, RowsFit, Written, Moved
      <4>2. \A row \in i.rows : \E l \in 1..Written(i) : RowFor(row, i.legs[l])
        BY <2>2 DEF OpenFits, RowsFit
      <4>3. \A l \in 1..Moved(i, s) : i.legs[l] \in i.moved
        BY <2>2 DEF OpenFits, MovesFit
      <4> QED
        BY <4>1, <4>2, <4>3
    <3>2. \A leg \in i.moved : leg.user \in Users /\ wallet'[leg.user] = wallet[leg.user]
                                 /\ RowsOf(leg.user)' = RowsOf(leg.user)
      <4>1. ASSUME NEW leg \in i.moved
            PROVE  leg.user \in Users /\ wallet'[leg.user] = wallet[leg.user]
                     /\ RowsOf(leg.user)' = RowsOf(leg.user)
        <5>1. leg.user \in Users
          BY <2>1 DEF Job, Leg
        <5>2. \A x \in q.moved : x.user # leg.user
          BY <2>1 DEF Apart
        <5>3. \A row \in q.rows : row.user # leg.user
          BY <1>2, <1>4, <5>2 DEF RowFor
        <5> QED
          BY <5>1, <5>3, CommitUser
      <4> QED
        BY <4>1
    <3>3. \A row \in i.rows : \E leg \in i.moved : row.user = leg.user
      <4>1. \A l \in 1..Written(i) : l \in 1..Moved(i, s)
        BY <3>1
      <4> QED
        BY <3>1, <4>1 DEF RowFor
    <3>4. \A row \in i.rows : ~Applied(row.key)' /\ RowsOf(row.user)' = RowsOf(row.user)
      <4>1. \A row \in i.rows : ~Applied(row.key)
        BY <2>2 DEF OpenFits, RowsFit
      <4>2. \A row \in i.rows, x \in q.rows : x.key # row.key
        BY <2>1 DEF Apart
      <4> QED
        BY <1>5, <3>2, <3>3, <4>1, <4>2 DEF Applied
    <3>5. RowsFit(i)'
      <4>1. RowsFit(i)
        BY <2>2 DEF OpenFits
      <4> QED
        BY <1>5, <3>4, <4>1 DEF RowsFit
    <3>6. MovesFit(i, s)'
      <4>1. \A l \in 1..Moved(i, s) : wallet'[i.legs[l].user] = wallet[i.legs[l].user]
        BY <3>1, <3>2
      <4>2. MovesFit(i, s)
        BY <2>2 DEF OpenFits
      <4> QED
        BY <4>1, <4>2 DEF MovesFit
    <3> QED
      BY <2>2, <3>5, <3>6 DEF OpenFits, LegsOf
  <2>3. Fits(i, s)'
    BY <1>14, <2>1, <2>2 DEF Fits
  <2> QED
    BY <2>1, <2>3
<1>16. Fits(req[r], pc[r])'
  <2>1. LegsOf(j)
    BY <1>1, <1>6 DEF OpenFits, LegsOf
  <2>2. ASSUME NEW i \in 1..Len(j.legs)
        PROVE  \E row \in ledger' : RowFor(row, j.legs[i]) /\ j.result[i] = BalanceAfter(row)'
    <3>1. PICK row \in q.rows : RowFor(row, q.legs[i])
      BY <1>3, <1>6
    <3>2. q.result[i] = wallet[q.legs[i].user] + q.legs[i].delta
      BY <1>6, CommitTyped
    <3>3. row.user \in Users
      BY <1>1 DEF LedgerRow
    <3>4. wallet'[row.user] = wallet[row.user] + row.delta
      BY <1>1, <3>1, <3>3, CommitUser
    <3>5. q.result[i] = wallet'[row.user]
      BY <3>1, <3>2, <3>4 DEF RowFor
    <3> QED
      BY <1>6, <1>13, <3>1, <3>5
  <2>3. Len(j.result) = Len(j.legs)
    BY <1>6, CommitTyped
  <2>4. AnswerFits(j)'
    BY <1>6, <2>1, <2>2, <2>3 DEF AnswerFits, LegsOf, RowFor
  <2>5. Fits(j, "done")'
    BY <2>4 DEF Fits, Opened
  <2> QED
    BY <1>7, <2>5
<1>17. \A o, p \in Requests : o # p => Apart(req[o], req[p])'
  <2>1. \A i : Apart(j, i) /\ Apart(i, j)
    BY <1>6 DEF Apart
  <2>2. \A o, p \in Requests : o # p => Apart(req[o], req[p])
    BY DEF Inv
  <2>3. \A o, p \in Requests : o # p => Apart(req'[o], req'[p])
    BY <1>7, <2>1, <2>2
  <2> QED
    BY <2>3 DEF Apart
<1>18. ReplayAgrees'
  <2>1. ASSUME NEW o \in Requests \ {r}, req[o].status = "replayed"
        PROVE  req[o].legs # q.legs
    <3>1. req[o].status # "open" /\ NoJob.status = "open" /\ pc[o] \in PCs /\ Fits(req[o], pc[o])
      BY <1>1, <2>1 DEF NoJob, TypeOK, Inv
    <3>2. pc[o] = "done"
      <4>1. pc[o] # "new" /\ ~Opened(pc[o])
        BY <3>1 DEF Fits, OpenFits
      <4> QED
        BY <3>1, <4>1 DEF Opened, PCs
    <3>3. Applied(req[o].legs[1].key)
      BY <2>1, <3>1, <3>2 DEF Fits, AnswerFits
    <3>4. 1 \in 1..Len(q.legs)
      <4>1. Len(q.legs) = 1 \/ Len(q.legs) = 2
        BY <1>1
      <4>2. 1 \in 1..1 /\ 1 \in 1..2
        OBVIOUS
      <4> QED
        BY <4>1, <4>2
    <3>5. ~Applied(q.legs[1].key)
      BY <1>2, <1>3, <3>4 DEF RowFor
    <3> QED
      BY <3>3, <3>5
  <2>2. ASSUME NEW o \in Requests, NEW p \in Requests, req'[o].status = "ok",
               req'[p].status = "replayed", req'[o].legs = req'[p].legs
        PROVE  req'[o].result = req'[p].result
    <3>1. p # r
      BY <1>6, <1>7, <2>2
    <3>2. o # r
      BY <1>6, <1>7, <2>1, <2>2, <3>1
    <3> QED
      BY <1>7, <2>2, <3>1, <3>2 DEF Inv, ReplayAgrees
  <2> QED
    BY <2>2 DEF ReplayAgrees
<1>19. \A o \in Requests : Fits(req[o], pc[o])'
  BY <1>15, <1>16
<1> QED
  BY <1>9, <1>11, <1>17, <1>18, <1>19 DEF Inv

----------------------------------------------------------------------------
(* The theorems *)

LEMMA NextInv == Inv /\ [Next]_vars => Inv'
<1> SUFFICES ASSUME Inv, [Next]_vars PROVE Inv'
  OBVIOUS
<1>1. ASSUME NEW r \in Requests, Begins(r) PROVE Inv'
  <2>1. PICK legs : LegsOf([legs |-> legs]) /\ Begin(r, legs)
    BY <1>1 DEF Begins, LegsOf
  <2> QED
    BY <2>1, BeginInv
<1>2. ASSUME NEW r \in Requests, Continues(r) \/ Abort(r) PROVE Inv'
  BY <1>2, LookInv, MoveInv, InsertInv, CommitInv, AbortInv DEF Continues
<1>3. CASE UNCHANGED vars
  <2>1. wallet' = wallet /\ ledger' = ledger /\ nextId' = nextId /\ pc' = pc /\ req' = req
    BY <1>3 DEF vars
  <2>2. TypeOK /\ TypeOK'
    BY <2>1 DEF Inv, TypeOK
  <2>3. LedgerOK'
    BY <2>1 DEF Inv, LedgerOK, RowsOf
  <2>4. \A j \in Job, s \in PCs : Fits(j, s) => Fits(j, s)'
    BY <2>1, <2>2, Spared DEF TypeOK
  <2>5. \A r \in Requests : Fits(req[r], pc[r])'
    BY <2>1, <2>2, <2>4 DEF Inv, TypeOK
  <2>6. ReplayAgrees' /\ \A r, o \in Requests : r # o => Apart(req[r], req[o])'
    BY <2>1 DEF Inv, ReplayAgrees, Apart
  <2> QED
    BY <2>2, <2>3, <2>5, <2>6 DEF Inv
<1> QED
  BY <1>1, <1>2, <1>3 DEF Next

\* The invariant holds of every behaviour.
THEOREM Invariance == Spec => []Inv
BY InitInv, NextInv, PTL DEF Spec

\* However the transactions interleave and fail, a wallet is the sum of its
\* ledger and never overdrawn: a transaction holds the wallets it has moved.
THEOREM Sums == Spec => []WalletIsLedger
<1>1. Inv => WalletIsLedger
  BY DEF Inv, LedgerOK, WalletIsLedger
<1> QED
  BY <1>1, Invariance, PTL

\* A replay answers what the first request answered: the rows of one person
\* commit in the order of their ids, because the wallet is held meanwhile.
THEOREM Replays == Spec => []ReplayAgrees
<1>1. Inv => ReplayAgrees
  BY DEF Inv
<1> QED
  BY <1>1, Invariance, PTL

LEMMA SameLedger ==
  ASSUME wallet' = wallet, ledger' = ledger
  PROVE  UNCHANGED <<wallet, {row.key : row \in ledger}>>
OBVIOUS

\* What a commit does to the abstract ledger, leg by leg.
LEMMA CommitLegs ==
  ASSUME Inv, NEW r \in Requests, Commit(r), NEW q, q = req[r]
  PROVE  /\ \A i \in 1..Len(q.legs) :
              /\ ~Applied(q.legs[i].key)
              /\ wallet'[q.legs[i].user] = wallet[q.legs[i].user] + q.legs[i].delta
              /\ wallet'[q.legs[i].user] >= 0
         /\ \A u \in Users :
              (\A i \in 1..Len(q.legs) : q.legs[i].user # u) => wallet'[u] = wallet[u]
         /\ \A k : Applied(k)' <=> Applied(k) \/ \E i \in 1..Len(q.legs) : k = q.legs[i].key
<1>1. \A row \in q.rows : ~Applied(row.key) /\ row.user \in Users
  BY CommitTyped DEF LedgerRow
<1>2. \A row \in q.rows : \E i \in 1..Len(q.legs) : RowFor(row, q.legs[i])
  BY CommitTyped
<1>3. \A i \in 1..Len(q.legs) : \E row \in q.rows : RowFor(row, q.legs[i])
  BY CommitTyped
<1>4. \A x, y \in q.rows : x.user = y.user => x = y
  BY CommitTyped
<1>5. ASSUME NEW i \in 1..Len(q.legs)
      PROVE  /\ ~Applied(q.legs[i].key)
             /\ wallet'[q.legs[i].user] = wallet[q.legs[i].user] + q.legs[i].delta
             /\ wallet'[q.legs[i].user] >= 0
  <2>1. PICK row \in q.rows : RowFor(row, q.legs[i])
    BY <1>3
  <2>2. wallet'[row.user] = wallet[row.user] + row.delta /\ wallet'[row.user] >= 0
    BY <1>1, <1>4, CommitUser
  <2> QED
    BY <1>1, <2>1, <2>2 DEF RowFor
<1>6. ASSUME NEW u \in Users, \A i \in 1..Len(q.legs) : q.legs[i].user # u
      PROVE  wallet'[u] = wallet[u]
  BY <1>2, <1>6, CommitUser DEF RowFor
<1>7. ASSUME NEW k
      PROVE  Applied(k)' <=> Applied(k) \/ \E i \in 1..Len(q.legs) : k = q.legs[i].key
  <2>1. ledger' = ledger \cup q.rows
    BY DEF Commit
  <2> QED
    <3>1. Applied(k)' <=> Applied(k) \/ \E row \in q.rows : row.key = k
      BY <2>1 DEF Applied
    <3>2. (\E row \in q.rows : row.key = k) <=> \E i \in 1..Len(q.legs) : k = q.legs[i].key
      <4>1. ASSUME NEW row \in q.rows, row.key = k
            PROVE  \E i \in 1..Len(q.legs) : k = q.legs[i].key
        BY <1>2, <4>1 DEF RowFor
      <4>2. ASSUME NEW i \in 1..Len(q.legs), k = q.legs[i].key
            PROVE  \E row \in q.rows : row.key = k
        BY <1>3, <4>2 DEF RowFor
      <4> QED
        BY <4>1, <4>2
    <3> QED
      BY <3>1, <3>2
<1> QED
  BY <1>5, <1>6, <1>7

LEMMA CommitImplements ==
  ASSUME Inv, NEW r \in Requests, Commit(r)
  PROVE  L!Next
<1> PICK q, keys : q = req[r] /\ keys = {row.key : row \in ledger}
  OBVIOUS
<1> DEFINE after == {row.key : row \in ledger}'
<1>1. /\ LegsOf(q) /\ wallet \in [Users -> Int]
      /\ wallet' = [u \in Users |-> wallet'[u]]
  BY CommitTyped DEF OpenFits, TypeOK, Commit
<1>2. /\ \A i \in 1..Len(q.legs) :
           /\ q.legs[i].key \notin keys
           /\ wallet'[q.legs[i].user] = wallet[q.legs[i].user] + q.legs[i].delta
           /\ wallet'[q.legs[i].user] >= 0
      /\ \A u \in Users : (\A i \in 1..Len(q.legs) : q.legs[i].user # u) => wallet'[u] = wallet[u]
      /\ \A k : k \in after <=> k \in keys \/ \E i \in 1..Len(q.legs) : k = q.legs[i].key
  <2>1. (\A k : k \in keys <=> Applied(k)) /\ (\A k : k \in after <=> Applied(k)')
    BY DEF Applied
  <2>2. \A i \in 1..Len(q.legs) :
           /\ ~Applied(q.legs[i].key)
           /\ wallet'[q.legs[i].user] = wallet[q.legs[i].user] + q.legs[i].delta
           /\ wallet'[q.legs[i].user] >= 0
    BY CommitLegs
  <2>3. \A u \in Users : (\A i \in 1..Len(q.legs) : q.legs[i].user # u) => wallet'[u] = wallet[u]
    BY CommitLegs
  <2>4. \A k : Applied(k)' <=> Applied(k) \/ \E i \in 1..Len(q.legs) : k = q.legs[i].key
    BY CommitLegs
  <2> HIDE DEF after
  <2> QED
    BY <2>1, <2>2, <2>3, <2>4
<1> HIDE DEF after
<1>3. PICK u \in Users, a \in Amounts, k \in CallerKeys :
        \/ q.legs = Credit(u, a, k)
        \/ q.legs = Debit(u, a, k)
        \/ \E v \in Users \ {u} : q.legs = Transfer(u, v, a, k)
  BY <1>1 DEF LegsOf
<1>4. a \in Int /\ wallet[u] \in Int
  BY <1>1, WalletAssumption
<1>5. CASE q.legs = Credit(u, a, k)
  <2>1. Len(q.legs) = 1 /\ q.legs[1] = [user |-> u, delta |-> a, key |-> k]
    BY <1>5 DEF Credit
  <2>2. /\ k \notin keys /\ wallet'[u] = wallet[u] + a
        /\ \A v \in Users : v # u => wallet'[v] = wallet[v]
        /\ \A c : c \in after <=> c \in keys \/ c = k
    BY <1>2, <2>1
  <2>3. wallet' = [wallet EXCEPT ![u] = @ + a] /\ after = keys \cup {k}
    BY <1>1, <2>2
  <2> QED
    BY <2>2, <2>3 DEF L!Next, L!Credit, after
<1>6. CASE q.legs = Debit(u, a, k)
  <2>1. Len(q.legs) = 1 /\ q.legs[1] = [user |-> u, delta |-> -a, key |-> k]
    BY <1>6 DEF Debit
  <2>2. /\ k \notin keys /\ wallet'[u] = wallet[u] + (-a) /\ wallet'[u] >= 0
        /\ \A v \in Users : v # u => wallet'[v] = wallet[v]
        /\ \A c : c \in after <=> c \in keys \/ c = k
    BY <1>2, <2>1
  <2>3. wallet' = [wallet EXCEPT ![u] = @ - a] /\ after = keys \cup {k} /\ wallet[u] >= a
    BY <1>1, <1>4, <2>2
  <2> QED
    BY <2>2, <2>3 DEF L!Next, L!Debit, after
<1>7. CASE \E v \in Users \ {u} : q.legs = Transfer(u, v, a, k)
  <2>1. PICK v \in Users \ {u} : q.legs = Transfer(u, v, a, k)
    BY <1>7
  <2>2. /\ Len(q.legs) = 2 /\ q.legs[1] = [user |-> u, delta |-> -a, key |-> k]
        /\ q.legs[2] = [user |-> v, delta |-> a, key |-> InKey(k)]
    BY <2>1, TransferIs DEF Debit, Credit
  <2>3. /\ k \notin keys /\ wallet'[u] = wallet[u] + (-a) /\ wallet'[u] >= 0
        /\ InKey(k) \notin keys /\ wallet'[v] = wallet[v] + a
        /\ \A w \in Users : w # u /\ w # v => wallet'[w] = wallet[w]
        /\ \A c : c \in after <=> c \in keys \/ c = k \/ c = InKey(k)
    BY <1>2, <2>2
  <2>4. wallet' = [wallet EXCEPT ![u] = @ - a, ![v] = @ + a]
    BY <1>1, <1>4, <2>3
  <2>5. after = keys \cup {k, InKey(k)} /\ wallet[u] >= a
    BY <1>4, <2>3
  <2> QED
    BY <2>3, <2>4, <2>5 DEF L!Next, L!Transfer, after
<1> QED
  BY <1>3, <1>5, <1>6, <1>7

\* The wallet keeps the promise of CoinLedger: a commit is the credit, the debit
\* or the transfer that was asked for, and no other step shows.
THEOREM Implements == Spec => ImplementsLedger
<1>1. Init => L!Init
  BY DEF Init, L!Init
<1>2. Inv /\ [Next]_vars => [L!Next]_<<wallet, {row.key : row \in ledger}>>
  <2> SUFFICES ASSUME Inv, [Next]_vars,
                      ~ UNCHANGED <<wallet, {row.key : row \in ledger}>>
               PROVE  L!Next
    OBVIOUS
  <2>1. ASSUME NEW r \in Requests, Commit(r) PROVE L!Next
    BY <2>1, CommitImplements
  <2>2. ASSUME NEW r \in Requests, Begins(r) \/ Look(r) \/ Move(r) \/ Insert(r) \/ Abort(r)
        PROVE  wallet' = wallet /\ ledger' = ledger
    BY <2>2 DEF Begins, Begin, Look, Move, Insert, Abort
  <2>3. CASE UNCHANGED vars
    BY <2>3, SameLedger DEF vars
  <2> QED
    BY <2>1, <2>2, <2>3, SameLedger DEF Next, Continues
<1> QED
  BY <1>1, <1>2, Invariance, PTL DEF Spec, ImplementsLedger, L!Spec
============================================================================
