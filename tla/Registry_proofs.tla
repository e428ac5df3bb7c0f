--------------------------- MODULE Registry_proofs ---------------------------
(***************************************************************************)
(* Theorems about the two parts of server/registry: MachinePools, for any  *)
(* number of calls, machines, pools, owners and keys; and, in the second   *)
(* half, NodePairing, for any number of requests, codes and machines and   *)
(* any limits.                                                             *)
(*                                                                         *)
(* Pools.  A proposal has locked the machines it will take, in the order   *)
(* of their names, and they are in no pool; an approval that has locked    *)
(* its pool knows the keys of the others (PoolFits).  What one call holds  *)
(* no other holds (PoolApart), so the others spare it (PoolSpares).        *)
(*                                                                         *)
(* Pairing.  A row that a request has locked is locked by nobody else      *)
(* (Apart), so what the request read of it is still so when it writes      *)
(* (Fits).  Hence the counts of each code agree (CodeOK), a machine's code *)
(* is used up, and its revocation is announced once (NodeOK).              *)
(***************************************************************************)
EXTENDS MachinePools, NodePairing, TLAPS

Locking(j) == j.op = "approve" /\ j.at \in {"read", "write"}

PoolApart == \A r, q \in Calls : r # q =>
    /\ call[r].held \cap call[q].held = {}
    /\ Locking(call[r]) /\ Locking(call[q]) => call[r].pool # call[q].pool

\* What a call relies on between its steps.
PoolFits(j) ==
    /\ \A m \in Machines : j.gens[m] # 0 => m \in j.left \cup j.held
    /\ \A h \in j.held, l \in j.left : h < l
    /\ \A m \in j.held, p \in Pools : Live(p) => pool[p].members[m] = 0
    /\ j.op \in {"approve", "status", "revoke"} => j.pool \in Pools /\ pool[j.pool].state # "none"
    /\ j.op \in {"announce", "approve", "status"} => j.machine \in Machines
    /\ j.op = "approve" => j.key \in Keys
    /\ Locking(j) => Live(j.pool)
    /\ Locking(j) /\ j.at = "write" =>
          /\ \A n \in Members(j.pool) \ {j.machine} : cert[j.pool][n] # j.key
          /\ cert[j.pool][j.machine] \in {NoKey, j.key}
    /\ j.op = "revoke" /\ j.at = "write" => pool[j.pool].state = "revoked"

NoKeyYet == \A p \in Pools : pool[p].state = "none" => \A m \in Machines : cert[p][m] = NoKey

PoolInv ==
        /\ PoolTypeOK /\ PoolApart /\ OnePool /\ OwnKeys /\ RevokedIsEmpty /\ NoKeyYet
        /\ \A r \in Calls : PoolFits(call[r])

\* Pools go from nothing to live to revoked, and keep their members.
Grows == \A p \in Pools :
    /\ pool[p].state # "none" => pool'[p].state # "none" /\ pool'[p].members = pool[p].members
    /\ pool[p].state = "revoked" => pool'[p].state = "revoked"

\* A step leaves alone what j has locked.
PoolSpares(j) ==
    /\ \A m \in j.held, p \in Pools : pool'[p].state = "live" /\ pool[p].state = "none"
                                      => pool'[p].members[m] = 0
    /\ Locking(j) => pool'[j.pool].state = "live" /\ cert'[j.pool] = cert[j.pool]

----------------------------------------------------------------------------
(* Initial states, and what the steps have in common *)

LEMMA NoCallTyped == NoCall \in CallRecord
BY MachinePoolsAssumption DEF NoCall, CallRecord

LEMMA NoCallFits == PoolFits(NoCall) /\ PoolFits(NoCall)' /\ NoCall.held = {} /\ ~Locking(NoCall)
<1>1. NoCall.op = "idle" /\ NoCall.held = {} /\ NoCall.left = {} /\ \A m \in Machines : NoCall.gens[m] = 0
  BY DEF NoCall
<1>2. ~Locking(NoCall)
  BY <1>1 DEF Locking
<1>3. PoolFits(NoCall)
  BY <1>1, <1>2 DEF PoolFits
<1>4. PoolFits(NoCall)'
  BY <1>1, <1>2 DEF PoolFits
<1> QED
  BY <1>1, <1>2, <1>3, <1>4

LEMMA PoolInitInv == PoolInit => PoolInv
<1> SUFFICES ASSUME PoolInit PROVE PoolInv
  OBVIOUS
<1> USE MachinePoolsAssumption DEF PoolInit
<1>1. PoolTypeOK
  <2>1. PICK o \in Owners : registry = [m \in Machines |-> [owner |-> o, gen |-> 1]]
    OBVIOUS
  <2>2. registry \in [Machines -> [owner: Owners \cup {NoOne}, gen: 0..MaxPairings]]
    BY <2>1
  <2>3. pool \in [Pools -> PoolRow]
    BY DEF PoolRow, NoPool
  <2>4. /\ cand \in [Machines -> [owner: Owners \cup {NoOne}, gen: 0..MaxPairings]]
        /\ cert \in [Pools -> [Machines -> Keys \cup {NoKey}]]
        /\ ready \in [Pools -> SUBSET Machines]
    OBVIOUS
  <2>5. call \in [Calls -> CallRecord] /\ \A r \in Calls : call[r].held = {}
    BY NoCallTyped DEF NoCall
  <2> QED
    BY <2>2, <2>3, <2>4, <2>5 DEF PoolTypeOK
<1>2. PoolApart
  BY DEF PoolApart, NoCall, Locking
<1>3. OnePool /\ OwnKeys /\ RevokedIsEmpty /\ NoKeyYet
  BY DEF OnePool, OwnKeys, RevokedIsEmpty, NoKeyYet, NoPool, Live, Members
<1>4. \A r \in Calls : PoolFits(call[r])
  BY NoCallFits
<1> QED
  BY <1>1, <1>2, <1>3, <1>4 DEF PoolInv

LEMMA PoolSpared ==
  ASSUME PoolTypeOK, PoolTypeOK', NEW j \in CallRecord, PoolFits(j), Grows, PoolSpares(j) PROVE PoolFits(j)'
<1> USE DEF PoolFits, PoolSpares, Grows, Locking, Live
<1>1. \A m \in j.held, p \in Pools : pool'[p].state = "live" => pool'[p].members[m] = 0
  <2> SUFFICES ASSUME NEW m \in j.held, NEW p \in Pools, pool'[p].state = "live"
               PROVE  pool'[p].members[m] = 0
    OBVIOUS
  <2>1. pool[p].state \in {"none", "live", "revoked"}
    BY DEF PoolTypeOK, PoolRow
  <2> QED
    BY <2>1
<1>2. j.op \in {"approve", "status", "revoke"} => j.pool \in Pools /\ pool'[j.pool].state # "none"
  OBVIOUS
<1>3. Locking(j) => pool'[j.pool].members = pool[j.pool].members
  OBVIOUS
<1>4. Locking(j) /\ j.at = "write" =>
          /\ \A n \in Members(j.pool)' \ {j.machine} : cert'[j.pool][n] # j.key
          /\ cert'[j.pool][j.machine] \in {NoKey, j.key}
  BY <1>3 DEF Members
<1>5. j.op = "revoke" /\ j.at = "write" => pool'[j.pool].state = "revoked"
  OBVIOUS
<1> QED
  BY <1>1, <1>2, <1>4, <1>5

\* The calls after a step of r that makes its own one j.
LEMMA CallStep ==
  ASSUME PoolInv, PoolTypeOK', Grows, NEW r \in Calls, NEW j \in CallRecord, call' = [call EXCEPT ![r] = j],
         PoolFits(j)',
         \A q \in Calls \ {r} : /\ j.held \cap call[q].held = {}
                                /\ Locking(j) /\ Locking(call[q]) => j.pool # call[q].pool
                                /\ PoolSpares(call[q])
  PROVE  PoolApart' /\ \A q \in Calls : PoolFits(call[q])'
<1>1. \A q \in Calls \ {r} : call'[q] = call[q]
  BY DEF PoolInv, PoolTypeOK
<1>2. call'[r] = j
  BY DEF PoolInv, PoolTypeOK
<1>3. PoolApart'
  <2> SUFFICES ASSUME NEW a \in Calls, NEW b \in Calls, a # b
               PROVE  /\ call'[a].held \cap call'[b].held = {}
                      /\ Locking(call'[a]) /\ Locking(call'[b]) => call'[a].pool # call'[b].pool
    BY DEF PoolApart, Locking
  <2>1. CASE a # r /\ b # r
    BY <1>1, <2>1 DEF PoolInv, PoolApart
  <2>2. CASE a = r
    BY <1>1, <1>2, <2>2
  <2>3. CASE b = r
    BY <1>1, <1>2, <2>3
  <2> QED
    BY <2>1, <2>2, <2>3
<1>4. ASSUME NEW q \in Calls PROVE PoolFits(call[q])'
  <2>1. CASE q = r
    BY <1>2, <2>1
  <2>2. CASE q # r
    <3>1. PICK i \in CallRecord : i = call[q]
      BY DEF PoolInv, PoolTypeOK
    <3>2. PoolTypeOK /\ PoolFits(i) /\ PoolSpares(i)
      BY <2>2, <3>1 DEF PoolInv
    <3>3. PoolFits(i)'
      BY <3>2, PoolSpared
    <3> QED
      BY <1>1, <2>2, <3>1, <3>3
  <2> QED
    BY <2>1, <2>2
<1> QED
  BY <1>3, <1>4

\* A step of r that writes neither pools nor keys.
LEMMA PoolQuietInv ==
  ASSUME PoolInv, PoolTypeOK', NEW r \in Calls, NEW j \in CallRecord, call' = [call EXCEPT ![r] = j], PoolFits(j),
         \A q \in Calls \ {r} : /\ j.held \cap call[q].held = {}
                                /\ Locking(j) /\ Locking(call[q]) => j.pool # call[q].pool,
         UNCHANGED <<pool, cert>>, torn \subseteq torn',
         CallAt(r, "revoke", "write") => call[r].pool \in torn'
  PROVE  PoolInv'
<1>1. \A q \in Calls \ {r} : PoolSpares(call[q])
  BY DEF PoolInv, PoolFits, PoolSpares, Live
<1>2. Grows
  BY DEF Grows
<1>3. PoolFits(j)'
  BY DEF PoolFits, Live, Members, Locking
<1>4. PoolApart' /\ \A q \in Calls : PoolFits(call[q])'
  BY <1>1, <1>2, <1>3, CallStep
<1>5. OnePool' /\ OwnKeys' /\ NoKeyYet'
  BY DEF PoolInv, OnePool, OwnKeys, NoKeyYet, Live, Members
<1>6. RevokedIsEmpty'
  <2> SUFFICES ASSUME NEW p \in Pools, pool[p].state = "revoked",
                      ~(\A m \in Machines : cert[p][m] = NoKey), p \notin torn'
               PROVE  \E s \in Calls : CallAt(s, "revoke", "write")' /\ call'[s].pool = p
    BY DEF RevokedIsEmpty
  <2>1. PICK s \in Calls : CallAt(s, "revoke", "write") /\ call[s].pool = p
    BY DEF PoolInv, RevokedIsEmpty
  <2>2. s # r
    BY <2>1
  <2>3. call'[s] = call[s]
    BY <2>2 DEF PoolInv, PoolTypeOK
  <2> QED
    BY <2>1, <2>3 DEF CallAt
<1> QED
  BY <1>4, <1>5, <1>6 DEF PoolInv

\* A step of nobody's call.
LEMMA PoolOutsideInv ==
  ASSUME PoolInv, PoolTypeOK', UNCHANGED <<pool, cert, torn, call>> PROVE PoolInv'
BY DEF PoolInv, PoolApart, OnePool, OwnKeys, RevokedIsEmpty, NoKeyYet, PoolFits, Live, Members, Locking, CallAt

----------------------------------------------------------------------------
(* The steps that write neither pools nor keys *)

\* The held rows stay apart when a call gives up its own, or takes one that is free.
LEMMA ApartNow ==
  ASSUME PoolInv, NEW r \in Calls
  PROVE  \A q \in Calls \ {r} :
            /\ call[r].held \cap call[q].held = {}
            /\ Locking(call[r]) /\ Locking(call[q]) => call[r].pool # call[q].pool
BY DEF PoolInv, PoolApart

\* PoolTypeOK after a step that writes no pool and no key.
LEMMA TypesNow ==
  ASSUME PoolInv, NEW r \in Calls, NEW j \in CallRecord, call' = [call EXCEPT ![r] = j],
         \A q \in Calls \ {r} : j.held \cap call[q].held = {},
         registry' \in [Machines -> [owner: Owners \cup {NoOne}, gen: 0..MaxPairings]],
         cand' \in [Machines -> [owner: Owners \cup {NoOne}, gen: 0..MaxPairings]],
         pool' \in [Pools -> PoolRow],
         cert' \in [Pools -> [Machines -> Keys \cup {NoKey}]],
         ready' \in [Pools -> SUBSET Machines], torn' \subseteq Pools
  PROVE  PoolTypeOK'
<1>1. call' \in [Calls -> CallRecord] /\ call'[r] = j /\ \A q \in Calls \ {r} : call'[q] = call[q]
  BY DEF PoolInv, PoolTypeOK
<1>2. ASSUME NEW a \in Calls, NEW b \in Calls, a # b PROVE call'[a].held \cap call'[b].held = {}
  <2>1. CASE a # r /\ b # r
    BY <1>1, <1>2, <2>1 DEF PoolInv, PoolTypeOK
  <2>2. CASE a = r \/ b = r
    BY <1>1, <1>2, <2>2
  <2> QED
    BY <2>1, <2>2
<1> QED
  BY <1>1, <1>2 DEF PoolTypeOK

\* A call begins, or goes on without new locks, or ends.
LEMMA PlainInv ==
  ASSUME PoolInv, NEW r \in Calls, NEW j \in CallRecord, call' = [call EXCEPT ![r] = j], PoolFits(j),
         j.held = {}, ~Locking(j), ~CallAt(r, "revoke", "write"),
         UNCHANGED <<registry, pool, cert, torn>>,
         cand' \in [Machines -> [owner: Owners \cup {NoOne}, gen: 0..MaxPairings]],
         ready' \in [Pools -> SUBSET Machines]
  PROVE  PoolInv'
<1>1. PoolTypeOK'
  BY TypesNow DEF PoolInv, PoolTypeOK
<1> QED
  BY <1>1, PoolQuietInv

LEMMA BeginCallInv ==
  ASSUME PoolInv, NEW r \in Calls, NEW j \in CallRecord, BeginCall(r, j), PoolFits(j), j.held = {}, ~Locking(j),
         UNCHANGED <<registry, cand, pool, cert, ready, torn>>
  PROVE  PoolInv'
<1>1. ~CallAt(r, "revoke", "write")
  BY DEF BeginCall, CallAt, NoCall
<1> QED
  BY <1>1, PlainInv DEF BeginCall, PoolInv, PoolTypeOK

LEMMA DoneInv ==
  ASSUME PoolInv, NEW r \in Calls, EndCall(r), ~CallAt(r, "revoke", "write"),
         UNCHANGED <<registry, pool, cert, torn>>,
         cand' \in [Machines -> [owner: Owners \cup {NoOne}, gen: 0..MaxPairings]],
         ready' \in [Pools -> SUBSET Machines]
  PROVE  PoolInv'
BY NoCallTyped, NoCallFits, PlainInv DEF EndCall

LEMMA Outsiders ==
  ASSUME PoolInv, UNCHANGED <<pool, cert, torn, call>>,
         registry' \in [Machines -> [owner: Owners \cup {NoOne}, gen: 0..MaxPairings]],
         cand' \in [Machines -> [owner: Owners \cup {NoOne}, gen: 0..MaxPairings]],
         ready' \in [Pools -> SUBSET Machines]
  PROVE  PoolInv'
<1>1. PoolTypeOK'
  BY DEF PoolInv, PoolTypeOK
<1> QED
  BY <1>1, PoolOutsideInv

LEMMA UnpairInv == ASSUME PoolInv, NEW m \in Machines, Unpair(m) PROVE PoolInv'
BY Outsiders DEF Unpair, PoolInv, PoolTypeOK

LEMMA PairInv == ASSUME PoolInv, NEW m \in Machines, NEW o \in Owners, Pair(m, o) PROVE PoolInv'
<1>1. registry[m].gen + 1 \in 0..MaxPairings
  BY MachinePoolsAssumption DEF Pair, PoolInv, PoolTypeOK
<1>2. registry' \in [Machines -> [owner: Owners \cup {NoOne}, gen: 0..MaxPairings]]
  BY <1>1 DEF Pair, PoolInv, PoolTypeOK
<1> QED
  BY <1>2, Outsiders DEF Pair, PoolInv, PoolTypeOK

LEMMA ForgetInv == ASSUME PoolInv, NEW m \in Machines, Forget(m) PROVE PoolInv'
<1>1. cand' \in [Machines -> [owner: Owners \cup {NoOne}, gen: 0..MaxPairings]]
  BY MachinePoolsAssumption DEF Forget, PoolInv, PoolTypeOK
<1> QED
  BY <1>1, Outsiders DEF Forget, PoolInv, PoolTypeOK

LEMMA LapseInv == ASSUME PoolInv, NEW p \in Pools, NEW m \in Machines, Lapse(p, m) PROVE PoolInv'
BY Outsiders DEF Lapse, PoolInv, PoolTypeOK

LEMMA AnnounceInv == ASSUME PoolInv, NEW r \in Calls, NEW m \in Machines, Announce(r, m) PROVE PoolInv'
<1> DEFINE i == [NoCall EXCEPT !.op = "announce", !.machine = m, !.owner = registry[m].owner,
                               !.gen = registry[m].gen]
<1>1. registry[m].owner \in Owners \cup {NoOne} /\ registry[m].gen \in 0..MaxPairings
  BY DEF PoolInv, PoolTypeOK
<1>2. i \in CallRecord
  BY <1>1, NoCallTyped DEF CallRecord
<1>3. PICK j \in CallRecord : j = i
  BY <1>2
<1>4. j.op = "announce" /\ j.machine = m /\ j.held = {} /\ j.left = {} /\ j.gens = NoCall.gens
  BY <1>3, NoCallTyped DEF NoCall
<1>5. PoolFits(j) /\ ~Locking(j)
  BY <1>4 DEF PoolFits, Locking, NoCall
<1> QED
  BY <1>3, <1>4, <1>5, BeginCallInv DEF Announce

LEMMA WriteCandidateInv == ASSUME PoolInv, NEW r \in Calls, WriteCandidate(r) PROVE PoolInv'
<1>1. call[r].owner \in Owners \cup {NoOne} /\ call[r].gen \in 0..MaxPairings
  BY DEF PoolInv, PoolTypeOK, CallRecord
<1>2. cand' \in [Machines -> [owner: Owners \cup {NoOne}, gen: 0..MaxPairings]]
  BY <1>1 DEF WriteCandidate, PoolInv, PoolTypeOK
<1> QED
  BY <1>2, DoneInv DEF WriteCandidate, CallAt, PoolInv, PoolTypeOK

LEMMA ProposeInv ==
  ASSUME PoolInv, NEW r \in Calls, NEW o \in Owners, NEW M \in SUBSET Machines, Propose(r, o, M)
  PROVE  PoolInv'
<1> DEFINE gens == [m \in Machines |-> IF m \in M THEN registry[m].gen ELSE 0]
           i == [NoCall EXCEPT !.op = "propose", !.owner = o, !.left = M, !.gens = gens]
<1>1. gens \in [Machines -> 0..MaxPairings]
  BY MachinePoolsAssumption DEF PoolInv, PoolTypeOK
<1> HIDE DEF gens
<1>2. i \in CallRecord
  BY <1>1, NoCallTyped DEF CallRecord
<1>3. PICK j \in CallRecord : j = i
  BY <1>2
<1>4. j.op = "propose" /\ j.held = {} /\ j.left = M /\ j.gens = gens
  BY <1>3, NoCallTyped DEF NoCall
<1>5. PoolFits(j) /\ ~Locking(j)
  BY <1>4 DEF PoolFits, Locking, gens
<1> QED
  BY <1>3, <1>4, <1>5, BeginCallInv DEF Propose, gens

LEMMA LockCandidateInv == ASSUME PoolInv, NEW r \in Calls, LockCandidate(r) PROVE PoolInv'
<1>1. PICK m \in call[r].left : /\ call[r].op = "propose" /\ \A n \in call[r].left : m <= n
                                /\ CandidateFree(r, m) /\ LockOf(r, m)
                                /\ UNCHANGED <<registry, cand, pool, cert, ready, torn>>
  BY DEF LockCandidate
<1>2. /\ call[r] \in CallRecord /\ m \in Machines /\ Machines \subseteq Nat /\ PoolFits(call[r])
      /\ call[r].left \subseteq Machines /\ call[r].held \subseteq Machines
  BY <1>1, MachinePoolsAssumption DEF PoolInv, PoolTypeOK, CallRecord
<1>3. CASE ~Available(r, m)
  BY <1>1, <1>3, DoneInv DEF LockOf, CallAt, PoolInv, PoolTypeOK
<1>4. CASE Available(r, m)
  <2> DEFINE i == [call[r] EXCEPT !.left = call[r].left \ {m}, !.held = call[r].held \cup {m}]
  <2>1. i \in CallRecord /\ call' = [call EXCEPT ![r] = i]
    BY <1>1, <1>2, <1>4 DEF CallRecord, LockOf, PoolInv, PoolTypeOK
  <2>2. PICK j \in CallRecord : j = i
    BY <2>1
  <2>3. /\ j.op = "propose" /\ j.left = call[r].left \ {m} /\ j.held = call[r].held \cup {m}
        /\ j.gens = call[r].gens /\ ~Locking(j)
    BY <1>1, <1>2, <2>2 DEF CallRecord, Locking
  <2>4. \A p \in Pools : Live(p) => pool[p].members[m] = 0
    BY <1>2, <1>4 DEF Available, Members
  <2>5. \A h \in j.held, l \in j.left : h < l
    <3>1. ASSUME NEW l \in call[r].left \ {m} PROVE m < l
      <4>1. m \in Nat /\ l \in Nat /\ m <= l /\ m # l
        BY <1>1, <1>2
      <4> QED
        BY <4>1
    <3> QED
      BY <1>2, <2>3, <3>1 DEF PoolFits
  <2>6. PoolFits(j)
    BY <1>2, <2>3, <2>4, <2>5 DEF PoolFits
  <2>7. \A q \in Calls \ {r} : /\ j.held \cap call[q].held = {}
                               /\ Locking(j) /\ Locking(call[q]) => j.pool # call[q].pool
    BY <1>1, <2>3, ApartNow DEF CandidateFree
  <2>8. PoolTypeOK'
    <3>1. call' = [call EXCEPT ![r] = j] /\ \A q \in Calls \ {r} : j.held \cap call[q].held = {}
      BY <2>1, <2>2, <2>7
    <3>2. /\ registry' \in [Machines -> [owner: Owners \cup {NoOne}, gen: 0..MaxPairings]]
          /\ cand' \in [Machines -> [owner: Owners \cup {NoOne}, gen: 0..MaxPairings]]
          /\ pool' \in [Pools -> PoolRow] /\ cert' \in [Pools -> [Machines -> Keys \cup {NoKey}]]
          /\ ready' \in [Pools -> SUBSET Machines] /\ torn' \subseteq Pools
      BY <1>1 DEF PoolInv, PoolTypeOK
    <3> QED
      BY <3>1, <3>2, TypesNow
  <2>9. ~CallAt(r, "revoke", "write")
    BY <1>1 DEF CallAt
  <2> QED
    BY <1>1, <2>1, <2>2, <2>6, <2>7, <2>8, <2>9, PoolQuietInv
<1> QED
  BY <1>3, <1>4

LEMMA BeginRevokeInv == ASSUME PoolInv, NEW r \in Calls, NEW p \in Pools, BeginRevoke(r, p) PROVE PoolInv'
<1>1. PICK j \in CallRecord : j = [NoCall EXCEPT !.op = "revoke", !.pool = p]
  BY NoCallTyped DEF CallRecord
<1>2. j.op = "revoke" /\ j.at = "check" /\ j.pool = p /\ j.held = {} /\ j.left = {} /\ j.gens = NoCall.gens
  BY <1>1, NoCallTyped DEF NoCall
<1>3. PoolFits(j) /\ ~Locking(j)
  BY <1>2 DEF PoolFits, Locking, NoCall, BeginRevoke
<1> QED
  BY <1>1, <1>2, <1>3, BeginCallInv DEF BeginRevoke

LEMMA ByMachineInv ==
  ASSUME PoolInv, NEW r \in Calls, NEW m \in Machines, NEW p \in Pools, NEW k \in Keys \cup {NoKey},
         NEW op \in {"approve", "status"}, op = "approve" => k \in Keys, ByMachine(r, op, m, p, k)
  PROVE  PoolInv'
<1> DEFINE i == [NoCall EXCEPT !.op = op, !.machine = m, !.gen = registry[m].gen,
                               !.owner = registry[m].owner, !.pool = p, !.key = k]
<1>1. registry[m].owner \in Owners \cup {NoOne} /\ registry[m].gen \in 0..MaxPairings
  BY DEF PoolInv, PoolTypeOK
<1>2. i \in CallRecord
  BY <1>1, NoCallTyped DEF CallRecord
<1>3. PICK j \in CallRecord : j = i
  BY <1>2
<1>4. /\ j.op = op /\ j.at = "check" /\ j.pool = p /\ j.machine = m /\ j.key = k
      /\ j.held = {} /\ j.left = {} /\ j.gens = NoCall.gens
  BY <1>3, NoCallTyped DEF NoCall
<1>5. PoolFits(j) /\ ~Locking(j)
  BY <1>4 DEF PoolFits, Locking, NoCall, ByMachine
<1> QED
  BY <1>3, <1>4, <1>5, BeginCallInv DEF ByMachine

LEMMA ApproveInv ==
  ASSUME PoolInv, NEW r \in Calls, NEW m \in Machines, NEW p \in Pools, NEW k \in Keys, Approve(r, m, p, k)
  PROVE  PoolInv'
BY ByMachineInv DEF Approve

LEMMA StatusInv ==
  ASSUME PoolInv, NEW r \in Calls, NEW m \in Machines, NEW p \in Pools, Status(r, m, p)
  PROVE  PoolInv'
BY ByMachineInv DEF Status

\* The next step of a call that keeps what it has locked and takes nothing.
LEMMA MoveInv ==
  ASSUME PoolInv, NEW r \in Calls, NEW at \in {"check", "lock", "read", "write"}, Advance(r, at),
         call[r].op \in {"approve", "status"}, ~CallAt(r, "revoke", "write"),
         PoolFits([call[r] EXCEPT !.at = at]),
         Locking([call[r] EXCEPT !.at = at]) =>
            \A q \in Calls \ {r} : Locking(call[q]) => call[r].pool # call[q].pool,
         UNCHANGED <<registry, cand, pool, cert, ready, torn>>
  PROVE  PoolInv'
<1>1. call[r] \in CallRecord
  BY DEF PoolInv, PoolTypeOK
<1>2. PICK j \in CallRecord : j = [call[r] EXCEPT !.at = at]
  BY <1>1 DEF CallRecord
<1>3. call' = [call EXCEPT ![r] = j]
  BY <1>2 DEF Advance, PoolInv, PoolTypeOK
<1>4. j.held = call[r].held /\ j.pool = call[r].pool
  BY <1>1, <1>2 DEF CallRecord
<1>5. PoolTypeOK'
  BY <1>3, <1>4, ApartNow, TypesNow DEF PoolInv, PoolTypeOK
<1>6. PoolFits(j)
  BY <1>2
<1>7. \A q \in Calls \ {r} : /\ j.held \cap call[q].held = {}
                             /\ Locking(j) /\ Locking(call[q]) => j.pool # call[q].pool
  BY <1>2, <1>4, ApartNow
<1> QED
  BY <1>3, <1>5, <1>6, <1>7, PoolQuietInv

LEMMA CheckInv ==
  ASSUME PoolInv, NEW r \in Calls, NEW at \in {"lock", "write"}, Check(r, at),
         (CallAt(r, "approve", "check") /\ at = "lock") \/ CallAt(r, "status", "check")
  PROVE  PoolInv'
<1>1. /\ call[r] \in CallRecord /\ PoolFits(call[r]) /\ ~CallAt(r, "revoke", "write")
      /\ call[r].op \in {"approve", "status"} /\ UNCHANGED <<registry, cand, pool, cert, ready, torn>>
  BY DEF PoolInv, PoolTypeOK, CallAt, Check
<1>2. CASE EndCall(r)
  BY <1>1, <1>2, DoneInv DEF PoolInv, PoolTypeOK
<1>3. CASE Advance(r, at)
  <2>1. PICK j \in CallRecord : j = [call[r] EXCEPT !.at = at]
    BY <1>1 DEF CallRecord
  <2>2. /\ j.op = call[r].op /\ j.at = at /\ j.pool = call[r].pool /\ j.machine = call[r].machine
        /\ j.key = call[r].key /\ j.held = call[r].held /\ j.left = call[r].left /\ j.gens = call[r].gens
    BY <1>1, <2>1 DEF CallRecord
  <2>3. ~Locking(j) /\ j.op \in {"approve", "status"}
    BY <1>1, <2>2 DEF Locking, CallAt
  <2>4. PoolFits(j)
    BY <1>1, <2>2, <2>3 DEF PoolFits
  <2> QED
    BY <1>1, <1>3, <2>1, <2>3, <2>4, MoveInv
<1>4. CASE call' = [call EXCEPT ![r] = [NoCall EXCEPT !.op = "revoke", !.pool = call[r].pool]]
  <2>1. call[r].pool \in Pools /\ pool[call[r].pool].state # "none"
    BY <1>1 DEF PoolFits
  <2>2. PICK j \in CallRecord : j = [NoCall EXCEPT !.op = "revoke", !.pool = call[r].pool]
    BY <2>1, NoCallTyped DEF CallRecord
  <2>3. /\ j.op = "revoke" /\ j.at = "check" /\ j.pool = call[r].pool /\ j.held = {} /\ j.left = {}
        /\ j.gens = NoCall.gens
    BY <2>2, NoCallTyped DEF NoCall
  <2>4. PoolFits(j) /\ ~Locking(j)
    BY <2>1, <2>3 DEF PoolFits, Locking, NoCall
  <2> QED
    BY <1>1, <1>4, <2>2, <2>3, <2>4, PlainInv DEF PoolInv, PoolTypeOK
<1> QED
  BY <1>2, <1>3, <1>4 DEF Check

LEMMA CheckApprovalInv == ASSUME PoolInv, NEW r \in Calls, CheckApproval(r) PROVE PoolInv'
BY CheckInv DEF CheckApproval

LEMMA CheckStatusInv == ASSUME PoolInv, NEW r \in Calls, CheckStatus(r) PROVE PoolInv'
BY CheckInv DEF CheckStatus

LEMMA LockPoolInv == ASSUME PoolInv, NEW r \in Calls, LockPool(r) PROVE PoolInv'
<1>1. /\ call[r] \in CallRecord /\ PoolFits(call[r]) /\ call[r].op = "approve" /\ ~CallAt(r, "revoke", "write")
      /\ UNCHANGED <<registry, cand, pool, cert, ready, torn>> /\ PoolFree(r, call[r].pool)
  BY DEF PoolInv, PoolTypeOK, CallAt, LockPool
<1>2. CASE Live(call[r].pool)
  <2>1. PICK j \in CallRecord : j = [call[r] EXCEPT !.at = "read"]
    BY <1>1 DEF CallRecord
  <2>2. /\ j.op = "approve" /\ j.at = "read" /\ j.pool = call[r].pool /\ j.machine = call[r].machine
        /\ j.key = call[r].key /\ j.held = call[r].held /\ j.left = call[r].left /\ j.gens = call[r].gens
    BY <1>1, <2>1 DEF CallRecord
  <2>3. PoolFits(j)
    BY <1>1, <1>2, <2>2 DEF PoolFits
  <2>4. \A q \in Calls \ {r} : Locking(call[q]) => call[r].pool # call[q].pool
    BY <1>1 DEF PoolFree, Locking
  <2>5. Advance(r, "read")
    BY <1>2 DEF LockPool
  <2> QED
    BY <1>1, <2>1, <2>3, <2>4, <2>5, MoveInv
<1>3. CASE ~Live(call[r].pool)
  BY <1>1, <1>3, DoneInv DEF LockPool, PoolInv, PoolTypeOK
<1> QED
  BY <1>2, <1>3

LEMMA ReadKeysInv == ASSUME PoolInv, NEW r \in Calls, ReadKeys(r) PROVE PoolInv'
<1>1. /\ call[r] \in CallRecord /\ PoolFits(call[r]) /\ call[r].op = "approve" /\ call[r].at = "read"
      /\ ~CallAt(r, "revoke", "write") /\ UNCHANGED <<registry, cand, pool, cert, ready, torn>>
  BY DEF PoolInv, PoolTypeOK, CallAt, ReadKeys
<1>2. CASE EndCall(r)
  BY <1>1, <1>2, DoneInv DEF PoolInv, PoolTypeOK
<1>3. CASE OthersDiffer(r) /\ cert[call[r].pool][call[r].machine] \in {NoKey, call[r].key} /\ Advance(r, "write")
  <2>1. PICK j \in CallRecord : j = [call[r] EXCEPT !.at = "write"]
    BY <1>1 DEF CallRecord
  <2>2. /\ j.op = "approve" /\ j.at = "write" /\ j.pool = call[r].pool /\ j.machine = call[r].machine
        /\ j.key = call[r].key /\ j.held = call[r].held /\ j.left = call[r].left /\ j.gens = call[r].gens
    BY <1>1, <2>1 DEF CallRecord
  <2>3. Live(j.pool) /\ \A n \in Members(j.pool) \ {j.machine} : cert[j.pool][n] # j.key
    BY <1>1, <1>3, <2>2 DEF PoolFits, Locking, OthersDiffer
  <2>4. PoolFits(j)
    BY <1>1, <1>3, <2>2, <2>3 DEF PoolFits
  <2>5. \A q \in Calls \ {r} : Locking(call[q]) => call[r].pool # call[q].pool
    BY <1>1 DEF PoolInv, PoolApart, Locking
  <2> QED
    BY <1>1, <1>3, <2>1, <2>4, <2>5, MoveInv
<1> QED
  BY <1>2, <1>3 DEF ReadKeys

LEMMA WriteReadyInv == ASSUME PoolInv, NEW r \in Calls, NEW b \in BOOLEAN, WriteReady(r, b) PROVE PoolInv'
<1>1. /\ call[r].machine \in Machines /\ ~CallAt(r, "revoke", "write") /\ EndCall(r)
      /\ UNCHANGED <<registry, cand, pool, cert, torn>>
  BY DEF PoolInv, PoolFits, CallAt, WriteReady
<1>2. ready' \in [Pools -> SUBSET Machines]
  <2>1. CASE ready' = ready
    BY <2>1 DEF PoolInv, PoolTypeOK
  <2>2. CASE ready' = [ready EXCEPT ![call[r].pool] = IF b THEN @ \cup {call[r].machine}
                                                           ELSE @ \ {call[r].machine}]
    BY <1>1, <2>2 DEF PoolInv, PoolTypeOK
  <2> QED
    BY <2>1, <2>2 DEF WriteReady
<1> QED
  BY <1>1, <1>2, DoneInv DEF PoolInv, PoolTypeOK

LEMMA FailCallInv == ASSUME PoolInv, NEW r \in Calls, FailCall(r) PROVE PoolInv'
<1>1. /\ torn' \subseteq Pools /\ torn \subseteq torn'
      /\ CallAt(r, "revoke", "write") => call[r].pool \in torn'
  BY DEF FailCall, PoolInv, PoolTypeOK, PoolFits, CallAt
<1>2. call' = [call EXCEPT ![r] = NoCall] /\ UNCHANGED <<registry, cand, pool, cert, ready>>
  BY DEF FailCall, EndCall
<1>3. PoolTypeOK'
  BY <1>1, <1>2, NoCallTyped, NoCallFits, TypesNow DEF PoolInv, PoolTypeOK
<1> QED
  BY <1>1, <1>2, <1>3, NoCallTyped, NoCallFits, PoolQuietInv

----------------------------------------------------------------------------
(* The steps that write pools or keys *)

LEMMA InsertPoolInv == ASSUME PoolInv, NEW r \in Calls, NEW p \in Pools, InsertPool(r, p) PROVE PoolInv'
<1> USE DEF InsertPool
<1>1. call[r] \in CallRecord /\ PoolFits(call[r]) /\ call[r].op = "propose"
  BY DEF PoolInv, PoolTypeOK
<1>2. PICK row \in PoolRow : row = [state |-> "live", owner |-> call[r].owner, members |-> call[r].gens]
  BY <1>1 DEF PoolRow, CallRecord
<1>3. /\ pool' \in [Pools -> PoolRow] /\ pool'[p].state = "live" /\ pool'[p].members = call[r].gens
      /\ \A x \in Pools \ {p} : pool'[x] = pool[x]
  BY <1>2 DEF PoolInv, PoolTypeOK
<1>4. Grows
  BY <1>3 DEF Grows
<1>5. \A m \in Machines : call[r].gens[m] # 0 => m \in call[r].held
  BY <1>1 DEF PoolFits
<1>6. ASSUME NEW q \in Calls \ {r} PROVE PoolSpares(call[q])
  <2>1. call[q].held \subseteq Machines /\ call[r].held \cap call[q].held = {} /\ PoolFits(call[q])
    BY ApartNow DEF PoolInv, PoolTypeOK, CallRecord
  <2>2. \A m \in call[q].held, x \in Pools : pool'[x].state = "live" /\ pool[x].state = "none"
                                           => pool'[x].members[m] = 0
    BY <1>3, <1>5, <2>1
  <2>3. Locking(call[q]) => pool'[call[q].pool].state = "live" /\ cert'[call[q].pool] = cert[call[q].pool]
    BY <1>3, <2>1 DEF PoolFits, Live, Locking
  <2> QED
    BY <2>2, <2>3 DEF PoolSpares
<1>7. PoolTypeOK'
  BY <1>3, NoCallTyped, NoCallFits, TypesNow DEF EndCall, PoolInv, PoolTypeOK
<1>8. PoolApart' /\ \A q \in Calls : PoolFits(call[q])'
  BY <1>4, <1>6, <1>7, NoCallTyped, NoCallFits, CallStep DEF EndCall
<1>9. OnePool'
  <2>1. ASSUME NEW x \in Pools \ {p}, pool[x].state = "live", NEW m \in Machines, call[r].gens[m] # 0
        PROVE  pool[x].members[m] = 0
    BY <1>1, <1>5, <2>1 DEF PoolFits, Live
  <2>2. \A x, y \in Pools, m \in Machines :
           x # y /\ pool'[x].state = "live" /\ pool'[y].state = "live" /\ pool'[x].members[m] # 0
           => pool'[y].members[m] = 0
    <3> SUFFICES ASSUME NEW x \in Pools, NEW y \in Pools, NEW m \in Machines, x # y,
                        pool'[x].state = "live", pool'[y].state = "live", pool'[x].members[m] # 0
                 PROVE  pool'[y].members[m] = 0
      OBVIOUS
    <3>1. CASE x = p
      BY <1>3, <2>1, <3>1
    <3>2. CASE y = p
      BY <1>3, <2>1, <3>2
    <3>3. CASE x # p /\ y # p
      BY <1>3, <3>3 DEF PoolInv, OnePool, Live, Members
    <3> QED
      BY <3>1, <3>2, <3>3
  <2> QED
    BY <2>2 DEF OnePool, Live, Members
<1>10. OwnKeys' /\ NoKeyYet'
  <2>1. \A m \in Machines : cert[p][m] = NoKey
    BY DEF PoolInv, NoKeyYet
  <2> QED
    BY <1>3, <2>1 DEF PoolInv, OwnKeys, NoKeyYet, Members
<1>11. RevokedIsEmpty'
  <2> SUFFICES ASSUME NEW x \in Pools, pool'[x].state = "revoked",
                      ~(\A m \in Machines : cert[x][m] = NoKey), x \notin torn
               PROVE  \E s \in Calls : CallAt(s, "revoke", "write")' /\ call'[s].pool = x
    BY DEF RevokedIsEmpty
  <2>1. pool[x].state = "revoked"
    BY <1>3
  <2>2. PICK s \in Calls : CallAt(s, "revoke", "write") /\ call[s].pool = x
    BY <2>1 DEF PoolInv, RevokedIsEmpty
  <2>3. s # r /\ call'[s] = call[s]
    BY <1>1, <2>2 DEF CallAt, EndCall, PoolInv, PoolTypeOK
  <2> QED
    BY <2>2, <2>3 DEF CallAt
<1> QED
  BY <1>7, <1>8, <1>9, <1>10, <1>11 DEF PoolInv

LEMMA RevokedPoolRow ==
  ASSUME NEW row \in PoolRow
  PROVE  LET new == [row EXCEPT !.state = "revoked"]
         IN  new \in PoolRow /\ new.state = "revoked" /\ new.members = row.members
BY DEF PoolRow

LEMMA RevokePoolInv == ASSUME PoolInv, NEW r \in Calls, RevokePool(r) PROVE PoolInv'
<1> USE DEF RevokePool
<1>1. /\ call[r] \in CallRecord /\ PoolFits(call[r]) /\ call[r].op = "revoke" /\ call[r].at = "check"
      /\ call[r].held \subseteq Machines
  BY DEF PoolInv, PoolTypeOK, CallAt, CallRecord
<1>2. PICK p \in Pools : p = call[r].pool /\ pool[p].state # "none"
  BY <1>1 DEF PoolFits
<1>3. /\ pool' \in [Pools -> PoolRow] /\ pool'[p].state = "revoked" /\ pool'[p].members = pool[p].members
      /\ \A x \in Pools \ {p} : pool'[x] = pool[x]
  <2>1. pool' = [pool EXCEPT ![p].state = "revoked"] /\ pool \in [Pools -> PoolRow]
    BY <1>2 DEF PoolInv, PoolTypeOK
  <2>2. PICK old \in PoolRow : old = pool[p]
    BY <2>1
  <2>3. PICK row \in PoolRow : row = [old EXCEPT !.state = "revoked"]
    BY RevokedPoolRow
  <2>4. row.state = "revoked" /\ row.members = old.members
    BY <2>3, RevokedPoolRow
  <2>5. pool' = [pool EXCEPT ![p] = row]
    BY <2>1, <2>2, <2>3
  <2> QED
    BY <2>1, <2>2, <2>4, <2>5
<1>4. Grows
  BY <1>2, <1>3 DEF Grows
<1>5. PICK j \in CallRecord : j = [call[r] EXCEPT !.at = "write"]
  BY <1>1 DEF CallRecord
<1>6. /\ j.op = "revoke" /\ j.at = "write" /\ j.pool = p /\ j.held = call[r].held /\ j.left = call[r].left
      /\ j.gens = call[r].gens /\ ~Locking(j) /\ call' = [call EXCEPT ![r] = j]
  BY <1>1, <1>2, <1>5 DEF CallRecord, Advance, Locking, PoolInv, PoolTypeOK
<1>7. \A x \in Pools : pool'[x].state = "live" => pool[x].state = "live" /\ pool'[x] = pool[x]
  BY <1>3
<1>8. PoolFits(j)'
  BY <1>1, <1>3, <1>6, <1>7 DEF PoolFits, Live
<1>9. ASSUME NEW q \in Calls \ {r} PROVE PoolSpares(call[q])
  <2>1. PoolFits(call[q])
    BY DEF PoolInv
  <2>2. Locking(call[q]) => call[q].pool # p
    <3>1. Locking(call[q]) /\ call[q].pool = p => Live(p)
      BY <2>1 DEF PoolFits
    <3> QED
      BY <1>2, <3>1 DEF PoolFree, Locking
  <2>3. Locking(call[q]) => pool'[call[q].pool].state = "live"
    BY <1>3, <2>1, <2>2 DEF PoolFits, Live, Locking
  <2> QED
    BY <1>7, <2>3 DEF PoolSpares
<1>10. PoolTypeOK'
  BY <1>3, <1>6, ApartNow, TypesNow DEF PoolInv, PoolTypeOK
<1>11. PoolApart' /\ \A q \in Calls : PoolFits(call[q])'
  BY <1>4, <1>6, <1>8, <1>9, <1>10, ApartNow, CallStep
<1>12. OnePool' /\ OwnKeys' /\ NoKeyYet'
  BY <1>3, <1>7 DEF PoolInv, OnePool, OwnKeys, NoKeyYet, Live, Members
<1>13. RevokedIsEmpty'
  <2> SUFFICES ASSUME NEW x \in Pools, pool'[x].state = "revoked",
                      ~(\A m \in Machines : cert[x][m] = NoKey), x \notin torn
               PROVE  \E s \in Calls : CallAt(s, "revoke", "write")' /\ call'[s].pool = x
    BY DEF RevokedIsEmpty
  <2>1. CASE x = p
    <3>1. CallAt(r, "revoke", "write")' /\ call'[r].pool = x
      BY <1>6, <2>1 DEF CallAt, PoolInv, PoolTypeOK
    <3> QED
      BY <3>1
  <2>2. CASE x # p
    <3>1. PICK s \in Calls : CallAt(s, "revoke", "write") /\ call[s].pool = x
      BY <1>3, <2>2 DEF PoolInv, RevokedIsEmpty
    <3>2. s # r /\ call'[s] = call[s]
      BY <1>1, <1>6, <3>1 DEF CallAt, PoolInv, PoolTypeOK
    <3> QED
      BY <3>1, <3>2 DEF CallAt
  <2> QED
    BY <2>1, <2>2
<1> QED
  BY <1>10, <1>11, <1>12, <1>13 DEF PoolInv

LEMMA ClearMembersInv == ASSUME PoolInv, NEW r \in Calls, ClearMembers(r) PROVE PoolInv'
<1> USE DEF ClearMembers
<1>1. call[r] \in CallRecord /\ PoolFits(call[r]) /\ call[r].op = "revoke" /\ call[r].at = "write"
  BY DEF PoolInv, PoolTypeOK, CallAt
<1>2. PICK p \in Pools : p = call[r].pool /\ pool[p].state = "revoked"
  BY <1>1 DEF PoolFits
<1>3. /\ cert' \in [Pools -> [Machines -> Keys \cup {NoKey}]]
      /\ \A m \in Machines : cert'[p][m] = NoKey
      /\ \A x \in Pools \ {p} : cert'[x] = cert[x]
      /\ ready' \in [Pools -> SUBSET Machines] /\ torn' = torn \ {p}
  BY <1>2 DEF PoolInv, PoolTypeOK
<1>4. Grows
  BY DEF Grows
<1>5. ASSUME NEW q \in Calls \ {r} PROVE PoolSpares(call[q])
  <2>1. Locking(call[q]) => Live(call[q].pool) /\ call[q].pool \in Pools \ {p}
    BY <1>2 DEF PoolInv, PoolFits, Live, Locking
  <2> QED
    BY <1>3, <2>1 DEF PoolSpares, Live
<1>6. PoolTypeOK'
  BY <1>3, NoCallTyped, NoCallFits, TypesNow DEF EndCall, PoolInv, PoolTypeOK
<1>7. PoolApart' /\ \A q \in Calls : PoolFits(call[q])'
  BY <1>4, <1>5, <1>6, NoCallTyped, NoCallFits, CallStep DEF EndCall
<1>8. OnePool' /\ NoKeyYet'
  BY <1>3 DEF PoolInv, OnePool, NoKeyYet, Live, Members
<1>9. OwnKeys'
  <2> SUFFICES ASSUME NEW x \in Pools, NEW m \in Members(x), NEW n \in Members(x), m # n,
                      cert'[x][m] = cert'[x][n]
               PROVE  cert'[x][m] = NoKey
    BY DEF OwnKeys, Members
  <2>1. CASE x = p
    BY <1>3, <2>1 DEF Members
  <2>2. CASE x # p
    BY <1>3, <2>2 DEF PoolInv, OwnKeys
  <2> QED
    BY <2>1, <2>2
<1>10. RevokedIsEmpty'
  <2> SUFFICES ASSUME NEW x \in Pools, pool[x].state = "revoked",
                      ~(\A m \in Machines : cert'[x][m] = NoKey), x \notin torn'
               PROVE  \E s \in Calls : CallAt(s, "revoke", "write")' /\ call'[s].pool = x
    BY DEF RevokedIsEmpty
  <2>1. x # p /\ cert'[x] = cert[x] /\ x \notin torn
    BY <1>3
  <2>2. PICK s \in Calls : CallAt(s, "revoke", "write") /\ call[s].pool = x
    BY <2>1 DEF PoolInv, RevokedIsEmpty
  <2>3. s # r /\ call'[s] = call[s]
    BY <1>2, <2>1, <2>2 DEF EndCall, PoolInv, PoolTypeOK
  <2> QED
    BY <2>2, <2>3 DEF CallAt
<1> QED
  BY <1>6, <1>7, <1>8, <1>9, <1>10 DEF PoolInv

LEMMA WriteKeyInv == ASSUME PoolInv, NEW r \in Calls, WriteKey(r) PROVE PoolInv'
<1>1. /\ call[r] \in CallRecord /\ PoolFits(call[r]) /\ Locking(call[r]) /\ call[r].op = "approve" /\ call[r].at = "write"
      /\ ~CallAt(r, "revoke", "write") /\ EndCall(r) /\ UNCHANGED <<registry, cand, pool, ready, torn>>
  BY DEF PoolInv, PoolTypeOK, CallAt, WriteKey, Locking
<1>2. /\ call[r].pool \in Pools /\ call[r].machine \in Machines /\ call[r].key \in Keys /\ Live(call[r].pool)
      /\ \A n \in Members(call[r].pool) \ {call[r].machine} : cert[call[r].pool][n] # call[r].key
  BY <1>1 DEF PoolFits
<1>3. CASE cert' = cert
  BY <1>1, <1>3, DoneInv DEF PoolInv, PoolTypeOK
<1>4. CASE cert' = [cert EXCEPT ![call[r].pool][call[r].machine] = call[r].key]
  <2>1. PICK p \in Pools, mine \in Machines, k \in Keys :
           p = call[r].pool /\ mine = call[r].machine /\ k = call[r].key
    BY <1>2
  <2>2. /\ cert' \in [Pools -> [Machines -> Keys \cup {NoKey}]] /\ cert'[p][mine] = k
        /\ \A m \in Machines \ {mine} : cert'[p][m] = cert[p][m]
        /\ \A x \in Pools \ {p} : cert'[x] = cert[x]
    BY <1>4, <2>1 DEF PoolInv, PoolTypeOK
  <2>3. Live(p) /\ \A n \in Members(p) \ {mine} : cert[p][n] # k
    BY <1>2, <2>1
  <2>4. Grows
    BY <1>1 DEF Grows
  <2>5. ASSUME NEW q \in Calls \ {r} PROVE PoolSpares(call[q])
    <3>1. Locking(call[q]) => Live(call[q].pool) /\ call[q].pool \in Pools \ {p}
      BY <1>1, <2>1, ApartNow DEF PoolInv, PoolFits, Locking
    <3> QED
      BY <1>1, <2>2, <3>1 DEF PoolSpares, Live
  <2>6. PoolTypeOK'
    BY <1>1, <2>2, NoCallTyped, NoCallFits, TypesNow DEF EndCall, PoolInv, PoolTypeOK
  <2>7. PoolApart' /\ \A q \in Calls : PoolFits(call[q])'
    BY <1>1, <2>4, <2>5, <2>6, NoCallTyped, NoCallFits, CallStep DEF EndCall
  <2>8. OnePool' /\ NoKeyYet'
    BY <1>1, <2>2, <2>3 DEF PoolInv, OnePool, NoKeyYet, Live, Members
  <2>9. OwnKeys'
    <3> SUFFICES ASSUME NEW x \in Pools, NEW m \in Members(x), NEW n \in Members(x), m # n,
                        cert'[x][m] = cert'[x][n]
                 PROVE  cert'[x][m] = NoKey
      BY <1>1 DEF OwnKeys, Members
    <3>1. CASE x # p
      BY <2>2, <3>1 DEF PoolInv, OwnKeys
    <3>2. CASE x = p /\ m # mine /\ n # mine
      BY <2>2, <3>2 DEF PoolInv, OwnKeys, Members
    <3>3. CASE x = p /\ (m = mine \/ n = mine)
      BY <2>2, <2>3, <3>3 DEF Members
    <3> QED
      BY <3>1, <3>2, <3>3
  <2>10. RevokedIsEmpty'
    <3> SUFFICES ASSUME NEW x \in Pools, pool[x].state = "revoked",
                        ~(\A m \in Machines : cert'[x][m] = NoKey), x \notin torn
                 PROVE  \E s \in Calls : CallAt(s, "revoke", "write")' /\ call'[s].pool = x
      BY <1>1 DEF RevokedIsEmpty
    <3>1. x # p /\ cert'[x] = cert[x]
      BY <2>2, <2>3 DEF Live
    <3>2. PICK s \in Calls : CallAt(s, "revoke", "write") /\ call[s].pool = x
      BY <3>1 DEF PoolInv, RevokedIsEmpty
    <3>3. s # r /\ call'[s] = call[s]
      BY <1>1, <3>2 DEF EndCall, PoolInv, PoolTypeOK
    <3> QED
      BY <3>2, <3>3 DEF CallAt
  <2> QED
    BY <2>6, <2>7, <2>8, <2>9, <2>10 DEF PoolInv
<1> QED
  BY <1>3, <1>4 DEF WriteKey

----------------------------------------------------------------------------
(* The theorems *)

LEMMA PoolNextInv == PoolInv /\ [PoolNext]_poolVars => PoolInv'
<1> SUFFICES ASSUME PoolInv, [PoolNext]_poolVars PROVE PoolInv'
  OBVIOUS
<1>1. ASSUME NEW r \in Calls, Begins(r) PROVE PoolInv'
  BY <1>1, AnnounceInv, ProposeInv, BeginRevokeInv, ApproveInv, StatusInv DEF Begins
<1>2. ASSUME NEW r \in Calls, Continues(r) PROVE PoolInv'
  BY <1>2, WriteCandidateInv, LockCandidateInv, InsertPoolInv, RevokePoolInv, ClearMembersInv,
     CheckApprovalInv, LockPoolInv, ReadKeysInv, WriteKeyInv, CheckStatusInv, WriteReadyInv DEF Continues
<1>3. CASE UNCHANGED poolVars
  BY <1>3, Outsiders DEF poolVars, PoolInv, PoolTypeOK
<1> QED
  BY <1>1, <1>2, <1>3, FailCallInv, UnpairInv, ForgetInv, PairInv, LapseInv DEF PoolNext

THEOREM PoolInvariance == PoolSpec => []PoolInv
BY PoolInitInv, PoolNextInv, PTL DEF PoolSpec

\* Every variable keeps its type, and no candidate row is locked twice.
THEOREM PoolTypesHold == PoolSpec => []PoolTypeOK
<1>1. PoolInv => PoolTypeOK
  BY DEF PoolInv
<1> QED
  BY <1>1, PoolInvariance, PTL

\* No machine is in two live pools.
THEOREM InOnePool == PoolSpec => []OnePool
<1>1. PoolInv => OnePool
  BY DEF PoolInv
<1> QED
  BY <1>1, PoolInvariance, PTL

\* Two proposals never wait for each other: each has locked only machines that
\* come before those it still waits for.
THEOREM NoDeadlock == PoolSpec => []NoCircle
<1>1. PoolInv => NoCircle
  <2> SUFFICES ASSUME PoolInv, NEW r \in Calls, NEW q \in Calls, MayWait(r, q), MayWait(q, r)
               PROVE  FALSE
    BY DEF NoCircle
  <2>1. PICK m \in call[r].left : m \in call[q].held
    BY DEF MayWait
  <2>2. PICK n \in call[q].left : n \in call[r].held
    BY DEF MayWait
  <2>3. n < m /\ m < n
    BY <2>1, <2>2 DEF PoolInv, PoolFits
  <2>4. m \in Nat /\ n \in Nat
    BY <2>1, <2>2, MachinePoolsAssumption DEF PoolInv, PoolTypeOK, CallRecord
  <2> QED
    BY <2>3, <2>4
<1> QED
  BY <1>1, PoolInvariance, PTL

\* No two members of a pool approve with one key.
THEOREM KeysDiffer == PoolSpec => []OwnKeys
<1>1. PoolInv => OwnKeys
  BY DEF PoolInv
<1> QED
  BY <1>1, PoolInvariance, PTL

\* A pool whose revocation is through keeps no key.
THEOREM NoKeyLeft == PoolSpec => []RevokedIsEmpty
<1>1. PoolInv => RevokedIsEmpty
  BY DEF PoolInv
<1> QED
  BY <1>1, PoolInvariance, PTL

\* A key stays until its pool is revoked, and a pool that is revoked stays so.
THEOREM KeysStay == PoolSpec => KeysStand
<1> DEFINE Stands == \A p \in Pools :
       /\ pool[p].state = "revoked" => pool'[p].state = "revoked"
       /\ \A m \in Machines : cert[p][m] # NoKey =>
             cert'[p][m] = cert[p][m] \/ (cert'[p][m] = NoKey /\ pool[p].state = "revoked")
<1>1. PoolInv /\ [PoolNext]_poolVars => [Stands]_poolVars
  <2> SUFFICES ASSUME PoolInv, [PoolNext]_poolVars PROVE Stands
    OBVIOUS
  <2>1. CASE UNCHANGED <<pool, cert>>
    BY <2>1
  <2>2. ASSUME NEW r \in Calls, NEW p \in Pools, InsertPool(r, p) PROVE Stands
    BY <2>2 DEF InsertPool, PoolInv, PoolTypeOK
  <2>3. ASSUME NEW r \in Calls, RevokePool(r) PROVE Stands
    BY <2>3 DEF RevokePool, PoolInv, PoolTypeOK, PoolRow
  <2>4. ASSUME NEW r \in Calls, ClearMembers(r) PROVE Stands
    BY <2>4 DEF ClearMembers, CallAt, PoolInv, PoolFits, PoolTypeOK
  <2>5. ASSUME NEW r \in Calls, WriteKey(r) PROVE Stands
    <3>1. cert[call[r].pool][call[r].machine] \in {NoKey, call[r].key}
      BY <2>5 DEF WriteKey, CallAt, PoolInv, PoolFits, Locking
    <3> QED
      BY <2>5, <3>1 DEF WriteKey, PoolInv, PoolTypeOK
  <2>6. ASSUME NEW r \in Calls, Begins(r) PROVE Stands
    BY <2>1, <2>6 DEF Begins, Announce, Propose, BeginRevoke, Approve, Status, ByMachine
  <2>7. ASSUME NEW r \in Calls, Continues(r) PROVE Stands
    BY <2>1, <2>2, <2>3, <2>4, <2>5, <2>7 DEF Continues, WriteCandidate, LockCandidate, CheckApproval,
       CheckStatus, Check, LockPool, ReadKeys, WriteReady
  <2>8. CASE UNCHANGED poolVars
    BY <2>1, <2>8 DEF poolVars
  <2> QED
    BY <2>1, <2>6, <2>7, <2>8 DEF PoolNext, FailCall, Unpair, Forget, Pair, Lapse
<1> QED
  BY <1>1, PoolInvariance, PTL DEF PoolSpec, KeysStand

----------------------------------------------------------------------------
(* NodePairing *)

Apart == \A r, q \in Requests : r # q => /\ job[r].codes \cap job[q].codes = {}
                                         /\ job[r].nodes \cap job[q].nodes = {}

CodeOK(k) == /\ code[k].state = "none" => code[k].tries = 0
             /\ code[k].tries = guesses[k] /\ guesses[k] <= MaxTries

NodeOK(n) == /\ node[n].code # NoId => code[node[n].code].state = "used"
             /\ announced[n] = IF node[n].status = "revoked" THEN 1 ELSE 0

\* What a request relies on between its steps.
Fits(j) ==
    /\ \A k \in j.codes : code[k].state = "live"
    /\ \A n \in j.nodes : node[n].status # "revoked"
    /\ j.op = "create" => j.todo \subseteq Codes
    /\ j.op = "redeem" /\ j.at # "answer" => j.code \in Codes
    /\ j.op = "redeem" /\ j.at \in {"try", "pair"} =>
          j.codes = {j.code} /\ j.tries = code[j.code].tries /\ j.tries < MaxTries
    /\ j.op \in {"rotate", "revoke"} \/ j.at = "answer" => j.node \in Nodes
    /\ j.op = "rotate" /\ j.at = "write" => j.nodes = {j.node}

Inv ==
    /\ TypeOK /\ Apart /\ OneMachinePerCode
    /\ \A k \in Codes : CodeOK(k)
    /\ \A n \in Nodes : NodeOK(n)
    /\ \A r \in Requests : Fits(job[r])

\* A step leaves alone what j has locked.
Spares(j) == /\ \A k \in j.codes : code'[k].state = code[k].state /\ code'[k].tries = code[k].tries
             /\ \A n \in j.nodes : node'[n].status # "revoked"

----------------------------------------------------------------------------
(* Initial states, and what the steps have in common *)

LEMMA IdleJob == Idle \in Jobs
BY DEF Idle, Jobs

LEMMA InitInv == Init => Inv
<1> SUFFICES ASSUME Init PROVE Inv
  OBVIOUS
<1> USE NodePairingAssumption DEF Init
<1>1. TypeOK
  <2>1. code \in [Codes -> CodeRow] /\ node \in [Nodes -> NodeRow]
    BY DEF CodeRow, NodeRow, NoCode, NoNode
  <2>2. job \in [Requests -> Jobs]
    BY IdleJob
  <2> QED
    BY <2>1, <2>2 DEF TypeOK
<1>2. Apart
  BY DEF Apart, Idle
<1>3. \A k \in Codes : CodeOK(k)
  BY DEF CodeOK, NoCode
<1>4. OneMachinePerCode /\ \A n \in Nodes : NodeOK(n)
  BY DEF OneMachinePerCode, NodeOK, NoNode
<1>5. \A r \in Requests : Fits(job[r])
  BY DEF Fits, Idle
<1> QED
  BY <1>1, <1>2, <1>3, <1>4, <1>5 DEF Inv

LEMMA Spared == ASSUME NEW j \in Jobs, Fits(j), Spares(j) PROVE Fits(j)'
BY DEF Jobs, Fits, Spares

\* The jobs after a step of r.
LEMMA JobStep ==
  ASSUME Inv, NEW r \in Requests, NEW j \in Jobs, job' = [job EXCEPT ![r] = j], Fits(j)',
         \A q \in Requests \ {r} : /\ j.codes \cap job[q].codes = {} /\ j.nodes \cap job[q].nodes = {}
                                   /\ Spares(job[q])
  PROVE  job' \in [Requests -> Jobs] /\ Apart' /\ \A q \in Requests : Fits(job[q])'
<1> USE DEF Inv, TypeOK
<1>1. \A q \in Requests \ {r} : job'[q] = job[q]
  OBVIOUS
<1>2. job' \in [Requests -> Jobs] /\ job'[r] = j
  OBVIOUS
<1>3. Apart'
  BY <1>1, <1>2 DEF Apart
<1>4. ASSUME NEW q \in Requests PROVE Fits(job[q])'
  <2>1. CASE q = r
    BY <1>2, <2>1
  <2>2. CASE q # r
    <3>1. PICK i \in Jobs : i = job[q]
      OBVIOUS
    <3>2. Fits(i)'
      BY <2>2, <3>1, Spared
    <3> QED
      BY <1>1, <2>2, <3>1, <3>2
  <2> QED
    BY <2>1, <2>2
<1> QED
  BY <1>2, <1>3, <1>4

\* A step of r that writes neither codes nor principals.
LEMMA QuietInv ==
  ASSUME Inv, NEW r \in Requests, NEW j \in Jobs, job' = [job EXCEPT ![r] = j], Fits(j),
         \A q \in Requests \ {r} : j.codes \cap job[q].codes = {} /\ j.nodes \cap job[q].nodes = {},
         UNCHANGED <<clock, person, code, node, announced, guesses, token>>,
         held' \in [Nodes -> Nat]
  PROVE  Inv'
<1>1. \A q \in Requests \ {r} : Spares(job[q])
  BY DEF Inv, Fits, Spares
<1>2. Fits(j)'
  BY DEF Fits
<1>3. job' \in [Requests -> Jobs] /\ Apart' /\ \A q \in Requests : Fits(job[q])'
  BY <1>1, <1>2, JobStep
<1> QED
  BY <1>3 DEF Inv, TypeOK, CodeOK, NodeOK, OneMachinePerCode

\* A request that begins, or ends, has locked nothing.
LEMMA BeginInv ==
  ASSUME Inv, NEW r \in Requests, NEW j \in Jobs, Begin(r, j), Fits([j EXCEPT !.now = clock]),
         j.codes = {}, j.nodes = {},
         UNCHANGED <<clock, person, code, node, announced, guesses, held, token>>
  PROVE  Inv'
<1>1. [j EXCEPT !.now = clock] \in Jobs
  BY DEF Jobs, Inv, TypeOK
<1>2. PICK i \in Jobs : i = [j EXCEPT !.now = clock]
  BY <1>1
<1>3. i.codes = {} /\ i.nodes = {} /\ Fits(i) /\ job' = [job EXCEPT ![r] = i]
  BY <1>2 DEF Begin, Jobs
<1>4. held' \in [Nodes -> Nat]
  BY DEF Inv, TypeOK
<1> QED
  BY <1>3, <1>4, QuietInv

----------------------------------------------------------------------------
(* createPairing *)

LEMMA CreateInv == ASSUME Inv, NEW r \in Requests, Create(r) PROVE Inv'
<1>1. PICK j \in Jobs : j = [Idle EXCEPT !.op = "create", !.at = "select"]
  BY DEF Jobs, Idle
<1>2. Fits([j EXCEPT !.now = clock]) /\ j.codes = {} /\ j.nodes = {}
  BY <1>1 DEF Fits, Idle
<1> QED
  BY <1>1, <1>2, BeginInv DEF Create

LEMMA CreateSelectInv == ASSUME Inv, NEW r \in Requests, CreateSelect(r) PROVE Inv'
<1> DEFINE i == [job[r] EXCEPT !.at = "delete", !.todo = {k \in Codes : code[k].state = "live"}]
<1>3. job[r] \in Jobs /\ Fits(job[r]) /\ held' \in [Nodes -> Nat]
  BY DEF Inv, TypeOK, CreateSelect
<1>1. i \in Jobs
  BY <1>3 DEF Jobs
<1>2. PICK j \in Jobs : j = i
  BY <1>1
<1>4. job' = [job EXCEPT ![r] = j]
  BY <1>2 DEF CreateSelect
<1>5. Fits(j) /\ j.codes = job[r].codes /\ j.nodes = job[r].nodes
  BY <1>2, <1>3 DEF Fits, Jobs, CreateSelect, At
<1>6. \A q \in Requests \ {r} : j.codes \cap job[q].codes = {} /\ j.nodes \cap job[q].nodes = {}
  BY <1>5 DEF Inv, Apart
<1> QED
  BY <1>3, <1>4, <1>5, <1>6, QuietInv DEF CreateSelect

LEMMA CreateDeleteInv == ASSUME Inv, NEW r \in Requests, CreateDelete(r) PROVE Inv'
<1> DEFINE i == [job[r] EXCEPT !.at = "insert", !.codes = {k \in job[r].todo : code[k].state = "live"}]
<1>1. job[r] \in Jobs /\ Fits(job[r]) /\ job[r].todo \subseteq Codes /\ held' \in [Nodes -> Nat]
  BY DEF Inv, TypeOK, CreateDelete, At, Fits
<1>2. i \in Jobs
  BY <1>1 DEF Jobs
<1>3. PICK j \in Jobs : j = i
  BY <1>2
<1>4. job' = [job EXCEPT ![r] = j]
  BY <1>3 DEF CreateDelete
<1>5. Fits(j) /\ j.nodes = job[r].nodes /\ j.codes \subseteq job[r].todo
  BY <1>1, <1>3 DEF Fits, Jobs, CreateDelete, At
<1>6. \A q \in Requests \ {r} : j.codes \cap job[q].codes = {} /\ j.nodes \cap job[q].nodes = {}
  BY <1>5 DEF CreateDelete, CodeFree, Inv, Apart
<1> QED
  BY <1>1, <1>4, <1>5, <1>6, QuietInv DEF CreateDelete

LEMMA CreateInsertInv ==
  ASSUME Inv, NEW r \in Requests, NEW k \in Codes, CreateInsert(r, k) PROVE Inv'
<1> USE DEF CreateInsert
<1>1. job[r] \in Jobs /\ Fits(job[r]) /\ job[r].now \in Nat
  BY DEF Inv, TypeOK, Jobs
<1>2. code' \in [Codes -> CodeRow]
  <2> job[r].now + CodeTTL \in Nat
    BY <1>1, NodePairingAssumption
  <2>1. [NoCode EXCEPT !.state = "live", !.exp = job[r].now + CodeTTL] \in CodeRow
    BY DEF CodeRow, NoCode
  <2>2. \A c \in Codes : [code[c] EXCEPT !.state = "deleted"] \in CodeRow /\ code[c] \in CodeRow
    BY DEF CodeRow, Inv, TypeOK
  <2> QED
    BY <2>1, <2>2
<1>3. /\ code'[k].state = "live" /\ code'[k].tries = 0
      /\ \A c \in Codes \ {k} : /\ code'[c].tries = code[c].tries
                                /\ c \notin job[r].codes => code'[c] = code[c]
                                /\ c \in job[r].codes => code'[c].state = "deleted"
  BY DEF Inv, TypeOK, CodeRow, NoCode
<1>4. \A c \in job[r].codes : c \in Codes /\ code[c].state = "live"
  BY <1>1 DEF Fits, Jobs
<1>5. ASSUME NEW q \in Requests \ {r} PROVE Spares(job[q])
  <2>1. job[q] \in Jobs /\ Fits(job[q]) /\ job[q].codes \cap job[r].codes = {} /\ job[q].codes \subseteq Codes
    BY DEF Inv, TypeOK, Apart, Jobs
  <2>2. k \notin job[q].codes
    BY <2>1 DEF Fits
  <2> QED
    BY <1>3, <2>1, <2>2 DEF Spares, Fits
<1>6. Fits(Idle)' /\ Idle.codes = {} /\ Idle.nodes = {}
  BY DEF Fits, Idle
<1>7. job' \in [Requests -> Jobs] /\ Apart' /\ \A q \in Requests : Fits(job[q])'
  BY <1>5, <1>6, IdleJob, JobStep DEF Done
<1>8. TypeOK'
  BY <1>2, <1>7 DEF Inv, TypeOK
<1>9. ASSUME NEW c \in Codes PROVE CodeOK(c)'
  <2>1. CodeOK(c) /\ guesses' = guesses
    BY DEF Inv
  <2>2. CASE c = k
    BY <1>3, <2>1, <2>2 DEF CodeOK
  <2>3. CASE c # k
    <3>1. code'[c].tries = code[c].tries /\ code'[c].state \in {code[c].state, "deleted"}
      BY <1>3, <2>3
    <3> QED
      BY <2>1, <3>1 DEF CodeOK
  <2> QED
    BY <2>2, <2>3
<1>10. OneMachinePerCode' /\ \A n \in Nodes : NodeOK(n)'
  <2>1. ASSUME NEW n \in Nodes, node[n].code # NoId PROVE code'[node[n].code].state = "used"
    <3>1. node[n].code \in Codes /\ code[node[n].code].state = "used"
      BY <2>1 DEF Inv, TypeOK, NodeRow, NodeOK
    <3> QED
      BY <1>3, <1>4, <3>1
  <2> QED
    BY <2>1 DEF Inv, NodeOK, OneMachinePerCode
<1> QED
  BY <1>7, <1>8, <1>9, <1>10 DEF Inv

----------------------------------------------------------------------------
(* redeem *)

LEMMA RedeemInv ==
  ASSUME Inv, NEW r \in Requests, NEW k \in Codes, NEW right \in BOOLEAN, Redeem(r, k, right)
  PROVE Inv'
<1> DEFINE i == [Idle EXCEPT !.op = "redeem", !.at = "lock", !.code = k, !.right = right]
<1>1. i \in Jobs
  BY DEF Jobs, Idle
<1>2. PICK j \in Jobs : j = i
  BY <1>1
<1>3. Fits([j EXCEPT !.now = clock]) /\ j.codes = {} /\ j.nodes = {}
  BY <1>2 DEF Fits, Idle
<1> QED
  BY <1>2, <1>3, BeginInv DEF Redeem

LEMMA LockPairingInv == ASSUME Inv, NEW r \in Requests, LockPairing(r) PROVE Inv'
<1> DEFINE i == [Reading(r) EXCEPT !.codes = {job[r].code}]
<1>1. job[r] \in Jobs /\ Fits(job[r]) /\ job[r].code \in Codes /\ held' \in [Nodes -> Nat]
  BY DEF Inv, TypeOK, LockPairing, At, Fits
<1>2. code[job[r].code] \in CodeRow /\ code[job[r].code].tries \in Nat
  BY <1>1 DEF Inv, TypeOK, CodeRow
<1>3. /\ Reading(r) = [job[r] EXCEPT !.at = IF job[r].right THEN "pair" ELSE "try",
                                    !.tries = code[job[r].code].tries]
      /\ i \in Jobs
  BY <1>1, <1>2 DEF Jobs, Reading
<1>4. PICK j \in Jobs : j = i
  BY <1>3
<1>5. job' = [job EXCEPT ![r] = j]
  BY <1>4 DEF LockPairing
<1>6. /\ j.op = "redeem" /\ j.at \in {"try", "pair"} /\ j.code = job[r].code
      /\ j.tries = code[job[r].code].tries
      /\ j.codes = {job[r].code} /\ j.nodes = job[r].nodes
  BY <1>1, <1>3, <1>4 DEF Jobs, LockPairing, At
<1>7. Fits(j)
  BY <1>1, <1>6 DEF Fits, LockPairing, Redeemable
<1>8. \A q \in Requests \ {r} : j.codes \cap job[q].codes = {} /\ j.nodes \cap job[q].nodes = {}
  BY <1>6 DEF LockPairing, CodeFree, Inv, Apart
<1> QED
  BY <1>1, <1>5, <1>7, <1>8, QuietInv DEF LockPairing

LEMMA CountTryInv == ASSUME Inv, NEW r \in Requests, CountTry(r) PROVE Inv'
<1> USE DEF CountTry
<1>0. PICK k \in Codes : k = job[r].code
  BY DEF Inv, TypeOK, At, Fits
<1>1. /\ job[r] \in Jobs /\ job[r].codes = {k}
      /\ job[r].tries = code[k].tries /\ code[k].tries < MaxTries /\ code[k].state = "live"
  BY <1>0 DEF Inv, TypeOK, At, Fits
<1>2. /\ code' \in [Codes -> CodeRow] /\ guesses' \in [Codes -> Nat]
      /\ code'[k].tries = code[k].tries + 1 /\ guesses'[k] = guesses[k] + 1
      /\ \A c \in Codes : code'[c].state = code[c].state
      /\ \A c \in Codes \ {k} : code'[c] = code[c] /\ guesses'[c] = guesses[c]
  BY <1>0, <1>1 DEF Inv, TypeOK, CodeRow
<1>3. ASSUME NEW q \in Requests \ {r} PROVE Spares(job[q])
  <2>1. job[q].codes \subseteq Codes /\ k \notin job[q].codes /\ Fits(job[q])
    BY <1>1 DEF Inv, TypeOK, Apart, Jobs
  <2> QED
    BY <1>2, <2>1 DEF Spares, Fits
<1>4. Fits(Idle)' /\ Idle.codes = {} /\ Idle.nodes = {}
  BY DEF Fits, Idle
<1>5. job' \in [Requests -> Jobs] /\ Apart' /\ \A q \in Requests : Fits(job[q])'
  BY <1>3, <1>4, IdleJob, JobStep DEF Done
<1>6. TypeOK'
  BY <1>2, <1>5 DEF Inv, TypeOK
<1>7. \A c \in Codes : CodeOK(c)'
  <2>1. code[k].tries \in Nat /\ MaxTries \in Nat
    BY <1>1, NodePairingAssumption DEF Inv, TypeOK, CodeRow
  <2>2. CodeOK(k)'
    BY <1>1, <1>2, <2>1 DEF Inv, CodeOK
  <2> QED
    BY <1>2, <2>2 DEF Inv, CodeOK
<1>8. OneMachinePerCode' /\ \A n \in Nodes : NodeOK(n)'
  <2>1. \A n \in Nodes : node[n].code \in Codes \cup {NoId}
    BY DEF Inv, TypeOK, NodeRow
  <2> QED
    BY <1>2, <2>1 DEF Inv, NodeOK, OneMachinePerCode
<1> QED
  BY <1>5, <1>6, <1>7, <1>8 DEF Inv

LEMMA PairMachineInv == ASSUME Inv, NEW r \in Requests, NEW n \in Nodes, PairMachine(r, n) PROVE Inv'
<1> USE DEF PairMachine
<1>0. PICK k \in Codes : k = job[r].code
  BY DEF Inv, TypeOK, At, Fits
<1>1. job[r].codes = {k} /\ code[k].state = "live" /\ k # NoId
  BY <1>0, NodePairingAssumption DEF Inv, TypeOK, At, Fits
<1>2. /\ code' \in [Codes -> CodeRow] /\ code'[k].state = "used"
      /\ \A c \in Codes : code'[c].tries = code[c].tries
      /\ \A c \in Codes \ {k} : code'[c] = code[c]
  BY <1>0 DEF Inv, TypeOK, CodeRow
<1>3. PICK p \in NodeRow : p = [NoNode EXCEPT !.status = "active", !.code = k, !.cred = 1]
  BY DEF NodeRow, NoNode
<1>3a. /\ p.status = "active" /\ p.code = k /\ node' = [node EXCEPT ![n] = p]
       /\ node[n].status = "none" /\ node[n].code = NoId
  BY <1>0, <1>3 DEF NodeRow, NoNode
<1>4. /\ node' \in [Nodes -> NodeRow] /\ node'[n].status = "active" /\ node'[n].code = k
      /\ \A x \in Nodes \ {n} : node'[x] = node[x]
  BY <1>3a DEF Inv, TypeOK
<1>5. PICK j \in Jobs : j = [Idle EXCEPT !.op = "redeem", !.at = "answer", !.node = n, !.gen = 1]
  BY DEF Jobs, Idle
<1>6. Fits(j)' /\ j.codes = {} /\ j.nodes = {} /\ job' = [job EXCEPT ![r] = j]
  BY <1>5 DEF Fits, Idle
<1>7. ASSUME NEW q \in Requests \ {r} PROVE Spares(job[q])
  <2>1. /\ job[q].codes \subseteq Codes /\ job[q].nodes \subseteq Nodes
        /\ k \notin job[q].codes /\ Fits(job[q])
    BY <1>1 DEF Inv, TypeOK, Apart, Jobs
  <2> QED
    BY <1>2, <1>4, <2>1 DEF Spares, Fits
<1>8. job' \in [Requests -> Jobs] /\ Apart' /\ \A q \in Requests : Fits(job[q])'
  BY <1>6, <1>7, JobStep
<1>9. TypeOK'
  BY <1>2, <1>4, <1>8 DEF Inv, TypeOK
<1>10. \A c \in Codes : CodeOK(c)'
  BY <1>2 DEF Inv, CodeOK
<1>11. \A x \in Nodes \ {n} : node[x].code # k
  BY <1>1 DEF Inv, NodeOK
<1>12. ASSUME NEW x \in Nodes PROVE NodeOK(x)'
  <2>1. CASE x = n
    BY <1>2, <1>3a, <1>4, <2>1 DEF Inv, NodeOK
  <2>2. CASE x # n
    <3>1. node[x].code \in Codes \cup {NoId}
      BY DEF Inv, TypeOK, NodeRow
    <3> QED
      BY <1>2, <1>4, <1>11, <2>2, <3>1 DEF Inv, NodeOK
  <2> QED
    BY <2>1, <2>2
<1>13. OneMachinePerCode'
  BY <1>4, <1>11 DEF Inv, OneMachinePerCode
<1> QED
  BY <1>8, <1>9, <1>10, <1>12, <1>13 DEF Inv

----------------------------------------------------------------------------
(* The machine itself *)

\* A step of nobody's request that writes no code, and of principals neither the
\* code nor whether they are revoked.
LEMMA OutsideInv ==
  ASSUME Inv, UNCHANGED <<person, code, announced, guesses, held, job>>,
         clock' \in Nat, token' \in [Nodes -> Nat], node' \in [Nodes -> NodeRow],
         \A n \in Nodes : /\ node'[n].code = node[n].code
                          /\ node'[n].status = "revoked" <=> node[n].status = "revoked"
  PROVE  Inv'
<1>1. ASSUME NEW q \in Requests PROVE Fits(job[q])'
  <2>1. PICK j \in Jobs : j = job[q]
    BY DEF Inv, TypeOK
  <2>2. Fits(j) /\ Spares(j)
    BY <2>1 DEF Inv, Fits, Spares, Jobs
  <2>3. Fits(j)'
    BY <2>2, Spared
  <2> QED
    BY <2>1, <2>3
<1>2. TypeOK' /\ Apart'
  BY DEF Inv, TypeOK, Apart
<1> QED
  BY <1>1, <1>2 DEF Inv, CodeOK, NodeOK, OneMachinePerCode

LEMMA TickInv == ASSUME Inv, Tick PROVE Inv'
BY OutsideInv DEF Tick, Inv, TypeOK

LEMMA IssueTokenInv == ASSUME Inv, NEW n \in Nodes, IssueToken(n) PROVE Inv'
<1>1. clock + TokenTTL \in Nat
  BY NodePairingAssumption DEF Inv, TypeOK
<1>2. token' \in [Nodes -> Nat]
  BY <1>1 DEF IssueToken, Inv, TypeOK
<1> QED
  BY <1>2, OutsideInv DEF IssueToken, Inv, TypeOK

LEMMA SetPrincipalStatusInv ==
  ASSUME Inv, NEW n \in Nodes, NEW to \in {"active", "draining"}, SetPrincipalStatus(n, to)
  PROVE  Inv'
<1>1. node' \in [Nodes -> NodeRow]
  BY DEF SetPrincipalStatus, Inv, TypeOK, NodeRow
<1>2. \A x \in Nodes : /\ node'[x].code = node[x].code
                       /\ node'[x].status = "revoked" <=> node[x].status = "revoked"
  BY DEF SetPrincipalStatus, Inv, TypeOK, NodeRow
<1> QED
  BY <1>1, <1>2, OutsideInv DEF SetPrincipalStatus, Inv, TypeOK

LEMMA RotateInv == ASSUME Inv, NEW r \in Requests, NEW n \in Nodes, Rotate(r, n) PROVE Inv'
<1>1. PICK j \in Jobs : j = [Idle EXCEPT !.op = "rotate", !.at = "lock", !.node = n]
  BY DEF Jobs, Idle
<1>2. Fits([j EXCEPT !.now = clock]) /\ j.codes = {} /\ j.nodes = {}
  BY <1>1 DEF Fits, Idle
<1> QED
  BY <1>1, <1>2, BeginInv DEF Rotate

LEMMA RotateLockInv == ASSUME Inv, NEW r \in Requests, RotateLock(r) PROVE Inv'
<1> DEFINE i == [job[r] EXCEPT !.at = "write", !.nodes = {job[r].node}]
<1>1. /\ job[r] \in Jobs /\ Fits(job[r]) /\ job[r].node \in Nodes /\ held' \in [Nodes -> Nat]
      /\ node[job[r].node].status = "active"
  BY DEF Inv, TypeOK, RotateLock, At, Fits
<1>2. i \in Jobs
  BY <1>1 DEF Jobs
<1>3. PICK j \in Jobs : j = i
  BY <1>2
<1>4. job' = [job EXCEPT ![r] = j]
  BY <1>3 DEF RotateLock
<1>5. /\ j.op = "rotate" /\ j.at = "write" /\ j.node = job[r].node /\ j.nodes = {j.node}
      /\ j.codes = job[r].codes
  BY <1>1, <1>3 DEF Jobs, RotateLock, At
<1>6. Fits(j)
  BY <1>1, <1>5 DEF Fits
<1>7. \A q \in Requests \ {r} : j.codes \cap job[q].codes = {} /\ j.nodes \cap job[q].nodes = {}
  BY <1>5 DEF RotateLock, NodeFree, Inv, Apart
<1> QED
  BY <1>1, <1>4, <1>6, <1>7, QuietInv DEF RotateLock

LEMMA RotateWriteInv == ASSUME Inv, NEW r \in Requests, RotateWrite(r) PROVE Inv'
<1>1. PICK n \in Nodes : n = job[r].node
  BY DEF Inv, TypeOK, At, Fits, RotateWrite
<1>2. PICK old \in NodeRow : old = node[n]
  BY DEF Inv, TypeOK
<1>3. old.cred \in Nat /\ old.cred + 1 \in Nat /\ job[r].now + Grace \in Nat
  <2>1. job[r].now \in Nat /\ Grace \in Nat
    BY NodePairingAssumption DEF Inv, TypeOK, Jobs
  <2> QED
    BY <2>1 DEF NodeRow
<1>4. PICK new \in NodeRow : new = [old EXCEPT !.cred = old.cred + 1, !.prev = old.cred,
                                               !.until = job[r].now + Grace]
  BY <1>3 DEF NodeRow
<1>5. new.status = old.status /\ new.code = old.code
  BY <1>4 DEF NodeRow
<1>6. node' = [node EXCEPT ![n] = new]
  BY <1>1, <1>2, <1>4 DEF RotateWrite, Inv, TypeOK
<1>7. PICK j \in Jobs : j = [Idle EXCEPT !.op = "rotate", !.at = "answer", !.node = n,
                                        !.gen = old.cred + 1]
  BY <1>3 DEF Jobs, Idle
<1>8. job' = [job EXCEPT ![r] = j]
  BY <1>1, <1>2, <1>7 DEF RotateWrite
<1>9. Fits(j)' /\ j.codes = {} /\ j.nodes = {}
  BY <1>7 DEF Fits, Idle
<1>10. /\ node' \in [Nodes -> NodeRow] /\ code' = code
       /\ \A x \in Nodes : node'[x].status = node[x].status /\ node'[x].code = node[x].code
  BY <1>2, <1>5, <1>6 DEF Inv, TypeOK, RotateWrite
<1>11. ASSUME NEW q \in Requests \ {r} PROVE Spares(job[q])
  <2>1. job[q].nodes \subseteq Nodes /\ Fits(job[q])
    BY DEF Inv, TypeOK, Jobs
  <2> QED
    BY <1>10, <2>1 DEF Spares, Fits
<1>12. job' \in [Requests -> Jobs] /\ Apart' /\ \A q \in Requests : Fits(job[q])'
  BY <1>8, <1>9, <1>11, JobStep
<1>13. TypeOK'
  BY <1>10, <1>12 DEF Inv, TypeOK, RotateWrite
<1> QED
  BY <1>10, <1>12, <1>13 DEF Inv, CodeOK, NodeOK, OneMachinePerCode, RotateWrite

LEMMA AnswerInv == ASSUME Inv, NEW r \in Requests, Answer(r) PROVE Inv'
<1>1. job[r] \in Jobs /\ job[r].node \in Nodes /\ job[r].gen \in Nat
  BY DEF Inv, TypeOK, Fits, Answer, Jobs
<1>2. held' \in [Nodes -> Nat]
  BY <1>1 DEF Answer, Inv, TypeOK
<1>3. Fits(Idle) /\ Idle.codes = {} /\ Idle.nodes = {}
  BY DEF Fits, Idle
<1> QED
  BY <1>2, <1>3, IdleJob, QuietInv DEF Answer, Done

LEMMA FailInv == ASSUME Inv, NEW r \in Requests, Fail(r) PROVE Inv'
<1>1. Fits(Idle) /\ Idle.codes = {} /\ Idle.nodes = {} /\ held' \in [Nodes -> Nat]
  BY DEF Fits, Idle, Inv, TypeOK, Fail
<1> QED
  BY <1>1, IdleJob, QuietInv DEF Fail, Done

----------------------------------------------------------------------------
(* Revocation *)

LEMMA RevokedRowOf == ASSUME NEW p \in NodeRow
                      PROVE  RevokedRow(p) \in NodeRow /\ RevokedRow(p).status = "revoked"
                                                       /\ RevokedRow(p).code = p.code
BY DEF NodeRow, RevokedRow

\* What revoking the principals of N, locked by nobody but r, leaves true of them.
LEMMA RevokeThem ==
  ASSUME Inv, NEW N \in SUBSET Nodes, \A n \in N : node[n].status # "revoked", code' = code,
         node' = [n \in Nodes |-> IF n \in N THEN RevokedRow(node[n]) ELSE node[n]],
         announced' = [n \in Nodes |-> IF n \in N THEN announced[n] + 1 ELSE announced[n]]
  PROVE  /\ node' \in [Nodes -> NodeRow] /\ announced' \in [Nodes -> Nat]
         /\ OneMachinePerCode' /\ \A n \in Nodes : NodeOK(n)'
<1>1. \A n \in Nodes : node[n] \in NodeRow /\ announced[n] \in Nat
  BY DEF Inv, TypeOK
<1>2. \A n \in Nodes : /\ node'[n] \in NodeRow /\ node'[n].code = node[n].code
                       /\ n \in N => node'[n].status = "revoked" /\ announced'[n] = announced[n] + 1
                       /\ n \notin N => node'[n] = node[n] /\ announced'[n] = announced[n]
  BY <1>1, RevokedRowOf
<1>3. node' \in [Nodes -> NodeRow] /\ announced' \in [Nodes -> Nat]
  BY <1>1, <1>2
<1>4. OneMachinePerCode'
  BY <1>2 DEF Inv, OneMachinePerCode
<1>5. ASSUME NEW n \in Nodes PROVE NodeOK(n)'
  <2>1. CASE n \in N
    BY <1>2, <2>1 DEF Inv, NodeOK
  <2>2. CASE n \notin N
    BY <1>2, <2>2 DEF Inv, NodeOK
  <2> QED
    BY <2>1, <2>2
<1> QED
  BY <1>3, <1>4, <1>5

LEMMA RevokeInv == ASSUME Inv, NEW r \in Requests, NEW n \in Nodes, Revoke(r, n) PROVE Inv'
<1>1. PICK j \in Jobs : j = [Idle EXCEPT !.op = "revoke", !.at = "write", !.node = n]
  BY DEF Jobs, Idle
<1>2. Fits([j EXCEPT !.now = clock]) /\ j.codes = {} /\ j.nodes = {}
  BY <1>1 DEF Fits, Idle
<1> QED
  BY <1>1, <1>2, BeginInv DEF Revoke

\* The commit of a revocation by r.
LEMMA RevokedInv ==
  ASSUME Inv, NEW r \in Requests, NEW N \in SUBSET Nodes, Done(r),
         \A n \in N : node[n].status # "revoked", \A n \in N : NodeFree(r, n),
         node' = [n \in Nodes |-> IF n \in N THEN RevokedRow(node[n]) ELSE node[n]],
         announced' = [n \in Nodes |-> IF n \in N THEN announced[n] + 1 ELSE announced[n]],
         person' \in BOOLEAN, UNCHANGED <<clock, code, guesses, held, token>>
  PROVE  Inv'
<1>1. /\ node' \in [Nodes -> NodeRow] /\ announced' \in [Nodes -> Nat]
      /\ OneMachinePerCode' /\ \A n \in Nodes : NodeOK(n)'
  BY RevokeThem
<1>2. ASSUME NEW q \in Requests \ {r} PROVE Spares(job[q])
  <2>1. job[q].nodes \subseteq Nodes /\ Fits(job[q]) /\ job[q].nodes \cap N = {}
    BY DEF Inv, TypeOK, Jobs, NodeFree
  <2> QED
    BY <2>1 DEF Spares, Fits
<1>3. Fits(Idle)' /\ Idle.codes = {} /\ Idle.nodes = {}
  BY DEF Fits, Idle
<1>4. job' \in [Requests -> Jobs] /\ Apart' /\ \A q \in Requests : Fits(job[q])'
  BY <1>2, <1>3, IdleJob, JobStep DEF Done
<1>5. TypeOK'
  BY <1>1, <1>4 DEF Inv, TypeOK
<1> QED
  BY <1>1, <1>4, <1>5 DEF Inv, CodeOK

LEMMA RevokeRowInv == ASSUME Inv, NEW r \in Requests, RevokeRow(r) PROVE Inv'
<1>1. PICK n \in Nodes : n = job[r].node
  BY DEF Inv, TypeOK, At, Fits, RevokeRow
<1>2. /\ node' = [x \in Nodes |-> IF x \in {n} THEN RevokedRow(node[x]) ELSE node[x]]
      /\ announced' = [x \in Nodes |-> IF x \in {n} THEN announced[x] + 1 ELSE announced[x]]
  BY <1>1 DEF RevokeRow, Inv, TypeOK
<1>3. /\ node[n].status # "revoked" /\ NodeFree(r, n) /\ Done(r)
      /\ UNCHANGED <<clock, person, code, guesses, held, token>>
  BY <1>1 DEF RevokeRow
<1>4. person' \in BOOLEAN /\ {n} \in SUBSET Nodes
  BY <1>3 DEF Inv, TypeOK
<1> QED
  BY <1>2, <1>3, <1>4, RevokedInv

LEMMA EraseInv == ASSUME Inv, NEW r \in Requests, Erase(r) PROVE Inv'
<1> DEFINE todo == {n \in Nodes : node[n].status \in {"active", "draining"}}
<1>1. PICK j \in Jobs : j = [Idle EXCEPT !.op = "erase", !.at = "write", !.todo = todo]
  BY DEF Jobs, Idle
<1>2. Fits([j EXCEPT !.now = clock]) /\ j.codes = {} /\ j.nodes = {}
  BY <1>1 DEF Fits, Idle
<1> QED
  BY <1>1, <1>2, BeginInv DEF Erase

LEMMA EraseNextInv == ASSUME Inv, NEW r \in Requests, NEW n \in Nodes, EraseNext(r, n) PROVE Inv'
<1> DEFINE locked == IF node[n].status = "revoked" THEN job[r].nodes ELSE job[r].nodes \cup {n}
           i == [job[r] EXCEPT !.todo = job[r].todo \ {n}, !.nodes = locked]
<1>1. /\ job[r] \in Jobs /\ Fits(job[r]) /\ job[r].op = "erase" /\ job[r].at = "write"
      /\ NodeFree(r, n) /\ held' \in [Nodes -> Nat]
  BY DEF Inv, TypeOK, EraseNext, At
<1>2. i \in Jobs /\ job' = [job EXCEPT ![r] = i]
  BY <1>1 DEF Jobs, EraseNext, Inv, TypeOK
<1>3. PICK j \in Jobs : j = i
  BY <1>2
<1>4. j.op = "erase" /\ j.at = "write" /\ j.nodes = locked /\ j.codes = job[r].codes
  BY <1>1, <1>3 DEF Jobs
<1>5. Fits(j)
  BY <1>1, <1>4 DEF Fits
<1>6. ASSUME NEW q \in Requests \ {r}
      PROVE  j.codes \cap job[q].codes = {} /\ j.nodes \cap job[q].nodes = {}
  <2>1. /\ job[r].codes \cap job[q].codes = {} /\ job[r].nodes \cap job[q].nodes = {}
        /\ n \notin job[q].nodes
    BY <1>1 DEF NodeFree, Inv, Apart
  <2> QED
    BY <1>4, <2>1
<1> QED
  BY <1>1, <1>2, <1>3, <1>5, <1>6, QuietInv DEF EraseNext

LEMMA EraseCommitInv == ASSUME Inv, NEW r \in Requests, EraseCommit(r) PROVE Inv'
<1>1. PICK N \in SUBSET Nodes : N = job[r].nodes
  BY DEF Inv, TypeOK, Jobs
<1>2. \A n \in N : node[n].status # "revoked" /\ NodeFree(r, n)
  BY <1>1 DEF Inv, Fits, Apart, NodeFree
<1>3. person' \in BOOLEAN
  BY DEF EraseCommit
<1> QED
  BY <1>1, <1>2, <1>3, RevokedInv DEF EraseCommit

----------------------------------------------------------------------------
(* The theorems *)

LEMMA NextInv == Inv /\ [Next]_vars => Inv'
<1> SUFFICES ASSUME Inv, [Next]_vars PROVE Inv'
  OBVIOUS
<1>1. ASSUME NEW r \in Requests, PairingStep(r) PROVE Inv'
  BY <1>1, CreateInv, CreateSelectInv, CreateDeleteInv, CreateInsertInv, RedeemInv,
     LockPairingInv, CountTryInv, PairMachineInv DEF PairingStep
<1>2. ASSUME NEW r \in Requests, MachineStep(r) PROVE Inv'
  BY <1>2, RotateInv, RotateLockInv, RotateWriteInv, AnswerInv DEF MachineStep
<1>3. ASSUME NEW r \in Requests, RevocationStep(r) PROVE Inv'
  BY <1>3, RevokeInv, RevokeRowInv, EraseInv, EraseNextInv, EraseCommitInv, FailInv DEF RevocationStep
<1>4. CASE UNCHANGED vars
  <2>1. \A n \in Nodes : node[n] \in NodeRow
    BY DEF Inv, TypeOK
  <2> QED
    BY <1>4, <2>1, OutsideInv DEF vars, Inv, TypeOK
<1> QED
  BY <1>1, <1>2, <1>3, <1>4, TickInv, IssueTokenInv, SetPrincipalStatusInv DEF Next

THEOREM Invariance == Spec => []Inv
BY InitInv, NextInv, PTL DEF Spec

\* Every variable keeps its type.
THEOREM TypesHold == Spec => []TypeOK
<1>1. Inv => TypeOK
  BY DEF Inv
<1> QED
  BY <1>1, Invariance, PTL

\* One machine for each code, however many redeem it at once.
THEOREM OnePerCode == Spec => []OneMachinePerCode
<1>1. Inv => OneMachinePerCode
  BY DEF Inv
<1> QED
  BY <1>1, Invariance, PTL

\* No wrong code is lost from the count, and none is tried beyond MAX_TRIES.
THEOREM TriesCounted == Spec => []WrongTriesCounted
<1>1. Inv => WrongTriesCounted
  BY DEF Inv, CodeOK, WrongTriesCounted
<1> QED
  BY <1>1, Invariance, PTL

\* Each revocation is announced once.
THEOREM Announced == Spec => []RevokedAnnounced
<1>1. Inv => RevokedAnnounced
  BY DEF Inv, NodeOK, RevokedAnnounced
<1> QED
  BY <1>1, Invariance, PTL

\* Nothing changes a machine that has been revoked.
THEOREM StaysRevoked == Spec => RevokedStays
<1> DEFINE Same == \A n \in Nodes : node[n].status = "revoked" => node'[n] = node[n]
<1>1. Inv /\ [Next]_vars => [Same]_vars
  <2> SUFFICES ASSUME Inv, [Next]_vars, NEW n \in Nodes, node[n].status = "revoked"
               PROVE  node'[n] = node[n]
    OBVIOUS
  <2>1. CASE UNCHANGED node
    BY <2>1
  <2>2. ASSUME NEW r \in Requests, NEW x \in Nodes, PairMachine(r, x) PROVE node'[n] = node[n]
    BY <2>2 DEF PairMachine, NoNode
  <2>3. ASSUME NEW r \in Requests, RotateWrite(r) PROVE node'[n] = node[n]
    <3>1. n # job[r].node
      BY <2>3 DEF RotateWrite, At, Inv, Fits
    <3> QED
      BY <2>3, <3>1 DEF RotateWrite, Inv, TypeOK
  <2>4. ASSUME NEW x \in Nodes, NEW to \in {"active", "draining"}, SetPrincipalStatus(x, to)
        PROVE  node'[n] = node[n]
    BY <2>4 DEF SetPrincipalStatus, Inv, TypeOK
  <2>5. ASSUME NEW r \in Requests, RevokeRow(r) PROVE node'[n] = node[n]
    BY <2>5 DEF RevokeRow, Inv, TypeOK
  <2>6. ASSUME NEW r \in Requests, EraseCommit(r) PROVE node'[n] = node[n]
    BY <2>6 DEF EraseCommit, Inv, Fits
  <2>7. ASSUME NEW r \in Requests, PairingStep(r) PROVE node'[n] = node[n]
    BY <2>1, <2>2, <2>7 DEF PairingStep, Create, CreateSelect, CreateDelete, CreateInsert, Redeem,
       LockPairing, CountTry
  <2>8. ASSUME NEW r \in Requests, MachineStep(r) PROVE node'[n] = node[n]
    BY <2>1, <2>3, <2>8 DEF MachineStep, Rotate, RotateLock, Answer
  <2>9. ASSUME NEW r \in Requests, RevocationStep(r) PROVE node'[n] = node[n]
    BY <2>1, <2>5, <2>6, <2>9 DEF RevocationStep, Revoke, Erase, EraseNext, Fail
  <2>10. CASE UNCHANGED vars
    BY <2>10 DEF vars
  <2> QED
    BY <2>1, <2>4, <2>7, <2>8, <2>9, <2>10 DEF Next, Tick, IssueToken
<1> QED
  BY <1>1, Invariance, PTL DEF Spec, RevokedStays

=============================================================================
