---------------------------- MODULE MachinePools ----------------------------
(* Pools of machines of one owner: server/registry/machine-pools.js.       *)
(* An owner proposes a pool, each machine approves it with a key of its    *)
(* own, its members renew their readiness, and any change revokes it.      *)
(* propose and approve are transactions that lock rows; revoke is two      *)
(* statements outside any transaction, unless document() inside approve    *)
(* calls it, and then the refusal rolls it back.  Bot's list of machines   *)
(* and the node principals belong to others: registry[m] is both.          *)
(* Left out: what a machine reports (memory, addresses), and so the choice *)
(* of a head and the test for one local network, which only refuse.        *)
EXTENDS Naturals, FiniteSets

CONSTANTS
    Calls,         \* calls that may be under way at once
    Machines,      \* ids, in the order of their names
    Owners, NoOne,
    Pools,         \* ids of machine_pools
    Keys, NoKey,   \* public certificates
    MaxPairings    \* bound: how often a machine is paired

ASSUME MachinePoolsAssumption ==
    /\ Machines \subseteq Nat /\ NoOne \notin Owners /\ NoKey \notin Keys
    /\ MaxPairings \in Nat \ {0}

VARIABLES
    registry,  \* machine: its owner, and which of its principals is the current one
    cand,      \* machine_pool_candidates seen in the last five minutes
    pool,      \* machine_pools
    cert,      \* machine_pool_members.certificate
    ready,     \* members that are ready and renewed it in the last ten seconds
    torn,      \* history: pools whose revocation stopped half way
    call       \* what each call has read, and the rows it has locked

poolVars == <<registry, cand, pool, cert, ready, torn, call>>

\* members: the principal a machine had when the pool was proposed, 0 for none.
PoolRow == [state: {"none", "live", "revoked"}, owner: Owners \cup {NoOne},
            members: [Machines -> 0..MaxPairings]]
NoPool == [state |-> "none", owner |-> NoOne, members |-> [m \in Machines |-> 0]]

CallRecord ==
        [op: {"idle", "announce", "propose", "approve", "status", "revoke"},
         at: {"check", "lock", "read", "write"}, owner: Owners \cup {NoOne}, pool: Pools \cup {NoOne},
         machine: Machines \cup {NoOne}, key: Keys \cup {NoKey}, gen: 0..MaxPairings,
         left: SUBSET Machines, held: SUBSET Machines,
         gens: [Machines -> 0..MaxPairings]]
NoCall ==
        [op |-> "idle", at |-> "check", owner |-> NoOne, pool |-> NoOne, machine |-> NoOne,
         key |-> NoKey, gen |-> 0, left |-> {}, held |-> {},
         gens |-> [m \in Machines |-> 0]]

PoolTypeOK ==
    /\ registry \in [Machines -> [owner: Owners \cup {NoOne}, gen: 0..MaxPairings]]
    /\ cand \in [Machines -> [owner: Owners \cup {NoOne}, gen: 0..MaxPairings]]
    /\ pool \in [Pools -> PoolRow]
    /\ cert \in [Pools -> [Machines -> Keys \cup {NoKey}]]
    /\ ready \in [Pools -> SUBSET Machines]
    /\ torn \subseteq Pools
    /\ call \in [Calls -> CallRecord]
    /\ \A r, q \in Calls : r # q => call[r].held \cap call[q].held = {}

\* Machines are paired, nothing was announced yet.
PoolInit ==
    /\ \E o \in Owners : registry = [m \in Machines |-> [owner |-> o, gen |-> 1]]
    /\ cand = [m \in Machines |-> [owner |-> NoOne, gen |-> 0]]
    /\ pool = [p \in Pools |-> NoPool]
    /\ cert = [p \in Pools |-> [m \in Machines |-> NoKey]]
    /\ ready = [p \in Pools |-> {}]
    /\ torn = {} /\ call = [r \in Calls |-> NoCall]

Members(p) == {m \in Machines : pool[p].members[m] # 0}
Live(p) == pool[p].state = "live"
BeginCall(r, j) == call[r] = NoCall /\ call' = [call EXCEPT ![r] = j]
EndCall(r) == call' = [call EXCEPT ![r] = NoCall]
CallAt(r, op, at) == call[r].op = op /\ call[r].at = at
Advance(r, at) == call' = [call EXCEPT ![r].at = at]

\* document: every member is still the owner's, with the principal it joined with.
Unchanged(p) == \A m \in Members(p) :
    registry[m].owner = pool[p].owner /\ registry[m].gen = pool[p].members[m]

----------------------------------------------------------------------------
(* Bot's list of machines, and the pairing behind it *)

Unpair(m) ==
    /\ registry[m].owner # NoOne /\ registry' = [registry EXCEPT ![m].owner = NoOne]
    /\ UNCHANGED <<cand, pool, cert, ready, torn, call>>

Pair(m, o) ==
    /\ registry[m].owner = NoOne /\ registry[m].gen < MaxPairings
    /\ registry' = [registry EXCEPT ![m] = [owner |-> o, gen |-> @.gen + 1]]
    /\ UNCHANGED <<cand, pool, cert, ready, torn, call>>

----------------------------------------------------------------------------
(* Candidates *)

\* node() and Bot's list are read; the row is written later, whoever owns it then.
Announce(r, m) ==
    /\ registry[m].owner # NoOne
    /\ BeginCall(r, [NoCall EXCEPT !.op = "announce", !.machine = m, !.owner = registry[m].owner,
                                   !.gen = registry[m].gen])
    /\ UNCHANGED <<registry, cand, pool, cert, ready, torn>>

CandidateFree(r, m) == \A q \in Calls \ {r} : m \notin call[q].held

\* The upsert waits for a proposal that has locked the row.
WriteCandidate(r) ==
    LET j == call[r]
    IN  /\ j.op = "announce" /\ CandidateFree(r, j.machine)
        /\ cand' = [cand EXCEPT ![j.machine] = [owner |-> j.owner, gen |-> j.gen]]
        /\ EndCall(r) /\ UNCHANGED <<registry, pool, cert, ready, torn>>

\* Five minutes pass without an announcement.
Forget(m) ==
    /\ cand[m].owner # NoOne
    /\ cand' = [cand EXCEPT ![m] = [owner |-> NoOne, gen |-> 0]]
    /\ UNCHANGED <<registry, pool, cert, ready, torn, call>>

----------------------------------------------------------------------------
(* propose *)

\* Bot's list is read before the transaction; a machine that is not on it is
\* refused under the locks, to no effect.
Propose(r, o, M) ==
    /\ Cardinality(M) >= 2 /\ \A m \in M : registry[m].owner = o
    /\ BeginCall(r, [NoCall EXCEPT !.op = "propose", !.owner = o, !.left = M,
                                   !.gens = [m \in Machines |-> IF m \in M THEN registry[m].gen ELSE 0]])
    /\ UNCHANGED <<registry, cand, pool, cert, ready, torn>>

\* What is asked of a machine under the lock of its candidate row.
Available(r, m) ==
    /\ cand[m] = [owner |-> call[r].owner, gen |-> call[r].gens[m]]
    /\ \A p \in Pools : ~(Live(p) /\ m \in Members(p))

LockOf(r, m) == IF Available(r, m)
                THEN call' = [call EXCEPT ![r].left = @ \ {m}, ![r].held = @ \cup {m}]
                ELSE EndCall(r)

\* Mutant: no FOR UPDATE.
LockCandidateNot(r) ==
    \E m \in call[r].left :
        /\ call[r].op = "propose" /\ \A n \in call[r].left : m <= n
        /\ LockOf(r, m) /\ UNCHANGED <<registry, cand, pool, cert, ready, torn>>

\* Mutant: in the order of the request.
LockCandidateAny(r) ==
    \E m \in call[r].left :
        /\ call[r].op = "propose" /\ CandidateFree(r, m)
        /\ LockOf(r, m) /\ UNCHANGED <<registry, cand, pool, cert, ready, torn>>

\* The next candidate, in the order of the names; one that may not join, and the
\* transaction is over.
LockCandidate(r) ==
    \E m \in call[r].left :
        /\ call[r].op = "propose" /\ \A n \in call[r].left : m <= n
        /\ CandidateFree(r, m)
        /\ LockOf(r, m) /\ UNCHANGED <<registry, cand, pool, cert, ready, torn>>

\* The rows of the pool and its members, and the commit.
InsertPool(r, p) ==
    /\ call[r].op = "propose" /\ call[r].left = {} /\ pool[p].state = "none"
    /\ pool' = [pool EXCEPT ![p] = [state |-> "live", owner |-> call[r].owner,
           members |-> call[r].gens]]
    /\ EndCall(r) /\ UNCHANGED <<registry, cand, cert, ready, torn>>

----------------------------------------------------------------------------
(* revoke *)

PoolFree(r, p) == \A q \in Calls \ {r} :
    ~(call[q].op = "approve" /\ call[q].at \in {"read", "write"} /\ call[q].pool = p)

\* Asked by the owner, by a member that leaves, or by a check that fails.
BeginRevoke(r, p) ==
    /\ pool[p].state # "none"
    /\ BeginCall(r, [NoCall EXCEPT !.op = "revoke", !.pool = p])
    /\ UNCHANGED <<registry, cand, pool, cert, ready, torn>>

\* Its first statement, which waits for the row.
RevokePool(r) ==
    LET p == call[r].pool
    IN  /\ CallAt(r, "revoke", "check") /\ (Live(p) => PoolFree(r, p))
        /\ pool' = [pool EXCEPT ![p].state = "revoked"]
        /\ Advance(r, "write") /\ UNCHANGED <<registry, cand, cert, ready, torn>>

\* Mutant: the keys stay where they are.
ClearReady(r) ==
    LET p == call[r].pool
    IN  /\ CallAt(r, "revoke", "write")
        /\ ready' = [ready EXCEPT ![p] = {}]
        /\ torn' = torn \ {p}
        /\ EndCall(r) /\ UNCHANGED <<registry, cand, pool, cert>>

\* Its second statement.
ClearMembers(r) ==
    LET p == call[r].pool
    IN  /\ CallAt(r, "revoke", "write")
        /\ cert' = [cert EXCEPT ![p] = [m \in Machines |-> NoKey]]
        /\ ready' = [ready EXCEPT ![p] = {}]
        /\ torn' = torn \ {p}
        /\ EndCall(r) /\ UNCHANGED <<registry, cand, pool>>

\* document: a pool that changed is revoked by the very call that found it.
Check(r, at) ==
    LET p == call[r].pool
    IN  /\ UNCHANGED <<registry, cand, pool, cert, ready, torn>>
        /\ IF ~Live(p) \/ pool[p].owner # call[r].owner THEN EndCall(r)
           ELSE IF Unchanged(p) THEN Advance(r, at)
           ELSE call' = [call EXCEPT ![r] = [NoCall EXCEPT !.op = "revoke", !.pool = p]]

----------------------------------------------------------------------------
(* approve *)

\* node(): the machine's live principal.
ByMachine(r, op, m, p, k) ==
    /\ registry[m].owner # NoOne /\ pool[p].state # "none"
    /\ BeginCall(r, [NoCall EXCEPT !.op = op, !.machine = m, !.gen = registry[m].gen,
                                   !.owner = registry[m].owner, !.pool = p, !.key = k])
    /\ UNCHANGED <<registry, cand, pool, cert, ready, torn>>
Approve(r, m, p, k) == ByMachine(r, "approve", m, p, k)
CheckApproval(r) == CallAt(r, "approve", "check") /\ Check(r, "lock")

\* Mutant: two machines may hold the pool at once.
LockPoolNot(r) ==
    LET p == call[r].pool
    IN  /\ CallAt(r, "approve", "lock")
        /\ IF Live(p) THEN Advance(r, "read") ELSE EndCall(r)
        /\ UNCHANGED <<registry, cand, pool, cert, ready, torn>>

\* SELECT ... WHERE revoked_at IS NULL FOR UPDATE.
LockPool(r) ==
    LET p == call[r].pool
    IN  /\ CallAt(r, "approve", "lock") /\ PoolFree(r, p)
        /\ IF Live(p) THEN Advance(r, "read") ELSE EndCall(r)
        /\ UNCHANGED <<registry, cand, pool, cert, ready, torn>>

Own(r) == LET j == call[r] IN pool[j.pool].members[j.machine] = j.gen /\ j.gen # 0
OthersDiffer(r) == LET j == call[r]
                   IN  \A n \in Members(j.pool) \ {j.machine} : cert[j.pool][n] # j.key

\* Mutant: a machine may change its key.
ReadKeysOfOthers(r) ==
    /\ CallAt(r, "approve", "read")
    /\ IF Own(r) /\ OthersDiffer(r) THEN Advance(r, "write") ELSE EndCall(r)
    /\ UNCHANGED <<registry, cand, pool, cert, ready, torn>>

\* The member, its key and those of the others.
ReadKeys(r) ==
    /\ CallAt(r, "approve", "read")
    /\ IF Own(r) /\ OthersDiffer(r) /\ cert[call[r].pool][call[r].machine] \in {NoKey, call[r].key}
       THEN Advance(r, "write") ELSE EndCall(r)
    /\ UNCHANGED <<registry, cand, pool, cert, ready, torn>>

\* The UPDATE and document() again, whose refusal (with the revocation it makes)
\* is rolled back.
WriteKey(r) ==
    LET j == call[r]
    IN  /\ CallAt(r, "approve", "write")
        /\ cert' = IF Live(j.pool) /\ Unchanged(j.pool)
                   THEN [cert EXCEPT ![j.pool][j.machine] = j.key] ELSE cert
        /\ EndCall(r) /\ UNCHANGED <<registry, cand, pool, ready, torn>>

----------------------------------------------------------------------------
(* status *)

Status(r, m, p) == ByMachine(r, "status", m, p, NoKey) /\ pool[p].members[m] = registry[m].gen
CheckStatus(r) == CallAt(r, "status", "check") /\ Check(r, "write")

\* The UPDATE asks for the certificate, not for the pool.
WriteReady(r, b) ==
    LET j == call[r]
    IN  /\ CallAt(r, "status", "write")
        /\ ready' = IF cert[j.pool][j.machine] = NoKey THEN ready
                    ELSE [ready EXCEPT ![j.pool] = IF b THEN @ \cup {j.machine} ELSE @ \ {j.machine}]
        /\ EndCall(r) /\ UNCHANGED <<registry, cand, pool, cert, torn>>

\* Ten seconds pass without a renewal.
Lapse(p, m) ==
    /\ m \in ready[p] /\ ready' = [ready EXCEPT ![p] = @ \ {m}]
    /\ UNCHANGED <<registry, cand, pool, cert, torn, call>>

\* A crash or an exception: locks are given up; a revocation may be half done.
FailCall(r) ==
    /\ call[r] # NoCall
    /\ torn' = IF CallAt(r, "revoke", "write") THEN torn \cup {call[r].pool} ELSE torn
    /\ EndCall(r) /\ UNCHANGED <<registry, cand, pool, cert, ready>>

----------------------------------------------------------------------------
Begins(r) ==
    \/ \E m \in Machines : Announce(r, m)
    \/ \E o \in Owners, M \in SUBSET Machines : Propose(r, o, M)
    \/ \E p \in Pools : BeginRevoke(r, p)
    \/ \E m \in Machines, p \in Pools, k \in Keys : Approve(r, m, p, k)
    \/ \E m \in Machines, p \in Pools : Status(r, m, p)

Continues(r) ==
    \/ WriteCandidate(r)
    \/ LockCandidate(r) \/ \E p \in Pools : InsertPool(r, p)
    \/ RevokePool(r) \/ ClearMembers(r)
    \/ CheckApproval(r) \/ LockPool(r) \/ ReadKeys(r) \/ WriteKey(r)
    \/ CheckStatus(r) \/ \E b \in BOOLEAN : WriteReady(r, b)

PoolNext ==
    \/ \E r \in Calls : Begins(r) \/ Continues(r) \/ FailCall(r)
    \/ \E m \in Machines : Unpair(m) \/ Forget(m) \/ \E o \in Owners : Pair(m, o)
    \/ \E p \in Pools, m \in Machines : Lapse(p, m)

PoolSpec == PoolInit /\ [][PoolNext]_poolVars

----------------------------------------------------------------------------
(* Properties *)

\* A machine is in one pool at most, however many proposals name it at once, so
\* that its GPU is never sold twice (the locks of propose).
OnePool == \A p, q \in Pools :
    p # q /\ Live(p) /\ Live(q) => Members(p) \cap Members(q) = {}

\* Two proposals never wait for each other: candidates are locked in order.
MayWait(r, q) == \E m \in call[r].left : m \in call[q].held
NoCircle == \A r, q \in Calls :
    r # q => ~(MayWait(r, q) /\ MayWait(q, r))

\* Each machine has approved with a key of its own, though two machines may
\* approve at once with the same one (the lock of approve).
OwnKeys == \A p \in Pools : \A m, n \in Members(p) :
    m # n /\ cert[p][m] = cert[p][n] => cert[p][m] = NoKey

\* A revoked pool keeps no key, unless its revocation was cut between its two
\* statements: no approval slips in behind it.
RevokedIsEmpty == \A p \in Pools : pool[p].state = "revoked" =>
    \/ p \in torn \/ \E r \in Calls : CallAt(r, "revoke", "write") /\ call[r].pool = p
    \/ \A m \in Machines : cert[p][m] = NoKey

\* A key is never replaced: a change of it needs a new pool and new approvals.
\* A revoked pool stays revoked.
KeysStand == [][\A p \in Pools :
    /\ pool[p].state = "revoked" => pool'[p].state = "revoked"
    /\ \A m \in Machines : cert[p][m] # NoKey =>
          cert'[p][m] = cert[p][m] \/ (cert'[p][m] = NoKey /\ pool[p].state = "revoked")]_poolVars
=============================================================================
