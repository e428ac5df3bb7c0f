---------------------------- MODULE NodePairing ----------------------------
(* The machines of one person: server/registry/node-principals.js. A       *)
(* service has pairing codes made for one of its users, a machine redeems  *)
(* one and becomes a node principal with a credential it sees once, buys   *)
(* tokens with it and rotates it; the person, the service or the erasure   *)
(* of the account (server/identity/account-data.js) revokes it.            *)
(* Left out: cells, names and capabilities, which no step depends on, and  *)
(* other owners and services, which find no row (404).                     *)
EXTENDS Naturals, FiniteSets

CONSTANTS
    Requests,   \* requests and sweeps that may be under way at once
    Codes,      \* ids of platform_node_pairings, of one (service, ref)
    Nodes,      \* ids of platform_node_principals
    MaxTries,   \* MAX_TRIES
    CodeTTL,    \* CODE_TTL_MS
    Grace,      \* PREV_GRACE_MS
    TokenTTL,   \* TOKEN_TTL_S
    NoId,
    MaxClock,   \* bound: time
    MaxGen      \* bound: credentials of a machine

ASSUME NodePairingAssumption ==
    /\ NoId \notin Codes \cup Nodes
    /\ MaxTries \in Nat \ {0}
    /\ {CodeTTL, Grace, TokenTTL, MaxClock, MaxGen} \subseteq Nat

VARIABLES
    clock,
    person,    \* users.deleted_at is not set
    code,      \* the pairings
    node,      \* the principals; cred and prev number the credentials
    announced, \* network.node.revoked events in the outbox, of each principal
    guesses,   \* history: wrong codes tried against each pairing
    held,      \* the credential each machine has received last, 0 for none
    token,     \* when the last token of each machine expires
    job        \* what each request has read, and the rows it has locked

vars == <<clock, person, code, node, announced, guesses, held, token, job>>

Idle == [op |-> "idle", at |-> "", now |-> 0, code |-> NoId, node |-> NoId,
         right |-> FALSE, tries |-> 0, gen |-> 0,
         todo |-> {}, codes |-> {}, nodes |-> {}]
NoCode == [state |-> "none", tries |-> 0, exp |-> 0]
NoNode == [status |-> "none", code |-> NoId, cred |-> 0, prev |-> 0, until |-> 0]

CodeRow == [state: {"none", "live", "used", "deleted"}, tries: Nat, exp: Nat]
NodeRow == [status: {"none", "active", "draining", "revoked"}, code: Codes \cup {NoId},
            cred: Nat, prev: Nat, until: Nat]
Jobs == [op: {"idle", "create", "redeem", "rotate", "revoke", "erase"},
         at: {"", "select", "delete", "insert", "lock", "try", "pair", "write", "answer"},
         now: Nat, code: Codes \cup {NoId}, node: Nodes \cup {NoId},
         right: BOOLEAN, tries: Nat, gen: Nat,
         todo: SUBSET (Codes \cup Nodes), codes: SUBSET Codes, nodes: SUBSET Nodes]

TypeOK ==
    /\ clock \in Nat /\ person \in BOOLEAN
    /\ code \in [Codes -> CodeRow] /\ node \in [Nodes -> NodeRow]
    /\ announced \in [Nodes -> Nat] /\ guesses \in [Codes -> Nat]
    /\ held \in [Nodes -> Nat] /\ token \in [Nodes -> Nat]
    /\ job \in [Requests -> Jobs]

Init ==
    /\ clock = 0 /\ person = TRUE
    /\ code = [k \in Codes |-> NoCode] /\ node = [n \in Nodes |-> NoNode]
    /\ announced = [n \in Nodes |-> 0] /\ guesses = [k \in Codes |-> 0]
    /\ held = [n \in Nodes |-> 0] /\ token = [n \in Nodes |-> 0]
    /\ job = [r \in Requests |-> Idle]

Begin(r, j) == job[r] = Idle /\ job' = [job EXCEPT ![r] = [j EXCEPT !.now = clock]]
At(r, op, at) == job[r].op = op /\ job[r].at = at
Move(r, at) == job' = [job EXCEPT ![r].at = at]
Done(r) == job' = [job EXCEPT ![r] = Idle]
CodeFree(r, k) == \A q \in Requests \ {r} : k \notin job[q].codes
NodeFree(r, n) == \A q \in Requests \ {r} : n \notin job[q].nodes

Tick ==
    /\ clock < MaxClock /\ clock' = clock + 1
    /\ UNCHANGED <<person, code, node, announced, guesses, held, token, job>>

----------------------------------------------------------------------------
(* createPairing *)

\* The account is read before the transaction.
Create(r) ==
    /\ person /\ Begin(r, [Idle EXCEPT !.op = "create", !.at = "select"])
    /\ UNCHANGED <<clock, person, code, node, announced, guesses, held, token>>

\* The DELETE takes the unused codes of the ref that were there when it began ...
CreateSelect(r) ==
    /\ At(r, "create", "select")
    /\ job' = [job EXCEPT ![r].at = "delete", ![r].todo = {k \in Codes : code[k].state = "live"}]
    /\ UNCHANGED <<clock, person, code, node, announced, guesses, held, token>>

\* ... and are unused still when whoever has locked them is done.
CreateDelete(r) ==
    /\ At(r, "create", "delete") /\ \A k \in job[r].todo : CodeFree(r, k)
    /\ job' = [job EXCEPT ![r].at = "insert",
                          ![r].codes = {k \in job[r].todo : code[k].state = "live"}]
    /\ UNCHANGED <<clock, person, code, node, announced, guesses, held, token>>

\* The new code, and the commit.
CreateInsert(r, k) ==
    /\ At(r, "create", "insert") /\ code[k].state = "none"
    /\ code' = [c \in Codes |->
          IF c = k THEN [NoCode EXCEPT !.state = "live", !.exp = job[r].now + CodeTTL]
          ELSE IF c \in job[r].codes THEN [code[c] EXCEPT !.state = "deleted"] ELSE code[c]]
    /\ Done(r)
    /\ UNCHANGED <<clock, person, node, announced, guesses, held, token>>

----------------------------------------------------------------------------
(* redeem *)

\* A pairing is named, with its code or with a wrong one; a code alone is right.
Redeem(r, k, right) ==
    /\ code[k].state # "none"
    /\ Begin(r, [Idle EXCEPT !.op = "redeem", !.at = "lock", !.code = k, !.right = right])
    /\ UNCHANGED <<clock, person, code, node, announced, guesses, held, token>>

\* What the row says when it is read; refusals that write nothing end the request.
Reading(r) ==
    LET j == job[r]
        c == code[j.code]
    IN  [j EXCEPT !.at = IF j.right THEN "pair" ELSE "try", !.tries = c.tries]
Redeemable(r) ==
    LET c == code[job[r].code]
    IN  c.state = "live" /\ c.tries < MaxTries /\ (job[r].right => c.exp > job[r].now)

\* Mutant: the row is read and not locked.
LockPairingNot(r) ==
    /\ At(r, "redeem", "lock") /\ Redeemable(r)
    /\ job' = [job EXCEPT ![r] = Reading(r)]
    /\ UNCHANGED <<clock, person, code, node, announced, guesses, held, token>>

\* SELECT ... FOR UPDATE.
LockPairing(r) ==
    /\ At(r, "redeem", "lock") /\ Redeemable(r) /\ CodeFree(r, job[r].code)
    /\ job' = [job EXCEPT ![r] = [Reading(r) EXCEPT !.codes = {job[r].code}]]
    /\ UNCHANGED <<clock, person, code, node, announced, guesses, held, token>>

\* A wrong code is counted and the count is committed.
CountTry(r) ==
    LET j == job[r]
    IN  /\ At(r, "redeem", "try")
        /\ code' = [code EXCEPT ![j.code].tries = j.tries + 1]
        /\ guesses' = [guesses EXCEPT ![j.code] = @ + 1] /\ Done(r)
        /\ UNCHANGED <<clock, person, node, announced, held, token>>

\* The right one is used and the principal is there, with its event; the answer,
\* with the credential, is on its way.
PairMachine(r, n) ==
    LET j == job[r]
    IN  /\ At(r, "redeem", "pair") /\ node[n] = NoNode
        /\ code' = [code EXCEPT ![j.code].state = "used"]
        /\ node' = [node EXCEPT ![n] = [NoNode EXCEPT !.status = "active", !.code = j.code, !.cred = 1]]
        /\ job' = [job EXCEPT ![r] = [Idle EXCEPT !.op = "redeem", !.at = "answer", !.node = n, !.gen = 1]]
        /\ UNCHANGED <<clock, person, announced, guesses, held, token>>

----------------------------------------------------------------------------
(* The machine itself *)

\* issueNodeToken: one read of the row; the credential of before a rotation works
\* for the grace.
IssueToken(n) ==
    LET p == node[n]
    IN  /\ p.status = "active" /\ held[n] # 0
        /\ held[n] = p.cred \/ (held[n] = p.prev /\ p.until > clock)
        /\ token' = [token EXCEPT ![n] = clock + TokenTTL]
        /\ UNCHANGED <<clock, person, code, node, announced, guesses, held, job>>

\* selfOf: the token is verified and the principal read.
Rotate(r, n) ==
    /\ token[n] > clock /\ node[n].status = "active"
    /\ Begin(r, [Idle EXCEPT !.op = "rotate", !.at = "lock", !.node = n])
    /\ UNCHANGED <<clock, person, code, node, announced, guesses, held, token>>

\* rotateCredential: FOR UPDATE, and the machine is still active.
RotateLock(r) ==
    /\ At(r, "rotate", "lock") /\ NodeFree(r, job[r].node) /\ node[job[r].node].status = "active"
    /\ job' = [job EXCEPT ![r].at = "write", ![r].nodes = {job[r].node}]
    /\ UNCHANGED <<clock, person, code, node, announced, guesses, held, token>>

RotateWrite(r) ==
    LET n == job[r].node
        p == node[n]
    IN  /\ At(r, "rotate", "write") /\ p.cred < MaxGen
        /\ node' = [node EXCEPT ![n] = [p EXCEPT !.cred = p.cred + 1, !.prev = p.cred,
                                                 !.until = job[r].now + Grace]]
        /\ job' = [job EXCEPT ![r] = [Idle EXCEPT !.op = "rotate", !.at = "answer", !.node = n,
                                                  !.gen = p.cred + 1]]
        /\ UNCHANGED <<clock, person, code, announced, guesses, held, token>>

\* The answer of a pairing or a rotation reaches the machine.
Answer(r) ==
    /\ job[r].at = "answer"
    /\ held' = [held EXCEPT ![job[r].node] = job[r].gen] /\ Done(r)
    /\ UNCHANGED <<clock, person, code, node, announced, guesses, token>>

----------------------------------------------------------------------------
(* Revocation *)

\* Mutant: an operator's write does not ask what the status is by now.
SetPrincipalStatusBlindly(n, to) ==
    /\ node[n].status # "none" /\ \A r \in Requests : NodeFree(r, n)
    /\ node' = [node EXCEPT ![n].status = to]
    /\ UNCHANGED <<clock, person, code, announced, guesses, held, token, job>>

\* An operator drains a machine or makes it active again.
SetPrincipalStatus(n, to) ==
    /\ node[n].status \in {"active", "draining"} /\ \A r \in Requests : NodeFree(r, n)
    /\ node' = [node EXCEPT ![n].status = to]
    /\ UNCHANGED <<clock, person, code, announced, guesses, held, token, job>>

\* revokeScoped, for the person and for the service: the row is found ...
Revoke(r, n) ==
    /\ node[n].status # "none"
    /\ Begin(r, [Idle EXCEPT !.op = "revoke", !.at = "write", !.node = n])
    /\ UNCHANGED <<clock, person, code, node, announced, guesses, held, token>>

RevokedRow(p) == [p EXCEPT !.status = "revoked", !.prev = 0, !.until = 0]

\* Mutant: the event goes with every revocation, the second too.
RevokeRowBlindly(r) ==
    LET n == job[r].node
    IN  /\ At(r, "revoke", "write") /\ NodeFree(r, n)
        /\ node' = [node EXCEPT ![n] = RevokedRow(@)]
        /\ announced' = [announced EXCEPT ![n] = @ + 1] /\ Done(r)
        /\ UNCHANGED <<clock, person, code, guesses, held, token>>

\* ... and revokeRow revokes it, with its event, unless somebody else has.
RevokeRow(r) ==
    LET n == job[r].node
    IN  /\ At(r, "revoke", "write") /\ NodeFree(r, n) /\ node[n].status # "revoked"
        /\ node' = [node EXCEPT ![n] = RevokedRow(@)]
        /\ announced' = [announced EXCEPT ![n] = @ + 1] /\ Done(r)
        /\ UNCHANGED <<clock, person, code, guesses, held, token>>

\* erase, with revokeOwnedBy: the rows that are not revoked are selected, ...
Erase(r) ==
    /\ person
    /\ Begin(r, [Idle EXCEPT !.op = "erase", !.at = "write",
          !.todo = {n \in Nodes : node[n].status \in {"active", "draining"}}])
    /\ UNCHANGED <<clock, person, code, node, announced, guesses, held, token>>

\* ... updated one by one, each if it is not revoked by then, ...
EraseNext(r, n) ==
    /\ At(r, "erase", "write") /\ n \in job[r].todo /\ NodeFree(r, n)
    /\ job' = [job EXCEPT ![r].todo = @ \ {n},
                          ![r].nodes = IF node[n].status = "revoked" THEN @ ELSE @ \cup {n}]
    /\ UNCHANGED <<clock, person, code, node, announced, guesses, held, token>>

\* ... and committed with the rest of the erasure. The codes stay.
EraseCommit(r) ==
    /\ At(r, "erase", "write") /\ job[r].todo = {}
    /\ person' = FALSE
    /\ node' = [n \in Nodes |-> IF n \in job[r].nodes THEN RevokedRow(node[n]) ELSE node[n]]
    /\ announced' = [n \in Nodes |-> IF n \in job[r].nodes THEN announced[n] + 1 ELSE announced[n]]
    /\ Done(r)
    /\ UNCHANGED <<clock, code, guesses, held, token>>

\* A refusal that writes nothing, a crash, an exception or an answer that is lost.
Fail(r) ==
    /\ job[r] # Idle /\ Done(r)
    /\ UNCHANGED <<clock, person, code, node, announced, guesses, held, token>>

----------------------------------------------------------------------------
PairingStep(r) ==
    \/ Create(r) \/ CreateSelect(r) \/ CreateDelete(r) \/ \E k \in Codes : CreateInsert(r, k)
    \/ \E k \in Codes, right \in BOOLEAN : Redeem(r, k, right)
    \/ LockPairing(r) \/ CountTry(r) \/ \E n \in Nodes : PairMachine(r, n)

MachineStep(r) == (\E n \in Nodes : Rotate(r, n)) \/ RotateLock(r) \/ RotateWrite(r) \/ Answer(r)

RevocationStep(r) ==
    \/ RevokeRow(r) \/ Erase(r) \/ EraseCommit(r) \/ Fail(r)
    \/ \E n \in Nodes : Revoke(r, n) \/ EraseNext(r, n)

Next ==
    \/ Tick
    \/ \E n \in Nodes : IssueToken(n) \/ \E to \in {"active", "draining"} : SetPrincipalStatus(n, to)
    \/ \E r \in Requests : PairingStep(r) \/ MachineStep(r) \/ RevocationStep(r)

Spec == Init /\ [][Next]_vars

----------------------------------------------------------------------------
(* Properties *)

\* A code pairs one machine, whoever else redeems it at the same time (redeem).
OneMachinePerCode == \A m, n \in Nodes :
    m # n /\ node[m].code = node[n].code => node[m].code = NoId

\* Every wrong code is counted, however many are tried at once, and a code that
\* was guessed MAX_TRIES times is dead (redeem commits the count, then refuses).
WrongTriesCounted == \A k \in Codes : code[k].tries = guesses[k] /\ guesses[k] <= MaxTries

\* Every revocation is announced once, by the transaction that makes it, though
\* the person, the service and the erasure revoke at once (revokeRow).
RevokedAnnounced == \A n \in Nodes :
    announced[n] = IF node[n].status = "revoked" THEN 1 ELSE 0

\* No rotation, drain or retry that was under way changes a machine that has been
\* revoked: it never signs in again.
RevokedStays == [][\A n \in Nodes : node[n].status = "revoked" => node'[n] = node[n]]_vars
=============================================================================
